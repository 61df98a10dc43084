------------------------------ MODULE Registry ------------------------------
(* How the ArtifactRegistry gives a file an identity: the Ref is allocated  *)
(* and saved with the digest it expects, the bytes are frozen under it, the *)
(* Ref is bound to the Run, and the caller acknowledges it once its own     *)
(* record names the Ref.  Each step is one save or one rename; a process    *)
(* may die between any two.                                                 *)
EXTENDS Naturals, FiniteSets

CONSTANTS Keys, Bytes, Facts

NoRef == [id |-> 0]

Refs == [id : Nat \ {0}, key : Keys, bytes : Bytes, facts : Facts]

VARIABLES
  pending,     \* Run.pending_registrations
  artifacts,   \* Run.artifacts
  frozen,      \* the files under the artifact root, by identity
  allocated    \* the identities new_artifact_id has given out

registryVars == <<pending, artifacts, frozen, allocated>>

RegistryTypes ==
  /\ pending \in [Keys -> Refs \union {NoRef}]
  /\ artifacts \subseteq Refs
  /\ frozen \subseteq [id : Nat \ {0}, bytes : Bytes]
  /\ allocated \in Nat

RegistryInit ==
  /\ pending = [k \in Keys |-> NoRef]
  /\ artifacts = {}
  /\ frozen = {}
  /\ allocated = 0

IsPending(k) == pending[k] # NoRef
IsFrozen(ref) == \E f \in frozen : f.id = ref.id
IsBound(ref) == ref \in artifacts

\* The Ref an interrupted registration of this key left behind must be the
\* one this candidate would get.
Recovers(k, bytes, facts) ==
  IsPending(k) /\ pending[k].bytes = bytes /\ pending[k].facts = facts

\* Mutant: identities are counted from zero.
AllocateFromZero(k, bytes, facts) ==
  /\ ~IsPending(k)
  /\ allocated' = allocated + 1
  /\ pending' = [pending EXCEPT ![k] =
       [id |-> allocated, key |-> k, bytes |-> bytes, facts |-> facts]]
  /\ UNCHANGED <<artifacts, frozen>>

\* Mutant: identities follow the artifacts of the Run.
AllocateCounted(k, bytes, facts) ==
  /\ ~IsPending(k)
  /\ allocated' = allocated + 1
  /\ pending' = [pending EXCEPT ![k] =
       [id |-> Cardinality(artifacts) + 1, key |-> k, bytes |-> bytes, facts |-> facts]]
  /\ UNCHANGED <<artifacts, frozen>>

Allocate(k, bytes, facts) ==
  /\ ~IsPending(k)
  /\ allocated' = allocated + 1
  /\ pending' = [pending EXCEPT ![k] =
       [id |-> allocated + 1, key |-> k, bytes |-> bytes, facts |-> facts]]
  /\ UNCHANGED <<artifacts, frozen>>

\* Mutant: what was copied is not compared with the digest.
FreezeUnverified(k, bytes) ==
  /\ IsPending(k) /\ ~IsFrozen(pending[k])
  /\ frozen' = frozen \union {[id |-> pending[k].id, bytes |-> bytes]}
  /\ UNCHANGED <<pending, artifacts, allocated>>

\* The staged copy is renamed into place only when it has the saved digest.
Freeze(k, bytes) ==
  /\ IsPending(k) /\ ~IsFrozen(pending[k]) /\ pending[k].bytes = bytes
  /\ frozen' = frozen \union {[id |-> pending[k].id, bytes |-> bytes]}
  /\ UNCHANGED <<pending, artifacts, allocated>>

\* Mutant: bound before anything is frozen.
BindUnfrozen(k) ==
  /\ IsPending(k)
  /\ artifacts' = artifacts \union {pending[k]}
  /\ UNCHANGED <<pending, frozen, allocated>>

Bind(k) ==
  /\ IsPending(k) /\ IsFrozen(pending[k])
  /\ artifacts' = artifacts \union {pending[k]}
  /\ UNCHANGED <<pending, frozen, allocated>>

Acknowledge(k) ==
  /\ IsPending(k) /\ IsBound(pending[k])
  /\ pending' = [pending EXCEPT ![k] = NoRef]
  /\ UNCHANGED <<artifacts, frozen, allocated>>

\* An allocation no bytes were ever frozen under is given up.
Drop(k) ==
  /\ IsPending(k) /\ ~IsFrozen(pending[k]) /\ ~IsBound(pending[k])
  /\ pending' = [pending EXCEPT ![k] = NoRef]
  /\ UNCHANGED <<artifacts, frozen, allocated>>

Register ==
  \E k \in Keys :
    \/ pending'[k] \in Refs /\ Allocate(k, pending'[k].bytes, pending'[k].facts)
    \/ Freeze(k, pending[k].bytes)
    \/ Bind(k)
    \/ Acknowledge(k)
    \/ Drop(k)

\* Whoever drives it, the Registry is changed by one registration step at a
\* time: allocate, freeze, bind, acknowledge or drop, each under its guard.
RegistrySpec == RegistryInit /\ [][Register]_registryVars

-----------------------------------------------------------------------------
\* The Refs the Run stands for: bound, or allocated and not yet acknowledged.
Trusted == artifacts \union {pending[k] : k \in {j \in Keys : IsPending(j)}}

\* Every artifact bound to the Run has its file in place, with the digest its
\* Ref carries, wherever the registration of it was interrupted.
ArtifactsFrozen == \A ref \in artifacts : [id |-> ref.id, bytes |-> ref.bytes] \in frozen

\* A frozen file never has other bytes than the Ref of its identity promises.
FrozenAsPromised ==
  \A ref \in Trusted, f \in frozen : f.id = ref.id => f.bytes = ref.bytes

\* No identity stands for two registrations, bound or pending.
IdentitiesDistinct == \A r1, r2 \in Trusted : r1.id = r2.id => r1 = r2

\* Whoever registers, and wherever it dies: an artifact is its frozen file, with
\* the digest of its Ref, under an identity of its own.
RegistrySound == ArtifactsFrozen /\ FrozenAsPromised /\ IdentitiesDistinct
=============================================================================
