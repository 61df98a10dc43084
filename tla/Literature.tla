------------------------------ MODULE Literature ------------------------------
(* Literature searches: the Agents of the Runs of a process, each with backends *)
(* of its own, share one HTTP policy for each source, which spaces the requests, *)
(* retries, and cools down; a search of "auto" moves on from a source that is    *)
(* unavailable. Times are what is left of them, in ticks.                        *)
EXTENDS Naturals, Sequences, Functions, FiniteSets

CONSTANTS
  Clients,            \* the Agents that search, each in the thread of its Run
  Order,              \* the backends of MultiSourceLiteratureBackend
  Interval,           \* interval_seconds, of every source
  MaxAttempts,        \* max_retries
  Cooldown,           \* COOLDOWN_SECONDS
  LongRetry,          \* a Retry-After, or a time to the reset of the quota
  Deadline,           \* of the Run a client works for
  MaxSearches,
  NoOne

Providers == Range(Order)
Never == Deadline + 1                           \* the time left to a client without a budget

Longer(a, b) == IF a > b THEN a ELSE b
Backoff(n) == 2 ^ n                             \* 3.0 * 2**attempt, in ticks of three seconds

\* What the constants are. That the powers are numbers is said for the provers, who are not
\* told of powers.
LiteratureAssumption ==
  /\ Order \in Seq(Providers) /\ Order # <<>> /\ "auto" \notin Providers
  /\ \A j, k \in 1 .. Len(Order) : Order[j] = Order[k] => j = k
  /\ Interval \in [Providers -> Nat] /\ MaxAttempts \in Nat \ {0}
  /\ \A n \in 0 .. MaxAttempts : Backoff(n) \in Nat
  /\ {Cooldown, LongRetry, Deadline, MaxSearches} \subseteq Nat
  /\ NoOne \notin Clients

VARIABLES
  owner, nextIn, coolIn,      \* of each source: _lock, _next_request_at and _cooldown_until
  current,                    \* of each client: _current_index of its backends
  at, want, rest,             \* of each client: its place, the source it wants, those to try
  attempt, attempts,          \* the attempt of fetch, and source_attempts
  outcome,
  cancelled, deadlineIn,      \* its token, and the time left to its Run
  inFlight, quietIn, heard,   \* what the source sees: requests, the quiet it asked for, its answers
  searches

sourceVars == <<owner, nextIn, coolIn, current>>
worldVars == <<inFlight, quietIn, heard>>
tokenVars == <<cancelled, deadlineIn>>
vars == <<sourceVars, at, want, rest, attempt, attempts, outcome, tokenVars, worldVars, searches>>

Init ==
  /\ owner = [s \in Providers |-> NoOne]
  /\ nextIn = [s \in Providers |-> 0] /\ coolIn = [s \in Providers |-> 0]
  /\ current = [c \in Clients |-> 1]
  /\ at = [c \in Clients |-> "idle"] /\ want = [c \in Clients |-> "auto"]
  /\ rest = [c \in Clients |-> <<>>]
  /\ attempt = [c \in Clients |-> 0] /\ attempts = [c \in Clients |-> <<>>]
  /\ outcome = [c \in Clients |-> "none"]
  /\ cancelled = [c \in Clients |-> FALSE] /\ deadlineIn \in [Clients -> {Deadline, Never}]
  /\ inFlight = [s \in Providers |-> {}] /\ quietIn = [s \in Providers |-> 0]
  /\ heard = [c \in Clients |-> <<>>]
  /\ searches = 0

Source(c) == Head(rest[c])
Expired(c) == deadlineIn[c] = 0
Stopped(c) == cancelled[c] \/ Expired(c)
Go(c, place) == at' = [at EXCEPT ![c] = place]
Record(c, status) == attempts' = [attempts EXCEPT ![c] = Append(@, [source |-> Source(c), status |-> status])]
Hear(c, status) == heard' = [heard EXCEPT ![c] = Append(@, [source |-> Source(c), status |-> status])]
Release(s) == owner' = [owner EXCEPT ![s] = NoOne]

End(c, how) ==
  /\ Go(c, "idle") /\ outcome' = [outcome EXCEPT ![c] = how]
  /\ rest' = [rest EXCEPT ![c] = <<>>]

\* Mutant: a failure that another source does not have is also taken to it.
RaiseLenient(c, error) ==
  /\ Record(c, error)
  /\ IF Len(rest[c]) > 1
       THEN /\ rest' = [rest EXCEPT ![c] = Tail(@)] /\ Go(c, "acquire") /\ UNCHANGED outcome
       ELSE End(c, error)

\* Mutant: when no source is left, what was found is nothing.
RaiseEmpty(c, error) ==
  /\ Record(c, error)
  /\ IF want[c] = "auto" /\ error = "unavailable" /\ Len(rest[c]) > 1
       THEN /\ rest' = [rest EXCEPT ![c] = Tail(@)] /\ Go(c, "acquire") /\ UNCHANGED outcome
       ELSE End(c, IF error = "unavailable" THEN "success" ELSE error)

\* An error of a backend: search goes on to the next one, or raises.
Raise(c, error) ==
  /\ Record(c, error)
  /\ IF want[c] = "auto" /\ error = "unavailable" /\ Len(rest[c]) > 1
       THEN /\ rest' = [rest EXCEPT ![c] = Tail(@)] /\ Go(c, "acquire") /\ UNCHANGED outcome
       ELSE End(c, error)

-----------------------------------------------------------------------------
(* MultiSourceLiteratureBackend.search *)

\* From the one that last answered, round to the one before it.
Round(k) == IF k <= Len(Order) THEN k ELSE k - Len(Order)
Indices(c, source) ==
  IF source = "auto" THEN [k \in 1 .. Len(Order) |-> Order[Round(current[c] + k - 1)]]
                     ELSE <<source>>

Begin(c, source, sources) ==
  /\ want' = [want EXCEPT ![c] = source] /\ rest' = [rest EXCEPT ![c] = sources]
  /\ Go(c, "acquire") /\ outcome' = [outcome EXCEPT ![c] = "none"]

Called(c) ==
  /\ at[c] = "idle" /\ searches < MaxSearches
  /\ searches' = searches + 1
  /\ attempts' = [attempts EXCEPT ![c] = <<>>] /\ heard' = [heard EXCEPT ![c] = <<>>]
  /\ UNCHANGED <<sourceVars, attempt, tokenVars, inFlight, quietIn>>

Valid(source, page) == source = "auto" => page = 1

Search(c, source, page) ==
  /\ Called(c)
  /\ IF Valid(source, page) THEN Begin(c, source, Indices(c, source))
                            ELSE want' = [want EXCEPT ![c] = source] /\ End(c, "invalid")

\* A paper is looked up at the provider of its identity only.
Resolve(c, source) == Called(c) /\ Begin(c, source, <<source>>)

-----------------------------------------------------------------------------
(* LiteratureHTTP.fetch *)

Acquire(c) ==
  /\ at[c] = "acquire" /\ ~Stopped(c) /\ owner[Source(c)] = NoOne
  /\ owner' = [owner EXCEPT ![Source(c)] = c]
  /\ attempt' = [attempt EXCEPT ![c] = 0]
  /\ Go(c, "cool")
  /\ UNCHANGED <<nextIn, coolIn, current, want, rest, attempts, outcome, tokenVars, worldVars, searches>>

\* A client that is cancelled or late while it waits for the lock, or for the next request.
GiveUp(c) ==
  /\ at[c] \in {"acquire", "space"} /\ Stopped(c)
  /\ IF at[c] = "space" THEN Release(Source(c)) ELSE UNCHANGED owner
  /\ End(c, IF cancelled[c] THEN "cancelled" ELSE "deadline")
  /\ UNCHANGED <<nextIn, coolIn, current, want, attempt, attempts, tokenVars, worldVars, searches>>

CheckCooldown(c) ==
  /\ at[c] = "cool"
  /\ IF coolIn[Source(c)] > 0
       THEN Raise(c, "unavailable") /\ Release(Source(c))
       ELSE Go(c, "space") /\ UNCHANGED <<owner, attempts, rest, outcome>>
  /\ UNCHANGED <<nextIn, coolIn, current, want, attempt, tokenVars, worldVars, searches>>

Send(c) ==
  /\ at[c] = "space" /\ ~Stopped(c) /\ nextIn[Source(c)] = 0
  /\ inFlight' = [inFlight EXCEPT ![Source(c)] = @ \union {c}]
  /\ Go(c, "sent")
  /\ UNCHANGED <<sourceVars, want, rest, attempt, attempts, outcome, tokenVars, quietIn, heard, searches>>

\* The end of a request, and the time set for the next one whatever the end was.
Ends(c, status, quiet, next) ==
  /\ at[c] = "sent"
  /\ inFlight' = [inFlight EXCEPT ![Source(c)] = @ \ {c}]
  /\ quietIn' = [quietIn EXCEPT ![Source(c)] = Longer(Longer(@, quiet), Interval[Source(c)])]
  /\ Hear(c, status)
  /\ nextIn' = [nextIn EXCEPT ![Source(c)] = Longer(Interval[Source(c)], next)]
  /\ UNCHANGED <<want, tokenVars, searches>>

\* Mutant: the place of the source is counted from zero.
FoundZero(c) ==
  /\ Ends(c, "success", 0, 0)
  /\ Record(c, "success") /\ End(c, "success") /\ Release(Source(c))
  /\ IF want[c] = "auto" THEN current' = [current EXCEPT ![c] = (CHOOSE k \in 1 .. Len(Order) : Order[k] = Source(c)) - 1]
                         ELSE UNCHANGED current
  /\ UNCHANGED <<coolIn, attempt>>

Found(c) ==
  /\ Ends(c, "success", 0, 0)
  /\ Record(c, "success") /\ End(c, "success") /\ Release(Source(c))
  /\ IF want[c] = "auto" THEN current' = [current EXCEPT ![c] = CHOOSE k \in 1 .. Len(Order) : Order[k] = Source(c)]
                         ELSE UNCHANGED current
  /\ UNCHANGED <<coolIn, attempt>>

\* A body that is not what was asked for, or a request that the source rejects.
Rejected(c) ==
  /\ Ends(c, "rejected", 0, 0)
  /\ Raise(c, "rejected") /\ Release(Source(c))
  /\ UNCHANGED <<coolIn, current, attempt>>

\* HTTP 406: only this source cannot serve the request.
Unserved(c) ==
  /\ Ends(c, "unavailable", 0, 0)
  /\ Raise(c, "unavailable") /\ Release(Source(c))
  /\ UNCHANGED <<coolIn, current, attempt>>

Cools(c, ticks) == coolIn' = [coolIn EXCEPT ![Source(c)] = ticks]

\* The Retry-After of a response, and the time to the reset of a quota that is used up.
RetryAfters == {0, LongRetry}
QuotaCooldowns == {0, LongRetry}

\* Mutant: the cooldown is the fixed one, and not what the source asked for.
LimitedFixed(c, retryAfter) ==
  /\ Ends(c, "unavailable", retryAfter, 0)
  /\ Cools(c, Cooldown)
  /\ Raise(c, "unavailable") /\ Release(Source(c))
  /\ UNCHANGED <<current, attempt>>

\* HTTP 429, or an error of the service with a Retry-After.
Limited(c, retryAfter) ==
  /\ Ends(c, "unavailable", retryAfter, 0)
  /\ Cools(c, Longer(Cooldown, retryAfter))
  /\ Raise(c, "unavailable") /\ Release(Source(c))
  /\ UNCHANGED <<current, attempt>>

\* Mutant: a request that is to be tried again gives the lock to others meanwhile.
TransientReleased(c) ==
  /\ Ends(c, "unavailable", 0, IF attempt[c] + 1 < MaxAttempts THEN Backoff(attempt[c]) ELSE 0)
  /\ attempt' = [attempt EXCEPT ![c] = @ + 1]
  /\ Release(Source(c))
  /\ IF attempt[c] + 1 < MaxAttempts
       THEN Go(c, "space") /\ UNCHANGED <<coolIn, attempts, rest, outcome>>
       ELSE Cools(c, Cooldown) /\ Raise(c, "unavailable")
  /\ UNCHANGED current

\* Other errors of the service, of the network, and requests that are late: tried again, or
\* the last of the attempts.
Transient(c) ==
  /\ Ends(c, "unavailable", 0, IF attempt[c] + 1 < MaxAttempts THEN Backoff(attempt[c]) ELSE 0)
  /\ attempt' = [attempt EXCEPT ![c] = @ + 1]
  /\ IF attempt[c] + 1 < MaxAttempts
       THEN Go(c, "space") /\ UNCHANGED <<owner, coolIn, attempts, rest, outcome>>
       ELSE Cools(c, Cooldown) /\ Raise(c, "unavailable") /\ Release(Source(c))
  /\ UNCHANGED current

\* send_request is interrupted by the token, or by the deadline of the Run.
Interrupted(c) ==
  /\ Stopped(c)
  /\ Ends(c, "interrupted", 0, 0)
  /\ End(c, IF cancelled[c] THEN "cancelled" ELSE "deadline") /\ Release(Source(c))
  /\ UNCHANGED <<coolIn, current, attempt, attempts>>

-----------------------------------------------------------------------------
(* The specification *)

Cancel(c) ==
  /\ at[c] # "idle" /\ ~cancelled[c] /\ cancelled' = [cancelled EXCEPT ![c] = TRUE]
  /\ UNCHANGED <<sourceVars, at, want, rest, attempt, attempts, outcome, deadlineIn, worldVars, searches>>

Less(n) == IF n = 0 THEN 0 ELSE n - 1
Tick ==
  /\ \/ \E s \in Providers : nextIn[s] > 0 \/ coolIn[s] > 0 \/ quietIn[s] > 0
     \/ \E c \in Clients : deadlineIn[c] \in 1 .. Deadline
  /\ nextIn' = [s \in Providers |-> Less(nextIn[s])]
  /\ coolIn' = [s \in Providers |-> Less(coolIn[s])]
  /\ quietIn' = [s \in Providers |-> Less(quietIn[s])]
  /\ deadlineIn' = [c \in Clients |-> IF deadlineIn[c] = Never THEN Never ELSE Less(deadlineIn[c])]
  /\ UNCHANGED <<owner, current, at, want, rest, attempt, attempts, outcome, cancelled, inFlight, heard, searches>>

Done == searches = MaxSearches /\ (\A c \in Clients : at[c] = "idle") /\ UNCHANGED vars

Local(c) == Acquire(c) \/ GiveUp(c) \/ CheckCooldown(c) \/ Send(c)
Response(c) ==
  \/ Found(c) \/ Rejected(c) \/ Unserved(c) \/ Transient(c)
  \/ \E quiet \in RetryAfters \union QuotaCooldowns : Limited(c, quiet)

Next ==
  \/ \E c \in Clients, source \in Providers \union {"auto"}, page \in {1, 2} : Search(c, source, page)
  \/ \E c \in Clients, source \in Providers : Resolve(c, source)
  \/ \E c \in Clients : Local(c) \/ Response(c) \/ Interrupted(c) \/ Cancel(c)
  \/ Tick \/ Done

Spec == Init /\ [][Next]_vars

-----------------------------------------------------------------------------
(* What is expected of it *)

Statuses == {"success", "unavailable", "rejected", "interrupted"}
Told == Seq([source : Providers, status : Statuses])

\* The variables have their types.
TypeInvariant ==
  /\ owner \in [Providers -> Clients \union {NoOne}] /\ current \in [Clients -> 1 .. Len(Order)]
  /\ nextIn \in [Providers -> Nat] /\ coolIn \in [Providers -> Nat] /\ quietIn \in [Providers -> Nat]
  /\ at \in [Clients -> {"idle", "acquire", "cool", "space", "sent"}]
  /\ want \in [Clients -> Providers \union {"auto"}]
  /\ attempt \in [Clients -> 0 .. MaxAttempts]
  /\ \A c \in Clients : rest[c] \in Seq(Providers) /\ attempts[c] \in Told /\ heard[c] \in Told
  /\ outcome \in [Clients -> Statuses \union {"none", "invalid", "cancelled", "deadline"}]
  /\ cancelled \in [Clients -> BOOLEAN] /\ deadlineIn \in [Clients -> 0 .. Never]
  /\ inFlight \in [Providers -> SUBSET Clients] /\ searches \in 0 .. MaxSearches

\* Threads never have two requests at one source at a time, retries and searches that are
\* given up included (_http.py:100).
Serialized == \A s \in Providers : Cardinality(inFlight[s]) <= 1

\* "Failures never become empty search results" (backends.py:123): a search that returns
\* has the answer of its last source, to this very request, and those tried before it were
\* unavailable; one of "auto" is unavailable only when each of the sources was.
OutcomesTrue ==
  \A c \in Clients : at[c] = "idle" =>
    /\ outcome[c] = "success" =>
         /\ heard[c] # <<>> /\ attempts[c] # <<>>
         /\ heard[c][Len(heard[c])] = attempts[c][Len(attempts[c])]
         /\ heard[c][Len(heard[c])].status = "success"
         /\ \A k \in 1 .. Len(attempts[c]) - 1 : attempts[c][k].status = "unavailable"
    /\ outcome[c] = "unavailable" /\ want[c] = "auto" =>
         {a.source : a \in Range(attempts[c])} = Providers

\* A source hears at most max_attempts requests of a search, and after an answer, or a
\* rejection of the query, none is made to any source.
TriesBounded ==
  \A c \in Clients :
    /\ \A s \in Providers : Cardinality({k \in 1 .. Len(heard[c]) : heard[c][k].source = s}) <= MaxAttempts
    /\ \A k \in 1 .. Len(heard[c]) : heard[c][k].status # "unavailable" => k = Len(heard[c]) /\ at[c] = "idle"
===============================================================================
