SPECIFICATION FairSpec
CONSTANTS
  Profiles <- AllProfiles
  MaxTurns = 2
  MaxBatch = 2
  FailureLimit = 2
CHECK_DEADLOCK FALSE
INVARIANTS
  ResultCurrent
  GuardedApproved
PROPERTIES
  HistorySound
  KeepsLedger
  InvocationReturns
