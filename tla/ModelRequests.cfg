SPECIFICATION FairSpec
CONSTANTS
  MaxCalls = 2
  Tries = 2
  Wallet = 2
  MaxFaults = 1
  MaxCrashes = 1
INVARIANTS
  CancelReaches
PROPERTIES
  Accounted
  CallEnds
