SPECIFICATION Spec
CONSTANTS
  Paths = {"code", "lib"}
  Scopes = {{"code", "lib"}, {"code"}}
  MaxVersion = 2
  MaxAttempts = 2
  MaxEdits = 2
  MaxOutside = 1
  MaxFaults = 1
  MaxCrashes = 1
INVARIANTS
  ResultExact
  NoBlindRetry
