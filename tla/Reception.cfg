SPECIFICATION FairSpec
CONSTANTS
  Keys <- AttemptKeys
  Bytes <- AttemptBytes
  Facts <- AttemptFacts
  Files = {f1}
  MaxOutputs = 2
  MaxCommands = 2
  MaxEdits = 1
  MaxFaults = 1
  MaxCrashes = 2
INVARIANTS
  RegistrySound
PROPERTIES
  ReceptionSound
  ResultsReceived
