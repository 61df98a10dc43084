SPECIFICATION RunSpec
CONSTANTS
  Keys <- RunKeys
  Bytes <- RunBytes
  Facts <- RunFacts
  Files = {f1}
  Papers = {p1, p2}
  MaxInputs = 1
  MaxItems = 2
  MaxEdits = 1
  MaxFaults = 1
  MaxCrashes = 1
  EndKeys <- ConclusionKeys
  EndBytes <- ConclusionBytes
  EndFacts <- ConclusionFacts
  Opinions = {1, 2}
  MaxTurns = 2
  MaxRecords = 2
  MaxDeaths = 2
INVARIANTS
  ImportsSound
  SnapshotsReused
PROPERTIES
  ConclusionSound
  InitializationEnds
