SPECIFICATION Spec
CONSTANTS
  Drafts <- TwoRounds
  Works <- TwoWorks
  Registered = {"coding"}
  Artifacts = {"known"}
  Workspaces = {"ws"}
  MaxTasks = 5
  MaxCalls = 4
INVARIANTS
  FailuresSpread
PROPERTIES
  CompiledAsAsked
