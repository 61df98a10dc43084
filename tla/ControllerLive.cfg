SPECIFICATION FairSpec
CONSTANTS
  MaxTasks = 2
  DependsOn <- MCChain
  MaxAttempts = 2
  MaxCalls = 5
  MaxWorks = 1
  ControlKinds = {"input", "interrupt"}
  MaxControls = 1
  MaxCrashes = 0
CHECK_DEADLOCK FALSE
PROPERTIES
  OwnerReturns
