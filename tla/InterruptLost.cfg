SPECIFICATION Spec
CONSTANTS
  MaxTasks = 1
  DependsOn <- MCIndependent
  MaxAttempts = 2
  MaxCalls = 5
  MaxWorks = 1
  ControlKinds = {"interrupt"}
  MaxControls = 1
  MaxCrashes = 1
CHECK_DEADLOCK FALSE
PROPERTY
  NoDispatchPastInterrupt
