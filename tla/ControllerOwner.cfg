SPECIFICATION Spec
CONSTANTS
  MaxTasks = 2
  DependsOn <- MCIndependent
  MaxAttempts = 2
  MaxCalls = 6
  MaxWorks = 2
  ControlKinds = {"input", "interrupt", "interruptText"}
  MaxControls = 2
  MaxCrashes = 0
CHECK_DEADLOCK FALSE
INVARIANTS
  CompletedRunInformed
  WaitingTaskHasResponder
  UnconfirmedStopNeverPaused
PROPERTIES
  TerminalIsFinal
  DispatchAllowed
