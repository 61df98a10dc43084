SPECIFICATION Spec
CONSTANTS
  MaxTasks = 2
  DependsOn <- MCChain
  MaxAttempts = 2
  MaxCalls = 6
  MaxWorks = 2
  ControlKinds = {"input", "interrupt"}
  MaxControls = 1
  MaxCrashes = 2
CHECK_DEADLOCK FALSE
INVARIANTS
  TypeOK
  BudgetRespected
  AtMostOneActiveWork
  ProposalAcceptedOnce
  TasksInOrder
  SettledWorkReported
  CompletedRunSettled
PROPERTIES
  ReportedAttemptFinal
