SPECIFICATION PartsSpec
CONSTANTS
  Explored = {"shell"}
  Sources <- AllSources
  MaxCalls = 2
  MaxCrashes = 2
  MaxFaults = 2
  Pids = {p1, p2, p3}
  Leader = p1
  MaxBirths = 3
  SlowReuse = TRUE
  Targets <- TreeAndFile
  Denied <- DeniedEntry
  MaxEdits = 1
  Clients = {c1, c2}
  Order <- Both
  Interval <- BothIntervals
  MaxAttempts = 2
  Cooldown = 1
  LongRetry = 2
  Deadline = 1
  MaxSearches = 2
  NoOne = NoOne
  Limit = 20
  FixedSizes = {4, 9, 21}
  TurnSizes = {1, 2, 6}
  SummarySizes = {1, 6}
  PromptSize = 3
  MaxRequests = 7
  MaxTurns = 6
  MaxRestarts = 1
  Runs = {a, b}
  NoRun = NoRun
  Commands = {"run", "resume", "answer", "attach", "show", "text", "interrupt", "quit", "correct"}
  MaxLines = 3
  MaxSignals = 1
SYMMETRY InterchangeableRuns
INVARIANTS
  ControlsReachOwner
  ShellSound
