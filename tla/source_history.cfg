SPECIFICATION Spec
CONSTANTS
  a = a
  b = b
  c = c
  Ref = Ref
  Contents = {a, b}
  BadContents = {}
  Sources = {a, b}
  Outputs = {"source"}
  Histories = {2}
  Suspends = {FALSE}
  Deletable = FALSE
  Periodic = TRUE
  Backend = "local"
  GCGrace = 1
  MaxWithdrawWait = 1
  Faults = {}
  Outages = {}
  SlowSteps = {"idle"}
  MaxGeneration = 3
  MaxTime = 2
  MaxFaults = 0
INVARIANT HistoryRetained
CHECK_DEADLOCK FALSE
