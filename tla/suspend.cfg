SPECIFICATION Spec
CONSTANTS
  a = a
  b = b
  c = c
  Ref = Ref
  Contents = {a, b}
  BadContents = {}
  Sources = {a, b}
  Outputs = {"rendered"}
  Histories = {1}
  Suspends = {FALSE, TRUE}
  Deletable = FALSE
  Periodic = TRUE
  Backend = "local"
  GCGrace = 1
  MaxWithdrawWait = 1
  Faults = {}
  Outages = {}
  SlowSteps = {"idle"}
  MaxGeneration = 3
  MaxTime = 2
  MaxFaults = 0
INVARIANT ArtifactServed
CHECK_DEADLOCK FALSE
