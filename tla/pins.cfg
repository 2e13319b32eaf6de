SPECIFICATION PinSpec
CONSTANTS
  a = a
  b = b
  Ref = Ref
  Contents = {a, b}
  BadContents = {}
  Sources = {a, Ref}
  Outputs = {"rendered"}
  Histories = {2}
  Suspends = {FALSE}
  Deletable = FALSE
  Periodic = TRUE
  Backend = "local"
  GCGrace = 2
  MaxWithdrawWait = 1
  Faults = {"api", "store", "stat", "partial"}
  Outages = {}
  SlowSteps = {"idle", "put", "prune", "sync"}
  MaxGeneration = 2
  MaxTime = 4
  MaxFaults = 1
  TiedReverts = FALSE
INVARIANT TypeOK
INVARIANT ArtifactServed
INVARIANT PinThenFetch
PROPERTY HistoryWithinKeep
PROPERTY RecordsCurrent
CHECK_DEADLOCK FALSE
