SPECIFICATION FairSpec
CONSTANTS
  a = a
  b = b
  c = c
  Ref = Ref
  Contents = {a, b}
  BadContents = {b}
  Sources = {Ref}
  Outputs = {"rendered"}
  Histories = {1}
  Suspends = {FALSE, TRUE}
  Deletable = TRUE
  Periodic = TRUE
  Backend = "local"
  GCGrace = 1
  MaxWithdrawWait = 1
  Faults = {"api", "tenant", "denied", "store", "crash"}
  Outages = {"tenant", "store"}
  SlowSteps = {"idle"}
  MaxGeneration = 2
  MaxTime = 2
  MaxFaults = 1
INVARIANT Settled
INVARIANT NoOrphans
PROPERTY DeletionCompletes
PROPERTY EventuallyPublished
CHECK_DEADLOCK FALSE
