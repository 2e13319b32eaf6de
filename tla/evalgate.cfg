SPECIFICATION FairGateSpec
CONSTANTS
  e1 = e1
  e2 = e2
  e3 = e3
  e4 = e4
  Calls = {e1, e2, e3, e4}
  Limits = {0, 1, 2}
INVARIANT CapHolds
PROPERTY RejectedOnlyWhenFull
PROPERTY LeaksDrain
