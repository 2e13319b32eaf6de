SPECIFICATION FairTenantSpec
CONSTANTS
  s1 = s1
  s2 = s2
  Snippets = {s1, s2}
  WorkerCounts = {1, 2}
  Lifetimes = {1}
  Margin = 1
  MaxUid = 2
  MaxFaults = 1
INVARIANT NoResurrection
INVARIANT NothingLeft
INVARIANT RefusedForCause
PROPERTY AccessRecovers
CHECK_DEADLOCK FALSE
