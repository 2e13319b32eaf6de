SPECIFICATION FairSpec
CONSTANTS
  p = p
  q = q
  Replicas = {p, q}
  Validity = 3
  Attempts = 4
  PromptReload = TRUE
  MaxRestarts = 1
  MaxFaults = 1
  MaxTime = 3
INVARIANT ServedTrusted
INVARIANT ServedFresh
INVARIANT Converged
PROPERTY EventuallyTrusted
CHECK_DEADLOCK FALSE
