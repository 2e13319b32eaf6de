SPECIFICATION FairCrdSpec
CONSTANTS
  g = g
  Kinds = {g}
  crdWatchMaxRetries = 2
  MaxEvents = 2
  MaxAttempt = 3
  GracefulShutdownTimeout = 1
  MaxOutages = 2
INVARIANT BackoffGrows
INVARIANT OneWatch
INVARIANT NotStranded
PROPERTY Recovers
CHECK_DEADLOCK FALSE
