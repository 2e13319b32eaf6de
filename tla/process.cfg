SPECIFICATION FairSpec
CONSTANTS
  g = g
  Kinds = {}
  crdWatchMaxRetries = 2
  MaxEvents = 0
  MaxAttempt = 1
  GracefulShutdownTimeout = 1
  MaxOutages = 1
  BindOrder <- AllServers
  ShutdownOrder <- AllServersShut
  Background = {"sweep"}
  ReadinessRequiresOperator = TRUE
  ShutdownDelay = TRUE
  AwaitSlack = 1
  MaxFaults = 1
INVARIANT NotReadyWhileDraining
INVARIANT OperatorNeverHangs
INVARIANT CleanExit
PROPERTY Terminates
CHECK_DEADLOCK FALSE
