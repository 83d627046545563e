SPECIFICATION FairSpec
CONSTANTS
  Notifications = {n1, n2, n3}
  Workers = {w1, w2}
  MaxAttempts = 2
  DeadCap = 1
  None = None
INVARIANTS OneFate RetryBudget DeadChannelSafe MetricsExact
PROPERTIES ImplementsFate RunTerminates EveryNotificationServed
