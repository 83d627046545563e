SPECIFICATION FairSpec
CONSTANTS
  Notifications = {n1, n2}
  Workers = {w1}
  MaxAttempts = 2
  DeadCap = 1
  None = None
PROPERTIES StopsAccepting
