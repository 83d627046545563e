SPECIFICATION Spec
CONSTANTS
  Calls = {1, 2, 3}
  ProfileScenarios <- MCProfileScenarios
  Stores = {"memory", "mongo"}
  MaxClock = 5
  Milli = 2
  Second = 4
  Batch <- MCBatch
  Malformed = {"e2"}
  Workers = {"w1", "w2"}
  Plain = {"audit"}
  MaxBreaks = 1
  Items = {"a", "b", "c"}
  PageSizes = {0, 1, 2, 3}
  MaxNow = 2
  Published <- MCPublished
  Budgets = {0, 1, 2, 3}
INVARIANTS ReadsFresh StreamFaithful QueueGroupOnce PrintedConsistent PagesFaithful RetryOutcome ReplayRepeatsAtMostOne
CHECK_DEADLOCK FALSE
