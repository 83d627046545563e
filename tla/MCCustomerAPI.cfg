SPECIFICATION FairSpec
CONSTANTS
  a = a
  b = b
  Emails = {a, b}
  Requests = {1, 2, 3, 4, 5}
  Services = {"m04", "m10"}
  Scenarios <- MCScenarios
  DefaultSize = 20
  MaxInt = 31
INVARIANTS OneCustomerPerEmail SeesEarlierAnswers PageFaithful LogsAccount
PROPERTIES EveryRequestAnswered
