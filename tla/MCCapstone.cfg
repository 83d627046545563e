SPECIFICATION FairSpec
CONSTANTS
  Events = {e1, e2}
  Invalid = {e2}
  Malformed = {}
  Procs = {p1, p2}
  MaxDeliver = 2
  MaxCrashes = 1
INVARIANTS WelcomeIsForCustomer CreatedMeansPublished
PROPERTIES ImplementsConsumer CreatedIsWelcomed
