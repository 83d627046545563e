SPECIFICATION FairSpec
CONSTANTS
  Events = {e1, e2}
  Malformed = {e2}
  Procs = {p1, p2}
  MaxDeliver = 2
  MaxCrashes = 2
INVARIANTS AckedMeansSent TermedMeansOffered DuplicatesBounded
PROPERTIES EventsEnd
