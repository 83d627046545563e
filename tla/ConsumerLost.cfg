SPECIFICATION Spec
CONSTANTS
  Events = {e1}
  Malformed = {}
  Procs = {p1}
  MaxDeliver = 2
  MaxCrashes = 1
INVARIANTS NotSilentlyLost
