SPECIFICATION ReplaySpec
CONSTANTS
  Published <- MCPublished
INVARIANTS NoDuplicateSends
CHECK_DEADLOCK FALSE
