SPECIFICATION Spec
CONSTANTS
  Items = {1, 2, 3, 10, 11, 12, 20}
  MaxCancels = 1
INVARIANT TopIsSmallest
CHECK_DEADLOCK FALSE
