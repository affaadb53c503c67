SPECIFICATION SpecH
CONSTANTS
  Proc = {p1, p2, p3}
  NULL = NULL
  W = 3
  BIG_STRIDE = 3
  Priorities = {0, 2, 4}
INVARIANTS
  PicksMinimum
