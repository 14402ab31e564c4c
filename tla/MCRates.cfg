SPECIFICATION Spec
CONSTANTS
  a = a
  b = b
  Kinds <- MCKinds
  Systems = {a, b}
  Host = a
  p = p
  q = q
  r = r
  Pids = {p, q, r}
  NoPid = NoPid
  ClockSetBack = TRUE
  MaxClock = 2
  MaxCount = 1
  MaxBoot = 1
SYMMETRY MCSymmetry
INVARIANTS TypeOK OwnCounter NeverNegative
