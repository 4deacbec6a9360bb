CONSTANTS
  g1 = g1
  g2 = g2
  r1 = r1
  r2 = r2
  Generators = {g1, g2}
  Refreshers = {r1, r2}
  Ttl = 3
  Margin = 2
  CreateDelay = 1
  GenDelay = 1
  WordBits = 16
  Minute = 64
  MaxTime = 5
  MaxCreates = 2
  MaxFails = 3
SPECIFICATION Spec
SYMMETRY Goroutines
CHECK_DEADLOCK FALSE
INVARIANTS TypeOK OneRefresher NoExpiredCache RowIsSafe BackoffEnds
