CONSTANTS
  g1 = g1
  g2 = g2
  r1 = r1
  r2 = r2
  Generators = {g1}
  Refreshers = {r1}
  Ttl = 3
  Margin = 2
  CreateDelay = 1
  GenDelay = 1
  WordBits = 16
  Minute = 64
  MaxTime = 4
  MaxCreates = 1
  MaxFails = 3
SPECIFICATION Spec
CHECK_DEADLOCK FALSE
PROPERTIES BackoffHonoured
