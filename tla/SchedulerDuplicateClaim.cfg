CONSTANTS
  c1 = c1
  c2 = c2
  c3 = c3
  short = short
  long = long
  Callers = {c1, c2}
  Channels = {ch1}
  Texts = {short, long}
  Tails = {none, again}
  NoTail = none
  SimilarMessages <- MCSimilar
  MaxQueue = 1
  Cooldown = 1
  DupWindow = 2
  HistoryLimit = 2
  Cancellable = FALSE
SPECIFICATION Spec
INVARIANTS NoExactDuplicates
