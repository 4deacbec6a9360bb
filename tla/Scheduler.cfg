CONSTANTS
  c1 = c1
  c2 = c2
  c3 = c3
  short = short
  long = long
  Callers = {c1, c2, c3}
  Channels = {ch1}
  Texts = {long}
  Tails = {none}
  NoTail = none
  SimilarMessages <- MCSimilar
  MaxQueue = 2
  Cooldown = 2
  DupWindow = 1
  HistoryLimit = 1
  Cancellable = TRUE
SPECIFICATION FairSpec
INVARIANTS TypeOK Pacing BurstBound
PROPERTIES KeepsPromise EnqueueReturns
