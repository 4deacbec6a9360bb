CONSTANTS
  b1 = b1
  b2 = b2
  ch1 = ch1
  ch2 = ch2
  hello = hello
  bye = bye
  Calls <- OneBot
  Bots = {b1, b2}
  QueueCap = 1
  SummaryAt = 1
  Keep = 1
  DbErrors = {"insert", "count", "fetch", "summary", "threshold", "delete"}
  Cancellable = FALSE
  Purging = TRUE
SPECIFICATION Spec
CHECK_DEADLOCK FALSE
INVARIANTS TypeOK NoAdjacentDuplicates
PROPERTIES PruneKeepsNewest
