CONSTANTS
  b1 = b1
  b2 = b2
  ch1 = ch1
  ch2 = ch2
  hello = hello
  bye = bye
  Calls <- TwoBots
  Bots = {b1, b2}
  QueueCap = 1
  SummaryAt = 2
  Keep = 1
  DbErrors = {"select", "insert", "summary"}
  Cancellable = TRUE
  Purging = FALSE
SPECIFICATION FairSpec
CHECK_DEADLOCK FALSE
PROPERTIES SavesFinish PrunedInTheEnd AcceptedJobsRun PruneKeepsNewest
