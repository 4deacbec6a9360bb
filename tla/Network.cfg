CONSTANTS
  Channels = {chan}
  ReconnectDelay = 1
  Initial = 1
  Multiplier = 150
  Jitter = 0
  MaxInterval = 1
  MaxElapsed = 1
  MaxLosses = 1
  Feeds = {news}
  ChannelOf <- MCChannelOf
  Fetches = {g1, g2}
  MaxItem = 2
  MaxFaults = 1
  Sessions = {s1}
  Modes <- MCModes
SPECIFICATION NetworkSpec
CHECK_DEADLOCK FALSE
INVARIANTS NetworkTypeOK
INVARIANTS NothingSkipped OnceUndisturbed LostOnlyOutOfReach
INVARIANTS PlainGhostsSurvive
PROPERTIES Reconnects AllAnnounced SessionEnds
