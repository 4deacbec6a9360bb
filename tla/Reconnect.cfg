CONSTANTS
  Channels = {chan}
  ReconnectDelay = 4
  Initial = 1
  Multiplier = 150
  Jitter = 50
  MaxInterval = 3
  MaxElapsed = 6
  MaxLosses = 4
SPECIFICATION ConnSpec
CHECK_DEADLOCK FALSE
PROPERTY WaitsToReconnect
