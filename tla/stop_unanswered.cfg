CONSTANTS
  Clients = {c1}
  CallbackSets = {{"gnssNiCb"}}
  None = None
  MaxId = 2
  MaxMsgs = 3
  MaxUpdates = 0
SPECIFICATION Spec
CHECK_DEADLOCK FALSE
INVARIANTS EveryStopAnswered
