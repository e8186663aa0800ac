CONSTANTS
  Handles = {h1, h2}
  Types = {"SUPL", "WWAN_ANY"}
  EmergencyPdn = FALSE
  FrameworkNifs = {"AGNSS", "INTERNET"}
  DsResults = {}
  MaxRetries = 1
  MaxQueue = 2
  MaxBacklog = 2
  MaxTimers = 1
  Clients = {c1, c2}
  Options <- TwoIntervals
  Off = Off
  EngineMayFail = TRUE
  MaxId = 2
  MaxMessages = 2
  MaxRestarts = 1
  Timers = {t1, t2}
  Delays = {1, 2}
  MaxStarts = 2
  MaxTime = 2
  None = None
SPECIFICATION ServicesSpec
INVARIANTS MachinesConsistent ModemAgrees NoForgottenHandle
INVARIANTS EngineAtSmallest NoOrphanSession
INVARIANTS NoTimerForgotten SoonestIsArmed FreedOnce
PROPERTIES ImplementsFairService EngineStopsAtLast EveryTimerEnds
CHECK_DEADLOCK FALSE
