CONSTANTS
  Roles = {"gnss", "batching"}
  BatchIds = {1}
  NiIds = {1, 101}
  None = None
  MaxSession = 3
  MaxRequests = 3
  FenceIds = {1, 2}
  Breaches = {"enter", "exit"}
  MaxFences = 2
  MaxFenceCommands = 2
  LocationApis = {"c1", "c2"}
  ApiCallbacks <- MCApiCallbacks
  MaxId = 2
  MaxApiMsgs = 3
  MaxUpdates = 1
  Settings <- MCSettings
  File <- MCFile
  MaxControlSessions = 3
  MaxControlMsgs = 2
  Gnss = "gnss"
  Others = {"flp", "geo", "bat"}
  EventClients = {"c1"}
  EventCallbacks <- MCEventCallbacks
  MAX_ADAPTERS = 3
  Excluded = {}
  NmeaByModem = FALSE
  LateFeatures = TRUE
  MaxEventMsgs = 2
  MaxFrameworks = 2
  MaxHalSessions = 3
  MaxHalMsgs = 2
SPECIFICATION ClientsSpec
INVARIANTS AnswersMatch SessionsAgree GeofencesNamed   EngineConfigured ConfigurationInForce AdaptersServed FrameworkServed
CHECK_DEADLOCK FALSE
