CONSTANTS
  MaxQueue = 3
  MaxBurst = 3
  None = None
  Trackers = {"c1"}
  Positions <- MCPositions
  Satellites <- MCSatellites
  INTERMEDIATE_POS = FALSE
  ByAp = TRUE
  UlpListens = TRUE
  MaxReports = 3
  MaxTaskMsgs = 3
  Items = {"connection", "xtrathrottle"}
  Values = {1, 2}
  MaxUpdates = 2
  MaxDatagrams = 2
  MaxStatusMsgs = 2
  MaxRestarts = 2
  FieldValues = {0, 1}
  Talkers = {"PQWM1", "PQWP2", "PQWP5"}
  DataItems = {"NETWORKINFO", "BT_SCAN"}
  Networks = {0, 1, 9}
  maxItem = 2
  MaxEvents = 5
SPECIFICATION AdapterSpec
INVARIANTS MarkedOnlyIfUsed
CHECK_DEADLOCK FALSE
