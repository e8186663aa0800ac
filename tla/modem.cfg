CONSTANTS
  Handles = {h1, h2}
  Types = {"SUPL_ES"}
  EmergencyPdn = TRUE
  FrameworkNifs = {"AGNSS", "INTERNET"}
  DsResults = {"SUCCESS", "BUSY", "UNSUPPORTED", "OTHER"}
  MaxRetries = 1
  MaxQueue = 1
  MaxBacklog = 1
  MaxTimers = 1
  Requests = {r1, r2, e1}
  Emergency = {e1}
  UserAnswers = {"ACCEPT", "DENY"}
  None = None
  ThreadMayFail = FALSE
  ClientMayLeave = TRUE
SPECIFICATION ModemSpec
SYMMETRY ModemSymmetry
CHECK_DEADLOCK FALSE
INVARIANTS NoLeakedDataCall OneWaiter PayloadOwnedOnce EsNeverDropped AnswersStayInSession
