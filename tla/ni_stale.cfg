CONSTANTS
  Requests = {r1, r2}
  Emergency = {}
  UserAnswers = {"ACCEPT", "DENY"}
  None = None
  ThreadMayFail = FALSE
  ClientMayLeave = FALSE
SPECIFICATION NiSpec
CHECK_DEADLOCK FALSE
INVARIANTS AnswerIsForRequest
