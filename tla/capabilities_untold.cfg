CONSTANTS
  MaxFrameworks = 2
  MaxSession = 3
  MaxMsgs = 2
SPECIFICATION Spec
CHECK_DEADLOCK FALSE
INVARIANTS EveryFrameworkTold
