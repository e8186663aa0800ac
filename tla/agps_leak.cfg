CONSTANTS
  Handles = {h1, h2}
  Types = {"SUPL"}
  EmergencyPdn = FALSE
  FrameworkNifs = {"AGNSS", "INTERNET"}
  DsResults = {}
  MaxRetries = 1
  MaxQueue = 2
  MaxBacklog = 2
  MaxTimers = 1
SPECIFICATION Spec
SYMMETRY HandleSymmetry
INVARIANTS NoLeakedConnection
