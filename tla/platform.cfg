CONSTANTS
  Clients = {c1, c2}
  Items = {network, tac}
  RequestItems = {tac}
  Values = {v1, v2}
  None = None
  Timers = {1, 2, 3, 4, 5}
  Rank <- MCRank
  Data = {d1, d2}
  MaxElements = 4
SPECIFICATION PlatformSpec
SYMMETRY ClientSymmetry
INVARIANTS FrameworkFollows UpToDate
PROPERTIES ImplementsQueue ImplementsFifo
CHECK_DEADLOCK FALSE
