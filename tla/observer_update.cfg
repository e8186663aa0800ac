SPECIFICATION Spec
CONSTANTS
  Clients = {c1, c2}
  Items = {network, mccmnc, tac}
  RequestItems = {tac}
  Values = {v1, v2}
  None = None
INVARIANT EveryoneUpToDate
