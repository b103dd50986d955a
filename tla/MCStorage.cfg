SPECIFICATION Spec
CONSTANTS
  p = p
  q = q
  d = d
  e = e
  f = f
  None = None
  Pool = {p, q}
  Drive = {d, e, f}
  FirstPayloads <- MCFirst
  LaterPayloads <- MCLater
  PayloadOf <- MCPayload
  MaxPolls = 1
CHECK_DEADLOCK FALSE
INVARIANTS
  MembersOnly
  EntitiesShowTheirOwn
  TotalsAgree
