SPECIFICATION FairSpec
CONSTANTS
  r1 = r1  r2 = r2  r3 = r3
  a = a  b = b  k = k  l = l  p = p  q = q
  NoValue = NoValue
  Ids = {a, b}
  Keys = {k, l}
  Payloads = {p, q}
  Runs = {r1, r2, r3}
  Req <- MCReq
  ForeignIds = {a}
  MaxFaults = 1
  MaxCrashes = 1
PROPERTIES CallsEnd
CHECK_DEADLOCK FALSE
