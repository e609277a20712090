SPECIFICATION Spec
CONSTANTS
  r1 = r1  r2 = r2  r3 = r3
  a = a  b = b  k = k  p = p
  NoValue = NoValue
  Ids = {a, b}
  Keys = {k}
  Payloads = {p}
  Runs = {r1, r2, r3}
  Req <- MCReq
  ForeignIds = {a}
  MaxFaults = 2
  MaxCrashes = 1
INVARIANTS TypeOK OneTaskPerKey AnswersAreTrue CompletedIsTrue OneExecutorPerAttempt TerminalWroteNothing
PROPERTIES SettledStays ImplementsOnceOnly
SYMMETRY MCSymmetry
CHECK_DEADLOCK FALSE
