SPECIFICATION Spec
CONSTANTS
  p1 = p1  p2 = p2  p3 = p3
  a1 = a1  b2 = b2  c3 = c3
  NoClient = NoClient
  Procs <- MCProcs
  Clients <- MCClients
  ProcOf <- MCProcOf
  SyncClients = {}
  TakeoverProcs = {p1}
  ReusedPids = {}
  MaxCalls <- MCMaxCalls
  MaxCrashes = 0
  FaultKinds = {}
  MaxDirs = 2
PROPERTIES FreshDirectoryKept
CHECK_DEADLOCK FALSE
