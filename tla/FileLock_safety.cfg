SPECIFICATION Spec
CONSTANTS
  p1 = p1  p2 = p2  p3 = p3
  a1 = a1  b2 = b2  c3 = c3
  NoClient = NoClient
  Procs <- MCProcs
  Clients <- MCClients
  ProcOf <- MCProcOf
  SyncClients = {}
  TakeoverProcs = {}
  ReusedPids = {p1}
  MaxCalls <- MCMaxCalls
  MaxCrashes = 1
  FaultKinds = {"acquire", "cleanup", "release"}
  MaxDirs = 1
INVARIANTS TypeOK MutualExclusion HolderOwnsLock GateExclusion RuntimeExclusion NothingStranded
PROPERTIES ImplementsService FreshDirectoryKept
SYMMETRY MCSymmetry
CHECK_DEADLOCK FALSE
