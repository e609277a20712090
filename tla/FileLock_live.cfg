SPECIFICATION FairLSpec
CONSTANTS
  p1 = p1  p2 = p2
  async1 = async1  sync1 = sync1  async2 = async2
  NoClient = NoClient
  Procs <- MCProcs
  Clients <- MCClients
  ProcOf <- MCProcOf
  SyncClients = {sync1}
  TakeoverProcs = {}
  ReusedPids = {}
  MaxCalls <- MCMaxCalls
  MaxCrashes = 1
  FaultKinds = {"acquire"}
  MaxDirs = 0
PROPERTIES UpdatesAreAtomic DeadOwnersReclaimed CallsEnd
CHECK_DEADLOCK FALSE
