-------------------------- MODULE MCFileLockLive --------------------------
(***************************************************************************)
(* Two processes: one runs an asynchronous and a synchronous caller, which *)
(* share its event loop; the other a third caller.  All update one file.   *)
(***************************************************************************)
EXTENDS LockedUpdate

CONSTANTS p1, p2, async1, sync1, async2

MCProcs == {p1, p2}
MCClients == {async1, sync1, async2}
MCProcOf == [x \in MCClients |-> IF x = async2 THEN p2 ELSE p1]
MCMaxCalls == [x \in MCClients |-> 1]
=============================================================================
