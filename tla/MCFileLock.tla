---------------------------- MODULE MCFileLock ----------------------------
(***************************************************************************)
(* Three processes with one caller each, so that two recoverers can race   *)
(* over what a third one left behind.                                      *)
(***************************************************************************)
EXTENDS FileLock

CONSTANTS p1, p2, p3, a1, b2, c3

MCProcs == {p1, p2, p3}
MCClients == {a1, b2, c3}
MCProcOf == [x \in MCClients |-> CASE x = a1 -> p1 [] x = b2 -> p2 [] x = c3 -> p3]
\* The process that dies and is born again calls a second time.
MCMaxCalls == [x \in MCClients |-> IF x = a1 THEN 2 ELSE 1]

\* b2 in p2 and c3 in p3 are interchangeable.
MCSymmetry ==
  {[x \in {b2, c3, p2, p3} |-> CASE x = b2 -> c3 [] x = c3 -> b2
                                  [] x = p2 -> p3 [] x = p3 -> p2]}
=============================================================================
