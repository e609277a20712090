------------------------- MODULE MCTaskCreationLive -------------------------
(***************************************************************************)
(* A call, a retry of its key under another command id, and a call that    *)
(* asks for something else under that command id.                          *)
(***************************************************************************)
EXTENDS TaskCreation, TLC

CONSTANTS r1, r2, r3, a, b, k, l, p, q

MCReq == r1 :> [id |-> a, key |-> k, payload |-> p] @@
         r2 :> [id |-> b, key |-> k, payload |-> p] @@
         r3 :> [id |-> b, key |-> l, payload |-> q]
=============================================================================
