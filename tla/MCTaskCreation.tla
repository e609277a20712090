--------------------------- MODULE MCTaskCreation ---------------------------
(***************************************************************************)
(* A call, its retry with the same command id, and a retry of the same key *)
(* under another command id.                                               *)
(***************************************************************************)
EXTENDS TaskCreation, TLC

CONSTANTS r1, r2, r3, a, b, k, p

MCReq == r1 :> [id |-> a, key |-> k, payload |-> p] @@
         r2 :> [id |-> a, key |-> k, payload |-> p] @@
         r3 :> [id |-> b, key |-> k, payload |-> p]

\* The first two are interchangeable.
MCSymmetry == Permutations({r1, r2})
=============================================================================
