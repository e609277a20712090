------------------------- MODULE MCRuntimeDelivery -------------------------
(* One key called three times, from two sessions of one run and a later run. *)
EXTENDS RuntimeDelivery, TLC

CONSTANTS k1, r1, r2

MCKeyOf == [c \in Calls |-> k1]
MCSessions == 1..3
MCRunOf == <<r1, r1, r2>>
MCSymmetry == Permutations(Calls)
=============================================================================
