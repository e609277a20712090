-------------------------- MODULE ReclaimableLock --------------------------
(***************************************************************************)
(* What the file lock promises its callers: one holder at a time, granted  *)
(* only while the lock is free, and a holder that keeps the lock for as    *)
(* long as it is in its critical section.  The service may take the lock   *)
(* from a holder that is not in it (a release, or a holder that died).     *)
(***************************************************************************)
CONSTANTS Owners, None
VARIABLES holder, critical

Init == holder \in Owners \cup {None} /\ critical = {}

Grant ==
  /\ holder = None
  /\ holder' \in Owners
  /\ UNCHANGED critical

Enter ==
  /\ holder # None /\ critical = {}
  /\ critical' = {holder}
  /\ UNCHANGED holder

\* The critical section ends, or dies with its process.
Leave ==
  /\ critical # {}
  /\ critical' = {}
  /\ UNCHANGED holder

Free ==
  /\ critical = {}
  /\ holder' = None
  /\ UNCHANGED critical

Next == Grant \/ Enter \/ Leave \/ Free

Spec == Init /\ [][Next]_<<holder, critical>>
=============================================================================
