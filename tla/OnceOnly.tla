------------------------------ MODULE OnceOnly ------------------------------
(***************************************************************************)
(* What a keyed create promises: for every idempotency key at most one     *)
(* task is ever made, and every call that is answered names that task.     *)
(***************************************************************************)
CONSTANTS Keys, Ids, Calls, KeyOf, None

VARIABLES
  made,     \* [Keys -> Ids or None]: the task of each key
  answered  \* [Calls -> Ids or None]: the task each call was answered with

Init ==
  /\ made = [k \in Keys |-> None]
  /\ answered = [c \in Calls |-> None]

Make(k) ==
  /\ made[k] = None
  /\ \E i \in Ids : made' = [made EXCEPT ![k] = i]
  /\ UNCHANGED answered

Answer(c) ==
  /\ answered[c] = None
  /\ made[KeyOf[c]] # None
  /\ answered' = [answered EXCEPT ![c] = made[KeyOf[c]]]
  /\ UNCHANGED made

Next ==
  \/ \E k \in Keys : Make(k)
  \/ \E c \in Calls : Answer(c)

Spec == Init /\ [][Next]_<<made, answered>>
=============================================================================
