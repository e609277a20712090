--------------------------- MODULE RecoveryService ---------------------------
(***************************************************************************)
(* What automatic recovery promises the agents and their user: a failure   *)
(* becomes at most one job; a run takes jobs up while they are open, and   *)
(* of a circuit one is in flight at a time; the messages of a job go out   *)
(* one attempt after another, at most one each time it is taken up; and a  *)
(* job comes to one answer, which stays.                                   *)
(***************************************************************************)
EXTENDS Naturals

CONSTANTS Jobs, CircuitOf, MaxAttempts

VARIABLES
    state,  \* [Jobs -> "none", "waiting", "in_flight" or an answer]
    sent,   \* [Jobs -> the attempts a message went out for]
    held    \* the jobs a run has taken up and not yet sent for or let go

Open == {"waiting", "in_flight"}

Init ==
    /\ state = [j \in Jobs |-> "none"]
    /\ sent = [j \in Jobs |-> {}]
    /\ held = {}

\* A failure is to be recovered from.
Accept(j) ==
    /\ state[j] = "none"
    /\ state' = [state EXCEPT ![j] = "waiting"]
    /\ UNCHANGED <<sent, held>>

\* What may become of a job that no run is taking up: only one in flight fails,
\* is put off or is done, and only one with a message is done.
After(j) ==
    CASE state[j] = "waiting" -> {"superseded", "cancelled"}
      [] state[j] = "in_flight" ->
            {"waiting", "superseded", "cancelled", "failed_terminal"}
            \cup (IF sent[j] = {} THEN {} ELSE {"completed", "outcome_unknown"})
      [] OTHER -> {}

Moves(j) == state'[j] \in {state[j]} \cup After(j)

\* Jobs move on, a run lets jobs go.
Judge ==
    /\ state' = [j \in Jobs |-> state'[j]]
    /\ \A j \in Jobs : Moves(j)
    /\ held' \subseteq held
    /\ UNCHANGED sent

\* A run takes up open jobs.
TakeUp ==
    /\ held = {}
    /\ held' \subseteq {j \in Jobs : state[j] \in Open}
    /\ state' = [j \in Jobs |-> state'[j]]
    /\ \A j \in Jobs : IF j \in held' THEN state'[j] = "in_flight" ELSE Moves(j)
    /\ \A j, k \in Jobs :
          /\ state'[j] = "in_flight"
          /\ state'[k] = "in_flight"
          /\ CircuitOf[j] = CircuitOf[k]
          => j = k
    /\ UNCHANGED sent

\* The next attempt's message goes out, whatever the job has come to meanwhile.
Send(j) ==
    /\ j \in held
    /\ \E n \in 1 .. MaxAttempts :
          /\ sent[j] = 1 .. n - 1
          /\ sent' = [sent EXCEPT ![j] = 1 .. n]
    /\ held' = held \ {j}
    /\ UNCHANGED state

Next ==
    \/ \E j \in Jobs : Accept(j) \/ Send(j)
    \/ Judge
    \/ TakeUp

Spec == Init /\ [][Next]_<<state, sent, held>>
==============================================================================
