------------------------- MODULE TaskCreationProofs -------------------------
(***************************************************************************)
(* Proofs about TaskCreation, for any runs, requests, ids and bounds.      *)
(***************************************************************************)
EXTENDS TaskCreation, TLAPS

RunStep(r) == Start(r) \/ CodeStep(r) \/ Throw(r)

\* The points of a run that works on a ledger row.
LedgerPoints == {"reconcile", "markNotApplied", "markCompleted", "markFailed"}
\* After its turn in a session without the ledger came.
TurnPoints == {"create", "confirm", "recover"}

\* A session without the ledger uses no ledger point, and only the first run of its
\* queue is past its first look at the board.
SessionInv ==
  backend = "json" =>
    \A r \in Runs :
      /\ pc[r] \notin LedgerPoints \cup {"begin"}
      /\ pc[r] \in TurnPoints => queue # <<>> /\ Head(queue) = r

\* Rows of different commands have different keys.
RowsInv ==
  \A i, j \in Ids : ledger[i] # NoRow /\ ledger[i].key = ledger[j].key => i = j

\* The row a run works on is its request's.
TargetInv ==
  backend = "sqlite" =>
    \A r \in Runs :
      pc[r] \in LedgerPoints \cup ExecutionPoints => Matches(ledger[target[r]], Req[r])

\* A run about to create found no task of its key, and whoever created one since did
\* so under the run's own id.
CreateInv ==
  \A r \in Runs :
    pc[r] = "create" => \A j \in WithKey(Req[r].key) : j = target[r]

\* A result on its way to the ledger is as true as one returned.
ResultInv ==
  \A r \in Runs :
    pc[r] \in {"markCompleted", "done"} => Fulfils(res[r].task, Req[r])

\* A settled row is stored in one form only, whichever operation settled it.
WellFormed(row) ==
  /\ row.status # "started" => ~row.stale
  /\ row.status = "completed" => row.reason = "none"
  /\ row.status # "completed" => row.result = NoResult

FormInv == \A i \in Ids : WellFormed(ledger[i])

IInv == /\ TypeOK /\ SessionInv /\ RowsInv /\ FormInv /\ TargetInv /\ CreateInv /\ OneTaskPerKey
        /\ ResultInv /\ CompletedIsTrue

-----------------------------------------------------------------------------
(* What the ledger's operations do to a row *)

\* begin: a row keeps its key and payload, becomes no completed one, and is the
\* request's whenever the run gets to work on it.
LEMMA BeginRow ==
  ASSUME NEW row \in Rows \cup {NoRow}, NEW q \in Requests
  PROVE  LET new == AfterBegin(row, q) IN
         /\ new \in Rows
         /\ row # NoRow => new.key = row.key /\ new.payload = row.payload
         /\ row = NoRow => new.key = q.key /\ new.payload = q.payload
         /\ Starts(row, q) \/ Unknown(row, q) => Matches(new, q)
         /\ new.status = "completed" => new = row
         /\ row.status \in {"completed", "failed_terminal"} => new = row
         /\ WellFormed(row) => WellFormed(new)
<1> DEFINE new == AfterBegin(row, q)
<1>1. NoRow \notin Rows /\ NoResult \in Results \cup {NoResult}
  BY DEF NoRow, Rows, Statuses
<1>2. CASE Starts(row, q)
  <2>1. new = [key |-> q.key, payload |-> q.payload, status |-> "started",
               attempt |-> row.attempt + 1, stale |-> FALSE, reason |-> "none",
               result |-> NoResult]
    BY <1>2 DEF AfterBegin, NextAttempt
  <2>2. row.attempt + 1 \in Nat \ {0}
    BY DEF Rows, NoRow
  <2>3. new \in Rows
    BY <2>1, <2>2 DEF Rows, Requests, Statuses, Reasons
  <2> QED  BY <1>2, <2>1, <2>3 DEF Starts, Matches, NoRow, WellFormed
<1>3. CASE ~Starts(row, q) /\ Fences(row, q)
  <2>1. new = [row EXCEPT !.status = "unknown_after_timeout", !.stale = FALSE,
                          !.reason = "stale"]
    BY <1>3 DEF AfterBegin
  <2>2. row \in Rows
    BY <1>3 DEF Starts
  <2>3. new \in Rows
    BY <2>1, <2>2 DEF Rows, Statuses, Reasons
  <2> QED  BY <1>3, <2>1, <2>2, <2>3 DEF Fences, Starts, Matches, Rows, WellFormed
<1>4. CASE ~Starts(row, q) /\ ~Fences(row, q)
  BY <1>4 DEF AfterBegin, Starts, Unknown, Matches
<1> QED  BY <1>2, <1>3, <1>4

LEMMA CompletedRow ==
  ASSUME NEW row \in Rows \cup {NoRow}, NEW attempt, NEW result \in Results \cup {NoResult},
         AcceptsCompletion(row, attempt, result)
  PROVE  LET new == AfterCompletion(row, result) IN
         /\ row # NoRow
         /\ new \in Rows
         /\ new.key = row.key /\ new.payload = row.payload
         /\ new.result = result
         /\ row.status # "failed_terminal"
         /\ WellFormed(row) => WellFormed(new) /\ (row.status = "completed" => new = row)
<1>1. row # NoRow
  BY DEF AcceptsCompletion, CanFinalize, NoRow
<1>2. row \in Rows
  BY <1>1
<1> QED
  BY <1>1, <1>2 DEF AfterCompletion, AcceptsCompletion, CanFinalize, Rows, Statuses,
                    Reasons, WellFormed

LEMMA FailedRow ==
  ASSUME NEW row \in Rows \cup {NoRow}, NEW attempt, NEW f \in Failures,
         AcceptsFailure(row, attempt, f)
  PROVE  LET new == AfterFailure(row, f) IN
         /\ row # NoRow
         /\ new \in Rows
         /\ new.key = row.key /\ new.payload = row.payload
         /\ new.status # "completed"
         /\ row.status # "completed"
         /\ row.attempt = attempt
         /\ WellFormed(row)
              => WellFormed(new) /\ (row.status = "failed_terminal" => new = row)
<1>1. /\ StatusForFailure(f.kind) \in {"failed_retryable", "failed_terminal",
                                      "unknown_after_timeout"}
      /\ f.reason \in Reasons
  BY DEF Failures, StatusForFailure
<1>2. row # NoRow
  BY <1>1 DEF AcceptsFailure, CanFinalize, NoRow
<1>3. row \in Rows
  BY <1>2
<1> QED
  BY <1>1, <1>2, <1>3 DEF AfterFailure, AcceptsFailure, CanFinalize, Rows, Statuses,
                         Reasons, WellFormed

-----------------------------------------------------------------------------
(* What a step of run r does to each part of the state *)

\* Only r's own fields change, and keep their types.
Frame(r) ==
  /\ backend' = backend /\ crashes' = crashes /\ faults' \in Nat
  /\ pc' \in [Runs -> Points] /\ target' \in [Runs -> Ids] /\ att' \in [Runs -> Nat]
  /\ retried' \in [Runs -> BOOLEAN] /\ res' \in [Runs -> Results \cup {NoResult}]
  /\ fail' \in [Runs -> Failures]
  /\ \A s \in Runs \ {r} :
       /\ pc'[s] = pc[s] /\ target'[s] = target[s] /\ att'[s] = att[s]
       /\ res'[s] = res[s] /\ fail'[s] = fail[s]

\* The row a step writes, and the operation it is written by.
RowEffect(r, i, new) ==
  \/ pc[r] = "begin" /\ i \in RowsFor(Req[r]) /\ new = AfterBegin(ledger[i], Req[r])
  \/ /\ pc[r] = "markCompleted" /\ i = target[r]
     /\ AcceptsCompletion(ledger[i], att[r], res[r])
     /\ new = AfterCompletion(ledger[i], res[r])
  \/ /\ pc[r] \in {"markFailed", "markNotApplied"} /\ i = target[r]
     /\ AcceptsFailure(ledger[i], att[r], fail[r])
     /\ new = AfterFailure(ledger[i], fail[r])

LedgerEffect(r) ==
  \/ ledger' = ledger
  \/ \E i \in Ids : \E new \in Rows :
       RowEffect(r, i, new) /\ ledger' = [ledger EXCEPT ![i] = new]

BoardEffect(r) ==
  \/ board' = board
  \/ \E j \in Ids : Ours(j) /\ RepairLinks(j)
  \/ pc[r] = "create" /\ \E l \in BOOLEAN : WriteTask(r, l)

\* In a session without the ledger a run keeps the queue until it ends.
QueueEffect(r) ==
  IF backend = "sqlite" THEN queue' = queue
  ELSE /\ pc'[r] \notin LedgerPoints \cup {"begin"}
       /\ \/ queue' = queue
          \/ queue' = Append(queue, r)
          \/ queue # <<>> /\ Head(queue) = r /\ queue' = Tail(queue)
       /\ pc'[r] \in TurnPoints => queue' = queue /\ queue # <<>> /\ Head(queue) = r

\* A run works on its request's row from begin to the end of the attempt.
TargetEffect(r) ==
  backend = "sqlite" /\ pc'[r] \in LedgerPoints \cup ExecutionPoints
    => \/ Matches(ledger'[target'[r]], Req[r])
       \/ pc[r] \in LedgerPoints \cup ExecutionPoints /\ target'[r] = target[r]

\* It comes to create from a look at the board that found nothing.
CreateEffect(r) ==
  pc'[r] = "create"
    => WithKey(Req[r].key) = {} /\ board' = board /\ target'[r] = target[r]

\* It has its result from the board or from the ledger.
ResultEffect(r) ==
  pc'[r] \in {"markCompleted", "done"}
    => \/ \E j \in Ids : /\ Reconcilable(j, Req[r]) /\ RepairLinks(j)
                         /\ res'[r].task = j
       \/ \E i \in Ids : /\ Replays(ledger[i], Req[r]) /\ res'[r] = ledger[i].result
                         /\ board' = board
       \/ pc[r] = "markCompleted" /\ res'[r] = res[r] /\ board' = board

Effect(r) == /\ Frame(r) /\ LedgerEffect(r) /\ BoardEffect(r) /\ QueueEffect(r)
             /\ TargetEffect(r) /\ CreateEffect(r) /\ ResultEffect(r)

LEMMA RowsForIds ==
  ASSUME NEW q \in Requests
  PROVE  RowsFor(q) \subseteq Ids
BY DEF RowsFor, Requests

LEMMA RunEffect ==
  ASSUME TypeOK, SessionInv, NEW r \in Runs, RunStep(r)
  PROVE  Effect(r)
<1> USE RunsAssumption
<1>1. /\ Req[r] \in Requests /\ RowsFor(Req[r]) \subseteq Ids
      /\ ledger \in [Ids -> Rows \cup {NoRow}]
  BY RowsForIds DEF TypeOK, LedgerTypeOK
<1>2. /\ pc \in [Runs -> Points] /\ target \in [Runs -> Ids] /\ att \in [Runs -> Nat]
      /\ retried \in [Runs -> BOOLEAN] /\ res \in [Runs -> Results \cup {NoResult}]
      /\ fail \in [Runs -> Failures] /\ backend \in {"sqlite", "json"} /\ faults \in Nat
  BY DEF TypeOK
<1>3. backend = "json" => /\ pc[r] \notin LedgerPoints \cup {"begin"}
                          /\ pc[r] \in TurnPoints => queue # <<>> /\ Head(queue) = r
  BY DEF SessionInv
<1>4. \A i \in Ids : /\ AfterBegin(ledger[i], Req[r]) \in Rows
                     /\ Starts(ledger[i], Req[r]) \/ Unknown(ledger[i], Req[r])
                          => Matches(AfterBegin(ledger[i], Req[r]), Req[r])
  BY <1>1, BeginRow
<1>5. AcceptsCompletion(ledger[target[r]], att[r], res[r])
        => AfterCompletion(ledger[target[r]], res[r]) \in Rows
  BY <1>1, <1>2, CompletedRow
<1>6. AcceptsFailure(ledger[target[r]], att[r], fail[r])
        => AfterFailure(ledger[target[r]], fail[r]) \in Rows
  BY <1>1, <1>2, FailedRow
<1>7. ASSUME NEW f \in Failures, GiveUp(r, f)
      PROVE  /\ fail' = [fail EXCEPT ![r] = f] /\ res' = res
             /\ \/ backend = "sqlite" /\ pc' = [pc EXCEPT ![r] = "markFailed"] /\ queue' = queue
                \/ backend = "json" /\ pc' = [pc EXCEPT ![r] = "failed"] /\ queue' = Tail(queue)
  BY <1>2, <1>7 DEF GiveUp, Goto, LeaveQueue
<1>9. ASSUME NEW j \in Ids, NEW c \in BOOLEAN, Succeed(r, j, c)
      PROVE  /\ res' = [res EXCEPT ![r] = [task |-> j, created |-> c]] /\ fail' = fail
             /\ \/ backend = "sqlite" /\ pc' = [pc EXCEPT ![r] = "markCompleted"]
                   /\ queue' = queue
                \/ backend = "json" /\ pc' = [pc EXCEPT ![r] = "done"] /\ queue' = Tail(queue)
  BY <1>2, <1>9 DEF Succeed, Goto, LeaveQueue
<1>8. /\ \A k \in {"retryable", "terminal", "unknown"} : \A e \in Reasons :
            Failure(k, e) \in Failures
      /\ {"error", "conflict", "absent"} \subseteq Reasons
      /\ \A j \in Ids : \A c \in BOOLEAN : [task |-> j, created |-> c] \in Results
      /\ \A i \in Ids : ledger[i].status = "completed" => ledger[i].result \in Results \cup {NoResult}
  BY <1>1 DEF Failure, Failures, Reasons, Results, Rows, NoRow
<1>a. CASE Start(r)
  BY <1>a, <1>1, <1>2, <1>3
  DEF Start, Goto, Record, Outcome, Session, Effect, Frame, LedgerEffect, BoardEffect,
      QueueEffect, TargetEffect, CreateEffect, ResultEffect, LedgerPoints, TurnPoints,
      ExecutionPoints, Points
<1>b. CASE BeginStarts(r)
  <2>1. PICK i \in RowsFor(Req[r]) :
              /\ Starts(ledger[i], Req[r])
              /\ ledger' = [ledger EXCEPT ![i] = AfterBegin(ledger[i], Req[r])]
              /\ faults' = faults
              /\ target' = [target EXCEPT ![r] = i]
              /\ att' = [att EXCEPT ![r] = ledger'[i].attempt]
    BY <1>b DEF BeginStarts, Answered, TakeRecord
  <2>a. i \in Ids
    BY <1>1
  <2>b. ledger'[i] = AfterBegin(ledger[i], Req[r])
    BY <2>1, <2>a, <1>1
  <2>c. ledger'[i] \in Rows /\ Matches(ledger'[i], Req[r])
    BY <2>1, <2>a, <2>b, <1>4
  <2>2. /\ i \in Ids /\ ledger'[i] = AfterBegin(ledger[i], Req[r])
        /\ ledger'[i] \in Rows /\ Matches(ledger'[i], Req[r]) /\ ledger'[i].attempt \in Nat
    BY <2>a, <2>b, <2>c DEF Rows
  <2>f. Frame(r)
    BY <1>b, <2>1, <1>1, <1>2, <2>2
    DEF BeginStarts, Goto, Record, Outcome, Session, Frame, Points, ExecutionPoints
  <2>g. LedgerEffect(r)
    BY <1>b, <1>1, <2>1, <2>2 DEF BeginStarts, LedgerEffect, RowEffect
  <2>h. TargetEffect(r)
    BY <1>b, <1>2, <2>1, <2>2 DEF TargetEffect
  <2> QED
    BY <1>b, <1>2, <1>3, <2>f, <2>g, <2>h
    DEF BeginStarts, Goto, Effect, BoardEffect, QueueEffect, CreateEffect, ResultEffect, LedgerPoints,
        TurnPoints, ExecutionPoints
<1>c. CASE BeginUnknown(r)
  <2>1. PICK i \in RowsFor(Req[r]) :
              /\ Unknown(ledger[i], Req[r])
              /\ ledger' = [ledger EXCEPT ![i] = AfterBegin(ledger[i], Req[r])]
              /\ faults' = faults
              /\ target' = [target EXCEPT ![r] = i]
              /\ att' = [att EXCEPT ![r] = ledger'[i].attempt]
    BY <1>c DEF BeginUnknown, Answered, TakeRecord
  <2>a. i \in Ids
    BY <1>1
  <2>b. ledger'[i] = AfterBegin(ledger[i], Req[r])
    BY <2>1, <2>a, <1>1
  <2>c. ledger'[i] \in Rows /\ Matches(ledger'[i], Req[r])
    BY <2>1, <2>a, <2>b, <1>4
  <2>2. /\ i \in Ids /\ ledger'[i] = AfterBegin(ledger[i], Req[r])
        /\ ledger'[i] \in Rows /\ Matches(ledger'[i], Req[r]) /\ ledger'[i].attempt \in Nat
    BY <2>a, <2>b, <2>c DEF Rows
  <2>f. Frame(r)
    BY <1>c, <2>1, <1>1, <1>2, <2>2
    DEF BeginUnknown, Goto, Record, Outcome, Session, Frame, Points, ExecutionPoints
  <2>g. LedgerEffect(r)
    BY <1>c, <1>1, <2>1, <2>2 DEF BeginUnknown, LedgerEffect, RowEffect
  <2>h. TargetEffect(r)
    BY <1>c, <1>2, <2>1, <2>2 DEF TargetEffect
  <2> QED
    BY <1>c, <1>2, <1>3, <2>f, <2>g, <2>h
    DEF BeginUnknown, Goto, Effect, BoardEffect, QueueEffect, CreateEffect, ResultEffect, LedgerPoints,
        TurnPoints, ExecutionPoints
<1>d. CASE BeginReplays(r)
  BY <1>d, <1>1, <1>2, <1>3, <1>8
  DEF BeginReplays, Goto, Record, Outcome, Session, Replays, Effect, Frame,
      LedgerEffect, BoardEffect, QueueEffect, TargetEffect, CreateEffect,
      ResultEffect, LedgerPoints, TurnPoints, ExecutionPoints, Points
<1>e. CASE BeginRefuses(r)
  BY <1>e, <1>1, <1>2, <1>3
  DEF BeginRefuses, Goto, Record, Outcome, Session, Effect, Frame, LedgerEffect,
      BoardEffect, QueueEffect, TargetEffect, CreateEffect, ResultEffect,
      LedgerPoints, TurnPoints, ExecutionPoints, Points
<1>f. CASE BeginInterrupted(r)
  <2>1. PICK i \in RowsFor(Req[r]) :
              /\ faults' = faults + 1
              /\ \/ ledger' = [ledger EXCEPT ![i] = AfterBegin(ledger[i], Req[r])]
                 \/ ledger' = ledger
    BY <1>f DEF BeginInterrupted, Interrupted, Fault
  <2>f. Frame(r)
    BY <1>f, <2>1, <1>1, <1>2
    DEF BeginInterrupted, Goto, Record, Outcome, Session, Frame, Points, ExecutionPoints
  <2>a. i \in Ids /\ AfterBegin(ledger[i], Req[r]) \in Rows
    BY <1>1, <1>4
  <2>g. LedgerEffect(r)
    BY <1>f, <2>1, <2>a DEF BeginInterrupted, LedgerEffect, RowEffect
  <2> QED
    BY <1>f, <1>2, <1>3, <2>f, <2>g
    DEF BeginInterrupted, Goto, Record, Effect, BoardEffect, QueueEffect, TargetEffect,
        CreateEffect, ResultEffect, LedgerPoints, TurnPoints, ExecutionPoints
<1>g. CASE ReconcileApplied(r)
  <2>1. PICK j \in Ids : /\ Ours(j) /\ Reconcilable(j, Req[r]) /\ RepairLinks(j)
                         /\ res' = [res EXCEPT ![r] = [task |-> j, created |-> FALSE]]
    BY <1>g DEF ReconcileApplied, Finds, Reconcilable
  <2>2. res'[r].task = j
    BY <1>2, <2>1
  <2>f. Frame(r)
    BY <1>g, <1>2, <1>8, <2>1 DEF ReconcileApplied, Goto, Record, Session, Frame, Points
  <2> QED
    BY <1>g, <1>2, <1>3, <2>1, <2>2, <2>f
    DEF ReconcileApplied, Goto, Record, Effect, LedgerEffect, BoardEffect, QueueEffect, TargetEffect,
        CreateEffect, ResultEffect, LedgerPoints, TurnPoints, ExecutionPoints
<1>h. CASE ReconcileNotApplied(r)
  BY <1>h, <1>1, <1>2, <1>3, <1>8
  DEF ReconcileNotApplied, Goto, Record, Outcome, Session, Effect, Frame,
      LedgerEffect, BoardEffect, QueueEffect, TargetEffect, CreateEffect,
      ResultEffect, LedgerPoints, TurnPoints, ExecutionPoints, Points
<1>i. CASE ReconcileThrows(r)
  BY <1>i, <1>1, <1>2, <1>3
  DEF ReconcileThrows, Goto, Record, Outcome, Session, Fault, Effect, Frame,
      LedgerEffect, BoardEffect, QueueEffect, TargetEffect, CreateEffect,
      ResultEffect, LedgerPoints, TurnPoints, ExecutionPoints, Points
<1>j. CASE MarkNotApplied(r)
  BY <1>j, <1>1, <1>2, <1>3, <1>6
  DEF MarkNotApplied, Goto, Record, Outcome, Session, Answered, RowEffect, Effect,
      Frame, LedgerEffect, BoardEffect, QueueEffect, TargetEffect, CreateEffect,
      ResultEffect, LedgerPoints, TurnPoints, ExecutionPoints, Points
<1>k. CASE Execute(r)
  <2>1. CASE \E j \in Ids : Finds(target[r], Req[r], j) /\ RepairLinks(j) /\ Succeed(r, j, FALSE)
    <3>1. PICK j \in Ids : /\ Ours(j) /\ Reconcilable(j, Req[r]) /\ RepairLinks(j)
                           /\ Succeed(r, j, FALSE)
      BY <2>1 DEF Finds, Reconcilable
    <3>2. res'[r].task = j
      <4>1. res' = [res EXCEPT ![r] = [task |-> j, created |-> FALSE]]
        BY <1>9, <3>1
      <4> QED  BY <1>2, <4>1
    <3>f. Frame(r)
      BY <1>k, <1>2, <1>8, <1>9, <3>1 DEF Execute, Record, Session, Frame, Points
    <3> QED
      BY <1>k, <1>2, <1>3, <1>9, <3>1, <3>2, <3>f
      DEF Execute, Turn, Record, Effect, LedgerEffect, BoardEffect, QueueEffect, TargetEffect,
        CreateEffect, ResultEffect, LedgerPoints, TurnPoints, ExecutionPoints
  <2>2. CASE FindsNone(target[r], Req[r]) /\ Goto(r, "create") /\ UNCHANGED <<board, queue, Outcome>>
    <3>1. WithKey(Req[r].key) = {}
      BY <2>2 DEF FindsNone, Candidates
    <3>f. Frame(r)
      BY <1>k, <1>2, <2>2 DEF Execute, Goto, Record, Outcome, Session, Frame, Points,
        ExecutionPoints
    <3> QED
      BY <1>k, <1>2, <1>3, <2>2, <3>1, <3>f
      DEF Execute, Turn, Goto, Record, Effect, LedgerEffect, BoardEffect, QueueEffect, TargetEffect,
        CreateEffect, ResultEffect, LedgerPoints, TurnPoints, ExecutionPoints
  <2>3. CASE /\ FindsConflict(target[r], Req[r]) /\ GiveUp(r, Failure("terminal", "conflict"))
             /\ UNCHANGED board
    <3>1. Failure("terminal", "conflict") \in Failures
      BY <1>8
    <3>f. Frame(r)
      BY <1>k, <1>2, <1>7, <2>3, <3>1 DEF Execute, Record, Session, Frame, Points
    <3> QED
      BY <1>k, <1>2, <1>3, <1>7, <2>3, <3>1, <3>f
      DEF Execute, Turn, Record, Effect, LedgerEffect, BoardEffect, QueueEffect, TargetEffect,
        CreateEffect, ResultEffect, LedgerPoints, TurnPoints, ExecutionPoints
  <2> QED  BY <1>k, <2>1, <2>2, <2>3 DEF Execute
<1>l. CASE ExecuteThrows(r)
  <2>1. GiveUp(r, Failure("retryable", "error")) /\ Failure("retryable", "error") \in Failures
    BY <1>l, <1>8 DEF ExecuteThrows
  <2>2. /\ fail' \in [Runs -> Failures] /\ \A x \in Runs \ {r} : fail'[x] = fail[x]
        /\ pc' \in [Runs -> Points] /\ \A x \in Runs \ {r} : pc'[x] = pc[x]
        /\ res' = res
    BY <1>2, <1>7, <2>1 DEF Points
  <2>f. Frame(r)
    BY <1>l, <1>2, <2>2 DEF ExecuteThrows, Fault, Record, Session, Frame
  <2> QED
    BY <1>l, <1>2, <1>3, <1>7, <2>1, <2>f
    DEF ExecuteThrows, Turn, Record, Effect, LedgerEffect, BoardEffect, QueueEffect, TargetEffect,
        CreateEffect, ResultEffect, LedgerPoints, TurnPoints, ExecutionPoints
<1>m. CASE Create(r)
  BY <1>m, <1>1, <1>2, <1>3
  DEF Create, Goto, Record, Outcome, Session, WriteTask, Effect, Frame,
      LedgerEffect, BoardEffect, QueueEffect, TargetEffect, CreateEffect,
      ResultEffect, LedgerPoints, TurnPoints, ExecutionPoints, Points
<1>n. CASE CreateExists(r)
  BY <1>n, <1>1, <1>2, <1>3, <1>8
  DEF CreateExists, Goto, Record, Outcome, Session, CreateThrows, Effect, Frame,
      LedgerEffect, BoardEffect, QueueEffect, TargetEffect, CreateEffect,
      ResultEffect, LedgerPoints, TurnPoints, ExecutionPoints, Points
<1>o. CASE CreateFails(r)
  <2>1. PICK kind \in {"retryable", "terminal"} : CreateThrows(r, kind)
    BY <1>o DEF CreateFails
  <2>2. Failure(kind, "error") \in Failures
    BY <1>8
  <2>3. /\ fail' = [fail EXCEPT ![r] = Failure(kind, "error")]
        /\ pc' = [pc EXCEPT ![r] = "recover"]
        /\ ledger' = ledger /\ queue' = queue /\ target' = target /\ att' = att
        /\ retried' = retried /\ res' = res /\ backend' = backend /\ crashes' = crashes
        /\ pc[r] = "create" /\ faults' = faults + 1
        /\ board' = board \/ WriteTask(r, FALSE)
    BY <1>o, <2>1 DEF CreateFails, Fault, CreateThrows, Goto, Record, Session
  <2>4. fail' \in [Runs -> Failures] /\ \A x \in Runs \ {r} : fail'[x] = fail[x]
    BY <1>2, <2>2, <2>3
  <2>5. pc' \in [Runs -> Points] /\ \A x \in Runs \ {r} : pc'[x] = pc[x]
    BY <1>2, <2>3 DEF Points, ExecutionPoints
  <2>f. Frame(r)
    BY <1>2, <2>3, <2>4, <2>5 DEF Frame
  <2> QED
    BY <1>2, <1>3, <2>3, <2>f
    DEF Effect, LedgerEffect, BoardEffect, QueueEffect, TargetEffect,
        CreateEffect, ResultEffect, LedgerPoints, TurnPoints, ExecutionPoints
<1>p. CASE Confirm(r)
  BY <1>p, <1>1, <1>2, <1>3, <1>8
  DEF Confirm, Goto, Record, Outcome, Session, Reconcilable, RepairLinks, Succeed,
      LeaveQueue, Effect, Frame, LedgerEffect, BoardEffect, QueueEffect,
      TargetEffect, CreateEffect, ResultEffect, LedgerPoints, TurnPoints,
      ExecutionPoints, Points
<1>q. CASE ConfirmThrows(r)
  BY <1>q, <1>1, <1>2, <1>3, <1>8
  DEF ConfirmThrows, Goto, Record, Outcome, Session, Fault, CreateThrows, Effect,
      Frame, LedgerEffect, BoardEffect, QueueEffect, TargetEffect, CreateEffect,
      ResultEffect, LedgerPoints, TurnPoints, ExecutionPoints, Points
<1>r. CASE Recover(r)
  <2>1. CASE \E j \in Ids : Finds(target[r], Req[r], j) /\ RepairLinks(j) /\ Succeed(r, j, TRUE)
    <3>1. PICK j \in Ids : /\ Ours(j) /\ Reconcilable(j, Req[r]) /\ RepairLinks(j)
                           /\ Succeed(r, j, TRUE)
      BY <2>1 DEF Finds, Reconcilable
    <3>2. res'[r].task = j
      <4>1. res' = [res EXCEPT ![r] = [task |-> j, created |-> TRUE]]
        BY <1>9, <3>1
      <4> QED  BY <1>2, <4>1
    <3>f. Frame(r)
      BY <1>r, <1>2, <1>8, <1>9, <3>1 DEF Recover, Record, Session, Frame, Points
    <3> QED
      BY <1>r, <1>2, <1>3, <1>9, <3>1, <3>2, <3>f
      DEF Recover, Turn, Record, Effect, LedgerEffect, BoardEffect, QueueEffect, TargetEffect,
        CreateEffect, ResultEffect, LedgerPoints, TurnPoints, ExecutionPoints
  <2>2. CASE FindsNone(target[r], Req[r]) /\ GiveUp(r, fail[r]) /\ UNCHANGED board
    <3>f. Frame(r)
      BY <1>r, <1>2, <1>7, <2>2 DEF Recover, Record, Session, Frame, Points
    <3> QED
      BY <1>r, <1>2, <1>3, <1>7, <2>2, <3>f
      DEF Recover, Record, Effect, LedgerEffect, BoardEffect, QueueEffect, TargetEffect,
        CreateEffect, ResultEffect, LedgerPoints, TurnPoints, ExecutionPoints
  <2>3. CASE /\ FindsConflict(target[r], Req[r]) /\ GiveUp(r, Failure("terminal", "conflict"))
             /\ UNCHANGED board
    <3>1. Failure("terminal", "conflict") \in Failures
      BY <1>8
    <3>f. Frame(r)
      BY <1>r, <1>2, <1>7, <2>3, <3>1 DEF Recover, Record, Session, Frame, Points
    <3> QED
      BY <1>r, <1>2, <1>3, <1>7, <2>3, <3>1, <3>f
      DEF Recover, Turn, Record, Effect, LedgerEffect, BoardEffect, QueueEffect, TargetEffect,
        CreateEffect, ResultEffect, LedgerPoints, TurnPoints, ExecutionPoints
  <2> QED  BY <1>r, <2>1, <2>2, <2>3 DEF Recover
<1>s. CASE RecoverThrows(r)
  <2>1. GiveUp(r, Failure("unknown", "error")) /\ Failure("unknown", "error") \in Failures
    BY <1>s, <1>8 DEF RecoverThrows
  <2>2. /\ fail' \in [Runs -> Failures] /\ \A x \in Runs \ {r} : fail'[x] = fail[x]
        /\ pc' \in [Runs -> Points] /\ \A x \in Runs \ {r} : pc'[x] = pc[x]
        /\ res' = res
    BY <1>2, <1>7, <2>1 DEF Points
  <2>f. Frame(r)
    BY <1>s, <1>2, <2>2 DEF RecoverThrows, Fault, Record, Session, Frame
  <2> QED
    BY <1>s, <1>2, <1>3, <1>7, <2>1, <2>f
    DEF RecoverThrows, Turn, Record, Effect, LedgerEffect, BoardEffect, QueueEffect, TargetEffect,
        CreateEffect, ResultEffect, LedgerPoints, TurnPoints, ExecutionPoints
<1>t. CASE MarkCompleted(r)
  BY <1>t, <1>1, <1>2, <1>3, <1>5
  DEF MarkCompleted, Goto, Record, Outcome, Session, Answered, RowEffect, Effect,
      Frame, LedgerEffect, BoardEffect, QueueEffect, TargetEffect, CreateEffect,
      ResultEffect, LedgerPoints, TurnPoints, ExecutionPoints, Points
<1>u. CASE MarkFailed(r)
  BY <1>u, <1>1, <1>2, <1>3, <1>6
  DEF MarkFailed, Goto, Record, Outcome, Session, Answered, RowEffect, Effect,
      Frame, LedgerEffect, BoardEffect, QueueEffect, TargetEffect, CreateEffect,
      ResultEffect, LedgerPoints, TurnPoints, ExecutionPoints, Points
<1>v. CASE MarkRefused(r)
  BY <1>v, <1>1, <1>2, <1>3
  DEF MarkRefused, Goto, Record, Outcome, Session, Effect, Frame, LedgerEffect,
      BoardEffect, QueueEffect, TargetEffect, CreateEffect, ResultEffect,
      LedgerPoints, TurnPoints, ExecutionPoints, Points
<1>w. CASE MarkInterrupted(r)
  BY <1>w, <1>1, <1>2, <1>3, <1>5, <1>6
  DEF MarkInterrupted, Goto, Record, Outcome, Session, Interrupted, Fault,
      RowEffect, Effect, Frame, LedgerEffect, BoardEffect, QueueEffect,
      TargetEffect, CreateEffect, ResultEffect, LedgerPoints, TurnPoints,
      ExecutionPoints, Points
<1> QED
  BY <1>a, <1>b, <1>c, <1>d, <1>e, <1>f, <1>g, <1>h, <1>i, <1>j, <1>k, <1>l, <1>m, <1>n,
     <1>o, <1>p, <1>q, <1>r, <1>s, <1>t, <1>u, <1>v, <1>w
  DEF RunStep, CodeStep, Throw

-----------------------------------------------------------------------------
(* What a step preserves in the ledger and on the board *)

\* Rows are only added; a row keeps its command's key and payload, and a settled row
\* stays as it is.
LedgerKept ==
  /\ ledger' \in [Ids -> Rows \cup {NoRow}]
  /\ RowsInv'
  /\ FormInv'
  /\ \A i \in Ids : ledger[i] # NoRow =>
       /\ ledger'[i] # NoRow
       /\ ledger'[i].key = ledger[i].key /\ ledger'[i].payload = ledger[i].payload
  /\ \A i \in Ids : ledger[i].status \in {"completed", "failed_terminal"}
       => ledger'[i] = ledger[i]

\* A row that is completed now was so before, or was just completed by r.
CompletedBy(r) ==
  \A i \in Ids : ledger'[i].status = "completed"
    => \/ ledger'[i] = ledger[i]
       \/ pc[r] = "markCompleted" /\ i = target[r] /\ ledger'[i].result = res[r]

\* The operation of a row effect, whatever it is.
LEMMA RowKept ==
  ASSUME TypeOK, FormInv, NEW r \in Runs, NEW i \in Ids, NEW new \in Rows,
         RowEffect(r, i, new)
  PROVE  /\ ledger[i] # NoRow => new.key = ledger[i].key /\ new.payload = ledger[i].payload
         /\ ledger[i] = NoRow => new.key = Req[r].key /\ i \in RowsFor(Req[r])
         /\ WellFormed(new)
         /\ ledger[i].status \in {"completed", "failed_terminal"} => new = ledger[i]
         /\ new.status = "completed"
              => \/ new = ledger[i]
                 \/ pc[r] = "markCompleted" /\ i = target[r] /\ new.result = res[r]
<1>1. /\ ledger[i] \in Rows \cup {NoRow} /\ Req[r] \in Requests
      /\ res[r] \in Results \cup {NoResult} /\ fail[r] \in Failures
  BY RunsAssumption DEF TypeOK, LedgerTypeOK
<1>2. WellFormed(ledger[i])
  BY DEF FormInv
<1>3. CASE i \in RowsFor(Req[r]) /\ new = AfterBegin(ledger[i], Req[r])
  BY <1>1, <1>2, <1>3, BeginRow
<1>4. CASE /\ pc[r] = "markCompleted" /\ i = target[r]
           /\ AcceptsCompletion(ledger[i], att[r], res[r])
           /\ new = AfterCompletion(ledger[i], res[r])
  BY <1>1, <1>2, <1>4, CompletedRow
<1>5. CASE /\ AcceptsFailure(ledger[i], att[r], fail[r])
           /\ new = AfterFailure(ledger[i], fail[r])
  BY <1>1, <1>2, <1>5, FailedRow
<1> QED  BY <1>3, <1>4, <1>5 DEF RowEffect

LEMMA RunKeepsLedger ==
  ASSUME TypeOK, RowsInv, FormInv, NEW r \in Runs, LedgerEffect(r)
  PROVE  LedgerKept /\ CompletedBy(r)
<1>1. ledger \in [Ids -> Rows \cup {NoRow}] /\ Req[r] \in Requests
  BY RunsAssumption DEF TypeOK, LedgerTypeOK
<1>2. CASE ledger' = ledger
  BY <1>1, <1>2 DEF LedgerKept, CompletedBy, RowsInv, FormInv
<1>3. CASE \E i \in Ids : \E new \in Rows :
             RowEffect(r, i, new) /\ ledger' = [ledger EXCEPT ![i] = new]
  <2>1. PICK i \in Ids, new \in Rows :
               RowEffect(r, i, new) /\ ledger' = [ledger EXCEPT ![i] = new]
    BY <1>3
  <2>2. /\ ledger[i] # NoRow => new.key = ledger[i].key /\ new.payload = ledger[i].payload
        /\ ledger[i] = NoRow => new.key = Req[r].key /\ i \in RowsFor(Req[r])
        /\ WellFormed(new)
        /\ ledger[i].status \in {"completed", "failed_terminal"} => new = ledger[i]
        /\ new.status = "completed"
             => \/ new = ledger[i]
                \/ pc[r] = "markCompleted" /\ i = target[r] /\ new.result = res[r]
    BY <2>1, RowKept
  <2>3. /\ ledger'[i] = new /\ ledger' \in [Ids -> Rows \cup {NoRow}]
        /\ \A j \in Ids \ {i} : ledger'[j] = ledger[j]
    BY <1>1, <2>1
  <2>4. NoRow \notin Rows
    BY DEF NoRow, Rows
  <2>5. RowsInv'
    <3>1. SUFFICES ASSUME NEW j \in Ids, j # i, ledger[j].key = new.key
                   PROVE  FALSE
      BY <2>3, <2>4 DEF RowsInv
    <3>2. CASE ledger[i] # NoRow
      BY <2>2, <3>1, <3>2 DEF RowsInv
    <3>3. CASE ledger[i] = NoRow
      <4>1. new.key = Req[r].key /\ i \in RowsFor(Req[r]) /\ Req[r].key \in Keys
        BY <1>1, <2>2, <3>3 DEF Requests
      <4>2. ledger[j].key = Req[r].key
        BY <3>1, <4>1
      <4>3. ledger[i].key # Req[r].key
        BY <3>3, <4>1, LedgerAssumption DEF NoRow
      <4>4. ledger[Req[r].id] # NoRow
        BY <4>1, <4>2, <4>3 DEF RowsFor
      <4> QED
        BY <3>3, <4>1, <4>3, <4>4 DEF RowsFor
    <3> QED  BY <3>2, <3>3
  <2>6. FormInv'
    BY <2>2, <2>3 DEF FormInv, WellFormed
  <2> QED
    BY <2>2, <2>3, <2>4, <2>5, <2>6 DEF LedgerKept, CompletedBy
<1> QED  BY <1>2, <1>3 DEF LedgerEffect

LEMMA AgeKeepsLedger ==
  ASSUME TypeOK, RowsInv, FormInv, NEW i \in Ids, Age(i)
  PROVE  /\ LedgerKept
         /\ \A j \in Ids : /\ ledger'[j].status = ledger[j].status
                           /\ ledger'[j].result = ledger[j].result
                           /\ ledger'[j].key = ledger[j].key
                           /\ ledger'[j].payload = ledger[j].payload
                           /\ ledger'[j].attempt = ledger[j].attempt
<1>1. ledger \in [Ids -> Rows \cup {NoRow}]
  BY DEF TypeOK, LedgerTypeOK
<1>2. ledger[i] \in Rows
  BY <1>1 DEF Age, NoRow
<1> DEFINE new == [ledger[i] EXCEPT !.stale = TRUE]
<1>3. /\ ledger' = [ledger EXCEPT ![i] = new]
      /\ ledger[i].status = "started"
  BY DEF Age
<1>4. /\ new \in Rows /\ new # NoRow
      /\ new.status = "started" /\ new.key = ledger[i].key /\ new.payload = ledger[i].payload
      /\ new.result = ledger[i].result /\ new.attempt = ledger[i].attempt
  BY <1>2, <1>3 DEF Rows, NoRow
<1> HIDE DEF new
<1>5. /\ ledger'[i] = new /\ ledger' \in [Ids -> Rows \cup {NoRow}]
      /\ \A j \in Ids \ {i} : ledger'[j] = ledger[j]
  BY <1>1, <1>3, <1>4
<1>6. RowsInv'
  <2>1. \A j \in Ids : ledger'[j].key = ledger[j].key /\ (ledger'[j] # NoRow => ledger[j] # NoRow)
    BY <1>2, <1>4, <1>5 DEF Rows, NoRow
  <2> QED  BY <2>1 DEF RowsInv
<1>7. FormInv'
  BY <1>3, <1>4, <1>5 DEF FormInv, WellFormed
<1> QED
  BY <1>3, <1>4, <1>5, <1>6, <1>7 DEF LedgerKept

\* Tasks are only added: a task of the application keeps its command's key and payload,
\* and once the tasks it depends on know it, they still do.
BoardKept ==
  /\ board' \in [Ids -> Tasks \cup {NoTask, ForeignTask}]
  /\ \A j \in Ids : Ours(j) =>
       /\ board'[j].owner = "app" /\ board'[j].by = board[j].by
       /\ board'[j].key = board[j].key /\ board'[j].payload = board[j].payload
       /\ board[j].linked => board'[j].linked

\* And only r may have added one, its own.
AddedBy(r) ==
  \A j \in Ids : board'[j].owner = "app" /\ ~Ours(j) =>
    /\ pc[r] = "create" /\ j = target[r]
    /\ board'[j].key = Req[r].key /\ board'[j].payload = Req[r].payload
    /\ board'[j].by = att[r]

LEMMA RunKeepsBoard ==
  ASSUME TypeOK, NEW r \in Runs, BoardEffect(r)
  PROVE  BoardKept /\ AddedBy(r)
<1>1. /\ board \in [Ids -> Tasks \cup {NoTask, ForeignTask}] /\ Req[r] \in Requests
      /\ target[r] \in Ids /\ att[r] \in Nat
  BY RunsAssumption DEF TypeOK
<1>2. CASE board' = board
  BY <1>1, <1>2 DEF BoardKept, AddedBy, Ours
<1>3. CASE \E j \in Ids : Ours(j) /\ RepairLinks(j)
  <2>1. PICK j \in Ids : Ours(j) /\ board' = [board EXCEPT ![j].linked = TRUE]
    BY <1>3 DEF RepairLinks
  <2>2. board[j] \in Tasks
    BY <1>1, <2>1 DEF Ours, Tasks, NoTask, ForeignTask
  <2>3. /\ board'[j] = [board[j] EXCEPT !.linked = TRUE]
        /\ \A m \in Ids \ {j} : board'[m] = board[m]
    BY <1>1, <2>1
  <2>4. board'[j] \in Tasks
    BY <2>2, <2>3 DEF Tasks
  <2>5. board' \in [Ids -> Tasks \cup {NoTask, ForeignTask}]
    BY <1>1, <2>1, <2>3, <2>4
  <2> QED
    BY <2>2, <2>3, <2>5 DEF BoardKept, AddedBy, Ours, Tasks
<1>4. CASE pc[r] = "create" /\ \E l \in BOOLEAN : WriteTask(r, l)
  <2>1. PICK l \in BOOLEAN : /\ board[target[r]] = NoTask
                             /\ board' = [board EXCEPT ![target[r]] = NewTask(r, l)]
    BY <1>4 DEF WriteTask
  <2>2. /\ NewTask(r, l) \in Tasks
        /\ NewTask(r, l).key = Req[r].key /\ NewTask(r, l).payload = Req[r].payload
        /\ NewTask(r, l).by = att[r]
    BY <1>1 DEF NewTask, Tasks, Requests
  <2>3. /\ board'[target[r]] = NewTask(r, l)
        /\ \A m \in Ids \ {target[r]} : board'[m] = board[m]
        /\ board' \in [Ids -> Tasks \cup {NoTask, ForeignTask}]
    BY <1>1, <2>1, <2>2
  <2>4. ~Ours(target[r])
    BY <2>1 DEF Ours, NoTask
  <2> QED
    BY <1>4, <2>2, <2>3, <2>4 DEF BoardKept, AddedBy, Ours
<1> QED  BY <1>2, <1>3, <1>4 DEF BoardEffect

-----------------------------------------------------------------------------
(* The invariant is kept by the steps of a run *)

LEMMA KeptType ==
  ASSUME TypeOK, NEW r \in Runs, Frame(r), QueueEffect(r), LedgerKept, BoardKept
  PROVE  TypeOK'
<1>1. queue' \in Seq(Runs)
  <2>1. queue \in Seq(Runs) /\ backend \in {"sqlite", "json"}
    BY DEF TypeOK
  <2>2. CASE queue' = queue
    BY <2>1, <2>2
  <2>3. CASE queue' = Append(queue, r)
    BY <2>1, <2>3
  <2>4. CASE queue # <<>> /\ queue' = Tail(queue)
    BY <2>1, <2>4
  <2> QED  BY <2>2, <2>3, <2>4 DEF QueueEffect
<1>2. backend' \in {"sqlite", "json"} /\ crashes' \in Nat
  BY DEF TypeOK, Frame
<1> QED  BY <1>1, <1>2 DEF TypeOK, LedgerTypeOK, Frame, LedgerKept, BoardKept

LEMMA KeptSession ==
  ASSUME TypeOK, SessionInv, NEW r \in Runs, Frame(r), QueueEffect(r)
  PROVE  SessionInv'
<1>1. SUFFICES ASSUME backend = "json", NEW s \in Runs
               PROVE  /\ pc'[s] \notin LedgerPoints \cup {"begin"}
                      /\ pc'[s] \in TurnPoints => queue' # <<>> /\ Head(queue') = s
  BY DEF SessionInv, Frame
<1>2. CASE s = r
  BY <1>1, <1>2 DEF QueueEffect
<1>3. CASE s # r
  <2>1. pc'[s] = pc[s] /\ pc[s] \notin LedgerPoints \cup {"begin"}
    BY <1>1, <1>3 DEF Frame, SessionInv
  <2>2. ASSUME pc[s] \in TurnPoints
        PROVE  queue' # <<>> /\ Head(queue') = s
    <3>1. queue \in Seq(Runs) /\ queue # <<>> /\ Head(queue) = s
      BY <1>1, <2>2 DEF TypeOK, SessionInv
    <3>2. queue' = queue \/ queue' = Append(queue, r)
      BY <1>1, <1>3, <3>1 DEF QueueEffect
    <3>3. CASE queue' = Append(queue, r)
      <4>1. Len(queue) > 0 /\ Head(queue) = queue[1]
        BY <3>1
      <4> QED  BY <3>1, <3>3, <4>1
    <3> QED  BY <3>1, <3>2, <3>3
  <2> QED  BY <2>1, <2>2
<1> QED  BY <1>2, <1>3

LEMMA KeptTarget ==
  ASSUME TypeOK, SessionInv, TargetInv, NEW r \in Runs, Frame(r), TargetEffect(r), LedgerKept
  PROVE  TargetInv'
<1>1. SUFFICES ASSUME backend = "sqlite", NEW s \in Runs,
                      pc'[s] \in LedgerPoints \cup ExecutionPoints
               PROVE  Matches(ledger'[target'[s]], Req[s])
  BY DEF TargetInv, Frame
<1>2. ASSUME pc[s] \in LedgerPoints \cup ExecutionPoints, target'[s] = target[s]
      PROVE  Matches(ledger'[target'[s]], Req[s])
  <2>1. Matches(ledger[target[s]], Req[s]) /\ target[s] \in Ids /\ Req[s] \in Requests
    BY <1>1, <1>2, RunsAssumption DEF TargetInv, TypeOK
  <2>2. ledger[target[s]] # NoRow
    BY <2>1, LedgerAssumption DEF Matches, Requests, NoRow
  <2> QED  BY <1>2, <2>1, <2>2 DEF LedgerKept, Matches
<1>3. CASE s = r
  BY <1>1, <1>2, <1>3 DEF TargetEffect
<1>4. CASE s # r
  BY <1>1, <1>2, <1>4 DEF Frame
<1> QED  BY <1>3, <1>4

\* Two runs of one key that are both about to create are so under the same id.
LEMMA SameTarget ==
  ASSUME TypeOK, SessionInv, RowsInv, TargetInv, NEW r \in Runs, NEW s \in Runs,
         pc[r] = "create", pc[s] = "create", Req[r].key = Req[s].key
  PROVE  target[r] = target[s]
<1>1. /\ target[r] \in Ids /\ target[s] \in Ids
      /\ Req[r] \in Requests /\ Req[s] \in Requests /\ backend \in {"sqlite", "json"}
  BY RunsAssumption DEF TypeOK
<1>2. CASE backend = "json"
  BY <1>2 DEF SessionInv, TurnPoints
<1>3. CASE backend = "sqlite"
  <2>1. Matches(ledger[target[r]], Req[r]) /\ Matches(ledger[target[s]], Req[s])
    BY <1>3 DEF TargetInv, ExecutionPoints
  <2>2. ledger[target[r]] # NoRow /\ ledger[target[r]].key = ledger[target[s]].key
    BY <1>1, <2>1, LedgerAssumption DEF Matches, Requests, NoRow
  <2> QED  BY <1>1, <2>2 DEF RowsInv
<1> QED  BY <1>1, <1>2, <1>3

LEMMA KeptBoard ==
  ASSUME IInv, NEW r \in Runs, CreateEffect(r), BoardKept, AddedBy(r),
         \A s \in Runs \ {r} : pc'[s] = "create" => pc[s] = "create" /\ target'[s] = target[s]
  PROVE  CreateInv' /\ OneTaskPerKey'
<1>0. TypeOK /\ SessionInv /\ RowsInv /\ TargetInv /\ CreateInv /\ OneTaskPerKey
  BY DEF IInv
<1> USE DEF Ours
<1>1. ASSUME NEW j \in Ids, board'[j].owner = "app"
      PROVE  \/ Ours(j) /\ board'[j].key = board[j].key
             \/ pc[r] = "create" /\ j = target[r] /\ board'[j].key = Req[r].key
  BY <1>1 DEF BoardKept, AddedBy
<1>2. ASSUME NEW s \in Runs, pc'[s] = "create", NEW j \in Ids, board'[j].owner = "app",
             board'[j].key = Req[s].key
      PROVE  j = target'[s]
  <2>1. CASE s = r
    BY <1>2, <2>1 DEF CreateEffect, WithKey
  <2>2. CASE s # r
    <3>1. pc[s] = "create" /\ target'[s] = target[s]
      BY <1>2, <2>2
    <3>2. CASE Ours(j) /\ board'[j].key = board[j].key
      BY <1>0, <1>2, <3>1, <3>2 DEF CreateInv, WithKey
    <3>3. CASE pc[r] = "create" /\ j = target[r] /\ board'[j].key = Req[r].key
      BY <1>0, <1>2, <3>1, <3>3, SameTarget
    <3> QED  BY <1>1, <1>2, <3>2, <3>3
  <2> QED  BY <2>1, <2>2
<1>3. CreateInv'
  BY <1>2 DEF CreateInv, WithKey
<1>4. ASSUME NEW i \in Ids, NEW j \in Ids, board'[i].owner = "app", board'[j].owner = "app",
             board'[i].key = board'[j].key, Ours(i), board'[i].key = board[i].key
      PROVE  i = j
  <2>1. CASE Ours(j) /\ board'[j].key = board[j].key
    BY <1>0, <1>4, <2>1 DEF OneTaskPerKey
  <2>2. CASE pc[r] = "create" /\ j = target[r] /\ board'[j].key = Req[r].key
    BY <1>0, <1>4, <2>2 DEF CreateInv, WithKey
  <2> QED  BY <1>1, <1>4, <2>1, <2>2
<1>5. OneTaskPerKey'
  <2>1. SUFFICES ASSUME NEW i \in Ids, NEW j \in Ids, board'[i].owner = "app",
                        board'[j].owner = "app", board'[i].key = board'[j].key
                 PROVE  i = j
    BY DEF OneTaskPerKey
  <2>2. CASE Ours(i) /\ board'[i].key = board[i].key
    BY <1>4, <2>1, <2>2
  <2>3. CASE Ours(j) /\ board'[j].key = board[j].key
    BY <1>4, <2>1, <2>3
  <2> QED  BY <1>1, <2>1, <2>2, <2>3
<1> QED  BY <1>3, <1>5

\* What fulfils a request goes on to do so.
LEMMA FulfilsKept ==
  ASSUME BoardKept, NEW i, NEW q, Fulfils(i, q)
  PROVE  /\ i \in Ids /\ board'[i].owner = "app"
         /\ board'[i].key = q.key /\ board'[i].payload = q.payload
         /\ board'[i].linked
BY DEF BoardKept, Fulfils, Ours

LEMMA StillTrue ==
  ASSUME ResultInv, BoardKept, NEW s \in Runs, pc[s] \in {"markCompleted", "done"},
         res'[s] = res[s]
  PROVE  Fulfils(res[s].task, Req[s])'
<1>1. Fulfils(res[s].task, Req[s])
  BY DEF ResultInv
<1> QED  BY <1>1, FulfilsKept DEF Fulfils, Ours

LEMMA KeptResult ==
  ASSUME IInv, NEW r \in Runs, Effect(r), BoardKept
  PROVE  ResultInv'
<1>0. /\ TypeOK /\ ResultInv /\ CompletedIsTrue
      /\ board \in [Ids -> Tasks \cup {NoTask, ForeignTask}]
  BY DEF IInv, TypeOK
<1>2. ASSUME NEW s \in Runs, pc'[s] \in {"markCompleted", "done"}
      PROVE  Fulfils(res[s].task, Req[s])'
  <2>2. CASE s # r
    BY <1>0, <1>2, <2>2, StillTrue DEF Effect, Frame
  <2>3. CASE s = r
    <3>1. CASE \E j \in Ids : /\ Reconcilable(j, Req[r]) /\ RepairLinks(j)
                              /\ res'[r].task = j
      <4>1. PICK j \in Ids : /\ Ours(j) /\ Matches(board[j], Req[r])
                             /\ board' = [board EXCEPT ![j].linked = TRUE]
                             /\ res'[r].task = j
        BY <3>1 DEF Reconcilable, RepairLinks
      <4>2. board[j] \in Tasks
        BY <1>0, <4>1 DEF Ours, Tasks, NoTask, ForeignTask
      <4>3. board'[j] = [board[j] EXCEPT !.linked = TRUE]
        BY <1>0, <4>1
      <4>4. /\ board'[j].owner = "app" /\ board'[j].linked
            /\ board'[j].key = Req[r].key /\ board'[j].payload = Req[r].payload
        BY <4>1, <4>2, <4>3 DEF Ours, Matches, Tasks
      <4> QED  BY <2>3, <4>1, <4>4 DEF Fulfils, Ours
    <3>2. CASE \E i \in Ids : /\ Replays(ledger[i], Req[r]) /\ res'[r] = ledger[i].result
                              /\ board' = board
      <4>1. PICK i \in Ids : /\ Matches(ledger[i], Req[r]) /\ ledger[i].status = "completed"
                             /\ res'[r] = ledger[i].result
        BY <3>2 DEF Replays
      <4>2. Fulfils(ledger[i].result.task,
                    [id |-> i, key |-> ledger[i].key, payload |-> ledger[i].payload])
        BY <1>0, <4>1 DEF CompletedIsTrue
      <4>3. /\ ledger[i].result.task \in Ids /\ board'[ledger[i].result.task].owner = "app"
            /\ board'[ledger[i].result.task].key = ledger[i].key
            /\ board'[ledger[i].result.task].payload = ledger[i].payload
            /\ board'[ledger[i].result.task].linked
        BY <4>2, FulfilsKept
      <4> QED  BY <2>3, <4>1, <4>3 DEF Fulfils, Ours, Matches
    <3>3. CASE pc[r] = "markCompleted" /\ res'[r] = res[r]
      BY <1>0, <2>3, <3>3, StillTrue
    <3> QED  BY <1>2, <2>3, <3>1, <3>2, <3>3 DEF Effect, ResultEffect
  <2> QED  BY <2>2, <2>3
<1> QED  BY <1>2 DEF ResultInv

LEMMA KeptCompleted ==
  ASSUME IInv, NEW r \in Runs, LedgerKept, CompletedBy(r), BoardKept
  PROVE  CompletedIsTrue'
<1>0. TypeOK /\ SessionInv /\ TargetInv /\ ResultInv /\ CompletedIsTrue
  BY DEF IInv
<1>1. SUFFICES ASSUME NEW i \in Ids, ledger'[i].status = "completed"
               PROVE  Fulfils(ledger[i].result.task,
                              [id |-> i, key |-> ledger[i].key,
                               payload |-> ledger[i].payload])'
  BY DEF CompletedIsTrue
<1>2. CASE ledger'[i] = ledger[i]
  <2>1. Fulfils(ledger[i].result.task,
                [id |-> i, key |-> ledger[i].key, payload |-> ledger[i].payload])
    BY <1>0, <1>1, <1>2 DEF CompletedIsTrue
  <2>2. /\ ledger[i].result.task \in Ids /\ board'[ledger[i].result.task].owner = "app"
        /\ board'[ledger[i].result.task].key = ledger[i].key
        /\ board'[ledger[i].result.task].payload = ledger[i].payload
        /\ board'[ledger[i].result.task].linked
    BY <2>1, FulfilsKept
  <2> QED  BY <1>2, <2>2 DEF Fulfils, Ours
<1>3. CASE pc[r] = "markCompleted" /\ i = target[r] /\ ledger'[i].result = res[r]
  <2>1. backend = "sqlite"
    BY <1>0, <1>3 DEF SessionInv, LedgerPoints, TypeOK
  <2>2. Matches(ledger[i], Req[r]) /\ Req[r] \in Requests
    BY <1>0, <1>3, <2>1, RunsAssumption DEF TargetInv, LedgerPoints
  <2>3. ledger[i] # NoRow
    BY <2>2, LedgerAssumption DEF Matches, Requests, NoRow
  <2>4. ledger'[i].key = Req[r].key /\ ledger'[i].payload = Req[r].payload
    BY <2>2, <2>3 DEF LedgerKept, Matches
  <2>5. Fulfils(res[r].task, Req[r])
    BY <1>0, <1>3 DEF ResultInv
  <2>6. /\ res[r].task \in Ids /\ board'[res[r].task].owner = "app"
        /\ board'[res[r].task].key = Req[r].key
        /\ board'[res[r].task].payload = Req[r].payload
        /\ board'[res[r].task].linked
    BY <2>5, FulfilsKept
  <2> QED  BY <1>3, <2>4, <2>6 DEF Fulfils, Ours
<1> QED  BY <1>1, <1>2, <1>3 DEF CompletedBy

-----------------------------------------------------------------------------
(* The steps of the environment *)

\* What everything but a run does: it ends runs and starts none, and neither the ledger's
\* results nor the application's tasks change.
Outside ==
  /\ backend' \in {"sqlite", "json"}
  /\ \/ backend' = backend /\ queue' = queue /\ pc' = pc
     \/ /\ queue' = <<>>
        /\ pc' = [r \in Runs |-> IF pc[r] \in {"idle", "done"} THEN pc[r] ELSE "failed"]
  /\ target' = target /\ att' = att /\ retried' = retried /\ res' = res /\ fail' = fail
  /\ faults' \in Nat /\ crashes' \in Nat
  /\ LedgerKept
  /\ \A i \in Ids : /\ ledger'[i].status = ledger[i].status
                    /\ ledger'[i].result = ledger[i].result
                    /\ ledger'[i].key = ledger[i].key
                    /\ ledger'[i].payload = ledger[i].payload
                    /\ ledger'[i].attempt = ledger[i].attempt
  /\ BoardKept

NoneAdded == \A j \in Ids : board'[j].owner = "app" => Ours(j)

LEMMA EnvironmentIsOutside ==
  ASSUME IInv,
         \/ TimePasses \/ Crash \/ \E i \in ForeignIds : ForeignCreate(i)
         \/ UNCHANGED vars
  PROVE  Outside /\ NoneAdded
<1>1. TypeOK /\ RowsInv /\ FormInv
  BY DEF IInv
<1>2. /\ board \in [Ids -> Tasks \cup {NoTask, ForeignTask}]
      /\ ledger \in [Ids -> Rows \cup {NoRow}] /\ backend \in {"sqlite", "json"}
      /\ faults \in Nat /\ crashes \in Nat
  BY <1>1 DEF TypeOK, LedgerTypeOK
<1>3. ledger' = ledger => LedgerKept
  BY <1>1, <1>2 DEF LedgerKept, RowsInv, FormInv
<1>4. board' = board => BoardKept /\ NoneAdded
  BY <1>2 DEF BoardKept, NoneAdded, Ours
<1>5. CASE TimePasses
  <2>1. PICK i \in Ids : Age(i)
    BY <1>5 DEF TimePasses
  <2>2. /\ LedgerKept
        /\ \A j \in Ids : /\ ledger'[j].status = ledger[j].status
                          /\ ledger'[j].result = ledger[j].result
                          /\ ledger'[j].key = ledger[j].key
                          /\ ledger'[j].payload = ledger[j].payload
                          /\ ledger'[j].attempt = ledger[j].attempt
    BY <1>1, <2>1, AgeKeepsLedger
  <2> QED
    BY <1>2, <1>4, <1>5, <2>2 DEF TimePasses, Record, Outcome, Session, Outside
<1>6. CASE Crash
  BY <1>2, <1>3, <1>4, <1>6, RunsAssumption DEF Crash, Restart, Record, Outcome, Outside
<1>7. CASE \E i \in ForeignIds : ForeignCreate(i)
  <2>1. PICK i \in Ids : ForeignCreate(i)
    BY <1>7, RunsAssumption
  <2>2. /\ board'[i] = ForeignTask /\ board' \in [Ids -> Tasks \cup {NoTask, ForeignTask}]
        /\ board[i] = NoTask
        /\ \A j \in Ids \ {i} : board'[j] = board[j]
    BY <1>2, <2>1 DEF ForeignCreate
  <2>3. BoardKept /\ NoneAdded
    BY <2>2 DEF BoardKept, NoneAdded, Ours, ForeignTask, NoTask
  <2> QED
    BY <1>2, <1>3, <2>1, <2>3 DEF ForeignCreate, Record, Outcome, Session, Outside
<1>8. CASE UNCHANGED vars
  BY <1>2, <1>3, <1>4, <1>8 DEF vars, Record, Outcome, Session, Outside
<1> QED  BY <1>5, <1>6, <1>7, <1>8

\* A crash in a create, too, is one that leaves at most a task of the run.
LEMMA CrashIsOutside ==
  ASSUME IInv, NEW r \in Runs, CrashInCreate(r)
  PROVE  Outside /\ BoardEffect(r)
<1>1. TypeOK /\ RowsInv /\ FormInv
  BY DEF IInv
<1>2. /\ ledger \in [Ids -> Rows \cup {NoRow}] /\ faults \in Nat /\ crashes \in Nat
  BY <1>1 DEF TypeOK, LedgerTypeOK
<1>3. BoardEffect(r)
  BY DEF CrashInCreate, BoardEffect
<1>4. BoardKept
  BY <1>1, <1>3, RunKeepsBoard
<1>5. ledger' = ledger
  BY DEF CrashInCreate, Restart
<1>6. LedgerKept
  BY <1>1, <1>2, <1>5 DEF LedgerKept, RowsInv, FormInv
<1> QED
  BY <1>2, <1>3, <1>4, <1>5, <1>6, RunsAssumption
  DEF CrashInCreate, Restart, Record, Outcome, Outside

LEMMA OutsideKeeps ==
  ASSUME IInv, Outside
  PROVE  /\ TypeOK' /\ SessionInv' /\ RowsInv' /\ FormInv' /\ TargetInv' /\ ResultInv'
         /\ CompletedIsTrue'
<1>0. TypeOK /\ SessionInv /\ TargetInv /\ ResultInv /\ CompletedIsTrue
  BY DEF IInv
<1>1. pc \in [Runs -> Points] /\ queue \in Seq(Runs)
  BY <1>0 DEF TypeOK
<1>2. /\ pc' \in [Runs -> Points] /\ queue' \in Seq(Runs)
      /\ \A s \in Runs : /\ pc'[s] = pc[s] \/ pc'[s] = "failed"
                         /\ backend' # backend \/ queue' # queue
                              => pc'[s] \in {"idle", "done", "failed"}
  <2>1. CASE backend' = backend /\ queue' = queue /\ pc' = pc
    BY <1>1, <2>1
  <2>2. CASE /\ queue' = <<>>
             /\ pc' = [s \in Runs |-> IF pc[s] \in {"idle", "done"} THEN pc[s] ELSE "failed"]
    <3>1. \A s \in Runs : pc'[s] \in {"idle", "done", "failed"} /\ pc'[s] \in {pc[s], "failed"}
      BY <1>1, <2>2
    <3>2. pc' \in [Runs -> Points]
      BY <2>2 DEF Points
    <3>3. queue' \in Seq(Runs)
      BY <2>2
    <3> QED  BY <3>1, <3>2, <3>3
  <2> QED  BY <2>1, <2>2 DEF Outside
<1>3. TypeOK'
  BY <1>0, <1>2 DEF TypeOK, LedgerTypeOK, Outside, LedgerKept, BoardKept
<1>4. SessionInv'
  BY <1>0, <1>2 DEF SessionInv, LedgerPoints, TurnPoints
<1>5. TargetInv'
  <2>1. SUFFICES ASSUME NEW s \in Runs, pc'[s] \in LedgerPoints \cup ExecutionPoints,
                        backend' = "sqlite"
                 PROVE  Matches(ledger'[target[s]], Req[s])
    BY DEF TargetInv, Outside
  <2>2. pc'[s] = pc[s] /\ backend = "sqlite" /\ target[s] \in Ids
    BY <1>0, <1>2, <2>1 DEF LedgerPoints, ExecutionPoints, TypeOK
  <2>3. Matches(ledger[target[s]], Req[s])
    BY <1>0, <2>1, <2>2 DEF TargetInv
  <2> QED  BY <2>2, <2>3 DEF Matches, Outside
<1>6. ResultInv'
  <2>1. SUFFICES ASSUME NEW s \in Runs, pc'[s] \in {"markCompleted", "done"}
                 PROVE  Fulfils(res[s].task, Req[s])'
    BY DEF ResultInv
  <2>2. pc[s] \in {"markCompleted", "done"} /\ res'[s] = res[s]
    BY <1>2, <2>1 DEF Outside
  <2> QED  BY <1>0, <2>2, StillTrue DEF Outside
<1>7. CompletedIsTrue'
  <2>1. SUFFICES ASSUME NEW i \in Ids, ledger'[i].status = "completed"
                 PROVE  Fulfils(ledger[i].result.task,
                                [id |-> i, key |-> ledger[i].key,
                                 payload |-> ledger[i].payload])'
    BY DEF CompletedIsTrue
  <2>2. /\ ledger'[i].key = ledger[i].key /\ ledger'[i].payload = ledger[i].payload
        /\ ledger'[i].result = ledger[i].result /\ ledger[i].status = "completed"
    BY <2>1 DEF Outside
  <2>3. Fulfils(ledger[i].result.task,
                [id |-> i, key |-> ledger[i].key, payload |-> ledger[i].payload])
    BY <1>0, <2>2 DEF CompletedIsTrue
  <2>4. /\ ledger[i].result.task \in Ids /\ board'[ledger[i].result.task].owner = "app"
        /\ board'[ledger[i].result.task].key = ledger[i].key
        /\ board'[ledger[i].result.task].payload = ledger[i].payload
        /\ board'[ledger[i].result.task].linked
    BY <2>3, FulfilsKept DEF Outside
  <2> QED  BY <2>2, <2>4 DEF Fulfils, Ours
<1> QED
  BY <1>3, <1>4, <1>5, <1>6, <1>7 DEF Outside, LedgerKept

-----------------------------------------------------------------------------
(* The inductive invariant *)

LEMMA InitIInv ==
  ASSUME Init
  PROVE  IInv
<1>1. TypeOK
  BY RunsAssumption, LedgerAssumption
  DEF Init, TypeOK, LedgerTypeOK, LedgerInit, Requests, Points, Failures, NoFailure, Failure,
      Reasons, Results
<1>2. \A i \in Ids : ledger[i] = NoRow /\ board[i] = NoTask
  BY DEF Init, LedgerInit
<1>3. \A r \in Runs : pc[r] = "idle"
  BY DEF Init
<1>4. SessionInv /\ TargetInv /\ CreateInv /\ ResultInv
  BY <1>3 DEF SessionInv, TargetInv, CreateInv, ResultInv, LedgerPoints, TurnPoints,
              ExecutionPoints
<1>5. RowsInv /\ OneTaskPerKey
  BY <1>2 DEF RowsInv, OneTaskPerKey, NoTask, Ours
<1>6. FormInv /\ CompletedIsTrue
  <2>1. NoRow.status = "none" /\ NoRow.stale = FALSE /\ NoRow.result = NoResult
    BY DEF NoRow
  <2>2. WellFormed(NoRow) /\ NoRow.status # "completed"
    BY <2>1 DEF WellFormed
  <2> QED  BY <1>2, <2>2 DEF FormInv, CompletedIsTrue
<1> QED  BY <1>1, <1>4, <1>5, <1>6 DEF IInv

LEMMA RunKeepsIInv ==
  ASSUME IInv, NEW r \in Runs, RunStep(r)
  PROVE  IInv'
<1>0. TypeOK /\ SessionInv /\ RowsInv /\ FormInv /\ TargetInv
  BY DEF IInv
<1>1. Effect(r)
  BY <1>0, RunEffect
<1>2. /\ Frame(r) /\ LedgerEffect(r) /\ BoardEffect(r) /\ QueueEffect(r)
      /\ TargetEffect(r) /\ CreateEffect(r)
  BY <1>1 DEF Effect
<1>3. LedgerKept /\ CompletedBy(r)
  BY <1>0, <1>2, RunKeepsLedger
<1>4. BoardKept /\ AddedBy(r)
  BY <1>0, <1>2, RunKeepsBoard
<1>5. TypeOK'
  BY <1>0, <1>2, <1>3, <1>4, KeptType
<1>6. SessionInv'
  BY <1>0, <1>2, KeptSession
<1>7. TargetInv'
  BY <1>0, <1>2, <1>3, KeptTarget
<1>8. CreateInv' /\ OneTaskPerKey'
  <2>1. \A s \in Runs \ {r} : pc'[s] = "create" => pc[s] = "create" /\ target'[s] = target[s]
    BY <1>2 DEF Frame
  <2> QED  BY <1>2, <1>4, <2>1, KeptBoard
<1>9. ResultInv' /\ CompletedIsTrue'
  BY <1>1, <1>3, <1>4, KeptResult, KeptCompleted
<1> QED  BY <1>3, <1>5, <1>6, <1>7, <1>8, <1>9 DEF IInv, LedgerKept

LEMMA EnvironmentKeepsIInv ==
  ASSUME IInv,
         \/ TimePasses \/ Crash \/ \E i \in ForeignIds : ForeignCreate(i)
         \/ UNCHANGED vars
  PROVE  IInv'
<1>1. Outside /\ NoneAdded
  BY EnvironmentIsOutside
<1>2. CreateInv /\ OneTaskPerKey
  BY DEF IInv
<1>3. \A s \in Runs : pc'[s] = "create" => pc[s] = "create" /\ target'[s] = target[s]
  BY <1>1 DEF Outside
<1>4. \A j \in Ids : board'[j].owner = "app" => Ours(j) /\ board'[j].key = board[j].key
  BY <1>1 DEF Outside, BoardKept, NoneAdded
<1>5. CreateInv' /\ OneTaskPerKey'
  BY <1>2, <1>3, <1>4 DEF CreateInv, OneTaskPerKey, WithKey, Ours
<1> QED  BY <1>1, <1>5, OutsideKeeps DEF IInv

LEMMA CrashKeepsIInv ==
  ASSUME IInv, NEW r \in Runs, CrashInCreate(r)
  PROVE  IInv'
<1>1. Outside /\ BoardEffect(r)
  BY CrashIsOutside
<1>2. TypeOK
  BY DEF IInv
<1>3. BoardKept /\ AddedBy(r)
  BY <1>1, <1>2, RunKeepsBoard
<1>4. \A s \in Runs : pc'[s] # "create"
  BY DEF CrashInCreate, Restart
<1>5. CreateInv' /\ OneTaskPerKey'
  BY <1>3, <1>4, KeptBoard DEF CreateEffect
<1> QED  BY <1>1, <1>5, OutsideKeeps DEF IInv

\* The strengthened invariant holds in every reachable state.
THEOREM Inductive == Spec => []IInv
<1>1. Init => IInv
  BY InitIInv
<1>2. IInv /\ [Next]_vars => IInv'
  BY RunKeepsIInv, EnvironmentKeepsIInv, CrashKeepsIInv DEF Next, RunStep
<1> QED  BY <1>1, <1>2, PTL DEF Spec

\* Every variable keeps its type.
THEOREM TypeCorrect == Spec => []TypeOK
<1>1. IInv => TypeOK
  BY DEF IInv
<1> QED  BY <1>1, Inductive, PTL

\* An idempotency key never gets a second task.
THEOREM OneTask == Spec => []OneTaskPerKey
<1>1. IInv => OneTaskPerKey
  BY DEF IInv
<1> QED  BY <1>1, Inductive, PTL

\* A call that returns a task names one on the board that is what it asked for.
THEOREM AnswersTrue == Spec => []AnswersAreTrue
<1>1. IInv => AnswersAreTrue
  BY DEF IInv, ResultInv, AnswersAreTrue
<1> QED  BY <1>1, Inductive, PTL

\* What the ledger replays is on the board.
THEOREM CompletedTrue == Spec => []CompletedIsTrue
<1>1. IInv => CompletedIsTrue
  BY DEF IInv
<1> QED  BY <1>1, Inductive, PTL

\* No step of a run, of a crash or of time changes a settled row.
LEMMA StepKeepsLedger ==
  ASSUME IInv, [Next]_vars
  PROVE  LedgerKept
<1>0. TypeOK /\ SessionInv /\ RowsInv /\ FormInv
  BY DEF IInv
<1>1. ASSUME NEW r \in Runs, RunStep(r)
      PROVE  LedgerKept
  BY <1>0, <1>1, RunEffect, RunKeepsLedger DEF Effect
<1>2. ASSUME NEW r \in Runs, CrashInCreate(r)
      PROVE  LedgerKept
  BY <1>2, CrashIsOutside DEF Outside
<1>3. CASE \/ TimePasses \/ Crash \/ \E i \in ForeignIds : ForeignCreate(i)
           \/ UNCHANGED vars
  BY <1>3, EnvironmentIsOutside DEF Outside
<1> QED  BY <1>1, <1>2, <1>3 DEF Next, RunStep

\* A settled command stays settled as it is.
THEOREM SettledForGood == Spec => SettledStays
<1>1. IInv /\ [Next]_vars
        => [\A i \in Ids : ledger[i].status \in {"completed", "failed_terminal"}
              => ledger'[i] = ledger[i]]_ledger
  BY StepKeepsLedger DEF LedgerKept
<1> QED  BY <1>1, Inductive, PTL DEF Spec, SettledStays

-----------------------------------------------------------------------------
(* The refinement of OnceOnly *)

LEMMA TaskAmongOne ==
  ASSUME NEW j
  PROVE  TaskAmong({j}) = j
BY DEF TaskAmong

\* The key of a task on the board has that task.
LEMMA MadeTask ==
  ASSUME OneTaskPerKey, NEW j \in Ids, Ours(j), board[j].key \in Keys
  PROVE  MadeTasks[board[j].key] = j
<1>1. WithKey(board[j].key) = {j}
  BY DEF OneTaskPerKey, WithKey
<1> QED  BY <1>1, TaskAmongOne DEF MadeTasks

\* A key whose tasks stay keeps the one it has.
LEMMA SameTask ==
  ASSUME OneTaskPerKey, NEW k, WithKey(k)' = WithKey(k)
  PROVE  TaskAmong(WithKey(k))' = TaskAmong(WithKey(k))
<1>1. CASE WithKey(k) = {}
  BY <1>1 DEF TaskAmong
<1>2. CASE WithKey(k) # {}
  <2>1. PICK j \in Ids : WithKey(k) = {j}
    BY <1>2 DEF OneTaskPerKey, WithKey
  <2>2. TaskAmong(WithKey(k)) = j
    BY <2>1, TaskAmongOne
  <2>3. TaskAmong(WithKey(k))' = j
    BY <2>1, TaskAmongOne DEF TaskAmong
  <2> QED  BY <2>2, <2>3
<1> QED  BY <1>1, <1>2

LEMMA MadeKept ==
  ASSUME OneTaskPerKey, BoardKept, NoneAdded
  PROVE  MadeTasks' = MadeTasks
<1>1. \A k \in Keys : WithKey(k)' = WithKey(k)
  BY DEF BoardKept, NoneAdded, WithKey, Ours
<1>2. \A k \in Keys : TaskAmong(WithKey(k))' = TaskAmong(WithKey(k))
  BY <1>1, SameTask
<1> QED  BY <1>2 DEF MadeTasks

\* A run's create makes its key's task.
LEMMA RunMakes ==
  ASSUME IInv, NEW r \in Runs, BoardKept, AddedBy(r), OneTaskPerKey', ~NoneAdded,
         AnswersGiven' = AnswersGiven
  PROVE  Service!Make(Req[r].key)
<1>1. PICK j \in Ids : board'[j].owner = "app" /\ ~Ours(j)
  BY DEF NoneAdded
<1>2. /\ pc[r] = "create" /\ j = target[r] /\ board'[j].key = Req[r].key
      /\ Req[r].key \in Keys
  BY <1>1, RunsAssumption DEF AddedBy, Requests
<1>3. WithKey(Req[r].key) = {}
  BY <1>1, <1>2 DEF IInv, CreateInv, WithKey
<1>4. WithKey(Req[r].key)' = {j}
  <2>1. \A m \in Ids : board'[m].owner = "app" /\ board'[m].key = board'[j].key => m = j
    BY <1>1 DEF OneTaskPerKey, Ours
  <2> QED  BY <1>1, <1>2, <2>1 DEF WithKey, Ours
<1>5. \A k \in Keys : k # Req[r].key => WithKey(k)' = WithKey(k)
  <2>1. \A m \in Ids : board'[m].owner = "app" /\ ~Ours(m) => m = j
    BY <1>2 DEF AddedBy
  <2> QED  BY <1>1, <1>2, <2>1 DEF BoardKept, WithKey, Ours
<1>6. MadeTasks[Req[r].key] = NoValue
  BY <1>2, <1>3 DEF MadeTasks, TaskAmong
<1>7. MadeTasks' = [MadeTasks EXCEPT ![Req[r].key] = j]
  <2>1. TaskAmong(WithKey(Req[r].key))' = j
    BY <1>4, TaskAmongOne DEF TaskAmong
  <2>2. \A k \in Keys : k # Req[r].key => TaskAmong(WithKey(k))' = TaskAmong(WithKey(k))
    BY <1>5, SameTask DEF IInv
  <2> QED  BY <1>2, <2>1, <2>2 DEF MadeTasks
<1> QED  BY <1>6, <1>7 DEF Service!Make

\* Only a call that has not ended takes a step.
LEMMA RunNotEnded ==
  ASSUME NEW r \in Runs, RunStep(r)
  PROVE  pc[r] \notin Ended
BY DEF RunStep, Start, CodeStep, Throw, Ended, BeginStarts, BeginUnknown, BeginReplays,
       BeginRefuses, ReconcileApplied, ReconcileNotApplied, MarkNotApplied, Execute, Create,
       CreateExists, Confirm, Recover, MarkCompleted, MarkFailed, MarkRefused,
       BeginInterrupted, ReconcileThrows, ExecuteThrows, CreateFails, ConfirmThrows,
       RecoverThrows, MarkInterrupted

\* A call that is answered is answered with its key's task, in a step that makes none.
LEMMA RunAnswers ==
  ASSUME IInv, NEW r \in Runs, RunStep(r), Effect(r), BoardKept, AddedBy(r), IInv',
         pc'[r] = "done"
  PROVE  Service!Answer(r)
<1>1. NoneAdded
  <2>1. board' = board \/ \E j \in Ids : RepairLinks(j) /\ Ours(j)
    BY DEF Effect, ResultEffect, Reconcilable
  <2>2. CASE board' = board
    BY <2>2 DEF NoneAdded, Ours
  <2>3. CASE \E j \in Ids : RepairLinks(j) /\ Ours(j)
    <3>1. PICK j \in Ids : RepairLinks(j) /\ Ours(j)
      BY <2>3
    <3>2. \A m \in Ids : m # j => board'[m] = board[m]
      BY <3>1 DEF RepairLinks, IInv, TypeOK
    <3>3. \A m \in Ids : board'[m].owner = "app" /\ m # j => Ours(m)
      BY <3>2 DEF Ours
    <3> QED  BY <3>1, <3>3 DEF NoneAdded
  <2> QED  BY <2>1, <2>2, <2>3
<1>2. MadeTasks' = MadeTasks
  BY <1>1, MadeKept DEF IInv
<1>3. /\ res'[r].task \in Ids /\ board'[res'[r].task].owner = "app"
      /\ board'[res'[r].task].key = Req[r].key /\ Req[r].key \in Keys
  BY RunsAssumption DEF IInv, ResultInv, Fulfils, Ours, Requests
<1>4. /\ Ours(res'[r].task) /\ board[res'[r].task].key = Req[r].key
  BY <1>1, <1>3 DEF NoneAdded, BoardKept
<1>5. MadeTasks[Req[r].key] = res'[r].task
  BY <1>3, <1>4, MadeTask DEF IInv
<1>6. MadeTasks[Req[r].key] # NoValue
  BY <1>3, <1>5, LedgerAssumption
<1>7. AnswersGiven[r] = NoValue
  BY RunNotEnded DEF AnswersGiven, Ended
<1>8. AnswersGiven' = [AnswersGiven EXCEPT ![r] = res'[r].task]
  <2>1. \A s \in Runs \ {r} : pc'[s] = pc[s] /\ res'[s] = res[s]
    BY DEF Effect, Frame
  <2> QED  BY <2>1 DEF AnswersGiven
<1> QED  BY <1>2, <1>5, <1>6, <1>7, <1>8 DEF Service!Answer

LEMMA AnswersKept ==
  ASSUME NEW r \in Runs, RunStep(r), Frame(r), pc'[r] # "done"
  PROVE  AnswersGiven' = AnswersGiven
<1>1. pc[r] # "done"
  BY RunNotEnded DEF Ended
<1>2. \A s \in Runs \ {r} : pc'[s] = pc[s] /\ res'[s] = res[s]
  BY DEF Frame
<1> QED  BY <1>1, <1>2 DEF AnswersGiven

LEMMA OutsideKeepsAnswers ==
  ASSUME IInv, Outside
  PROVE  AnswersGiven' = AnswersGiven
<1>1. \A s \in Runs : pc'[s] = "done" <=> pc[s] = "done"
  BY DEF Outside
<1>2. res' = res
  BY DEF Outside
<1> QED  BY <1>1, <1>2 DEF AnswersGiven

\* Keyed creation implements the once-only service.
THEOREM Implements == Spec => ImplementsOnceOnly
<1>1. Init => Service!Init
  <2>1. SUFFICES ASSUME Init
                 PROVE  /\ MadeTasks = [k \in Keys |-> NoValue]
                        /\ AnswersGiven = [r \in Runs |-> NoValue]
    BY DEF Service!Init
  <2>2. NoTask.owner # "app"
    BY DEF NoTask
  <2>3. \A k \in Keys : WithKey(k) = {}
    BY <2>1, <2>2 DEF Init, WithKey, Ours
  <2>4. \A r \in Runs : pc[r] # "done"
    BY <2>1 DEF Init
  <2> QED  BY <2>3, <2>4 DEF MadeTasks, AnswersGiven, TaskAmong
<1>2. ASSUME IInv, IInv', [Next]_vars
      PROVE  [Service!Next]_<<MadeTasks, AnswersGiven>>
  <2>1. OneTaskPerKey'
    BY <1>2 DEF IInv
  <2>2. ASSUME NEW r \in Runs, BoardKept, AddedBy(r), AnswersGiven' = AnswersGiven
        PROVE  [Service!Next]_<<MadeTasks, AnswersGiven>>
    <3>1. Req[r].key \in Keys
      BY RunsAssumption DEF Requests
    <3>2. CASE NoneAdded
      BY <1>2, <2>2, <3>2, MadeKept DEF IInv
    <3>3. CASE ~NoneAdded
      <4>1. Service!Make(Req[r].key)
        BY <1>2, <2>1, <2>2, <3>3, RunMakes
      <4> QED  BY <3>1, <4>1 DEF Service!Next
    <3> QED  BY <3>2, <3>3
  <2>3. ASSUME NEW r \in Runs, RunStep(r)
        PROVE  [Service!Next]_<<MadeTasks, AnswersGiven>>
    <3>1. Effect(r) /\ BoardKept /\ AddedBy(r)
      BY <1>2, <2>3, RunEffect, RunKeepsBoard DEF IInv, Effect
    <3>2. CASE pc'[r] = "done"
      <4>1. Service!Answer(r)
        BY <1>2, <2>3, <3>1, <3>2, RunAnswers
      <4> QED  BY <4>1 DEF Service!Next
    <3>3. CASE pc'[r] # "done"
      <4>1. AnswersGiven' = AnswersGiven
        BY <2>3, <3>1, <3>3, AnswersKept DEF Effect
      <4> QED  BY <2>2, <3>1, <4>1
    <3> QED  BY <3>2, <3>3
  <2>4. ASSUME NEW r \in Runs, CrashInCreate(r)
        PROVE  [Service!Next]_<<MadeTasks, AnswersGiven>>
    <3>1. Outside /\ BoardEffect(r)
      BY <1>2, <2>4, CrashIsOutside
    <3>2. BoardKept /\ AddedBy(r)
      BY <1>2, <3>1, RunKeepsBoard DEF IInv
    <3>3. AnswersGiven' = AnswersGiven
      BY <1>2, <3>1, OutsideKeepsAnswers
    <3> QED  BY <2>2, <3>2, <3>3
  <2>5. CASE \/ TimePasses \/ Crash \/ \E i \in ForeignIds : ForeignCreate(i)
             \/ UNCHANGED vars
    <3>1. Outside /\ NoneAdded
      BY <1>2, <2>5, EnvironmentIsOutside
    <3>2. MadeTasks' = MadeTasks /\ AnswersGiven' = AnswersGiven
      BY <1>2, <3>1, MadeKept, OutsideKeepsAnswers DEF Outside, IInv
    <3> QED  BY <3>2
  <2> QED  BY <1>2, <2>3, <2>4, <2>5 DEF Next, RunStep
<1> QED  BY <1>1, <1>2, Inductive, PTL DEF Spec, ImplementsOnceOnly, Service!Spec
=============================================================================
