------------------------- MODULE TaskAttemptProofs -------------------------
(***************************************************************************)
(* Proofs about the attempts of a command: who executes one, and what it   *)
(* may have written when the ledger calls it failed.                       *)
(***************************************************************************)
EXTENDS TaskCreationProofs

\* Attempts: a run of a session without the ledger has none, and an executor's is not
\* ahead of its row.
AttemptInv ==
  \A r \in Runs :
    /\ pc[r] = "idle" => att[r] = 0
    /\ backend = "json" /\ pc[r] \notin Ended => att[r] = 0
    /\ backend = "sqlite" /\ pc[r] \in ExecutionPoints \cup {"markFailed"}
         => att[r] \in 1..ledger[target[r]].attempt

\* No row is behind the attempt that wrote its task.
WrittenInv ==
  \A i \in Ids : ledger[i] # NoRow =>
    \A j \in WithKey(ledger[i].key) : board[j].by <= ledger[i].attempt

\* An attempt that ended in failure is executed by nobody else.
ExecutorInv ==
  backend = "sqlite" =>
    \A r, s \in Runs :
      /\ pc[r] \in ExecutionPoints \cup {"markFailed"} /\ pc[s] \in ExecutionPoints
      /\ target[r] = target[s] /\ att[r] = att[s]
      => r = s

\* A task written by an attempt has the id, key and payload of its row.
WriterInv ==
  \A j \in Ids : Ours(j) /\ board[j].by > 0 => Matches(ledger[j], board[j])

\* An attempt that is still to write, or that failed terminally, wrote nothing.
UnwrittenInv ==
  backend = "sqlite" =>
    \A r \in Runs :
      pc[r] \in {"execute", "create"} \/ (pc[r] = "markFailed" /\ fail[r].kind = "terminal")
        => \A j \in WithKey(Req[r].key) : board[j].by # att[r]

\* Nobody executes the attempt of a terminal row any more.
TerminalInv ==
  backend = "sqlite" =>
    \A r \in Runs :
      pc[r] \in ExecutionPoints /\ ledger[target[r]].status = "failed_terminal"
        => att[r] < ledger[target[r]].attempt

\* What a run is about to store as not applied starts the next attempt.
NotAppliedInv == \A r \in Runs : pc[r] = "markNotApplied" => fail[r].kind = "retryable"

\* The inductive invariant, beside IInv.
AInv == /\ NotAppliedInv /\ AttemptInv /\ WrittenInv /\ ExecutorInv /\ WriterInv
        /\ UnwrittenInv /\ TerminalInv /\ TerminalWroteNothing

-----------------------------------------------------------------------------
(* The three kinds of a run's steps *)

Executing == ExecutionPoints \cup {"markFailed"}

\* begin gives r the next attempt of its row.
Takes(r) ==
  /\ pc[r] = "begin" /\ pc'[r] = "execute" /\ board' = board /\ backend = "sqlite"
  /\ \E i \in Ids :
       /\ i \in RowsFor(Req[r]) /\ Starts(ledger[i], Req[r])
       /\ ledger' = [ledger EXCEPT ![i] = AfterBegin(ledger[i], Req[r])]
       /\ target'[r] = i /\ att'[r] = ledger'[i].attempt

\* r goes on with the attempt it has; it gives up for good when the board shows no task
\* that could be its own.
Works(r) ==
  /\ pc[r] \in ExecutionPoints /\ ledger' = ledger
  /\ target'[r] = target[r] /\ att'[r] = att[r]
  /\ pc'[r] \notin {"idle", "begin", "execute", "markNotApplied"}
  /\ pc'[r] = "create" => pc[r] = "execute" /\ board' = board
  /\ pc'[r] = "markFailed" /\ fail'[r].kind = "terminal"
       => board' = board /\ ~\E j \in Ids : Finds(target[r], Req[r], j)

\* r has no attempt and takes none, unless it has no ledger.
Rests(r) ==
  /\ pc[r] \notin ExecutionPoints \cup Ended
  /\ \/ pc'[r] \notin Executing
     \/ backend = "json" /\ pc'[r] = "execute"
  /\ pc'[r] # "idle"
  /\ pc[r] # "begin" => att'[r] = att[r]
  /\ pc'[r] = "markNotApplied" => fail'[r].kind = "retryable"

LEMMA RunKind ==
  ASSUME TypeOK, SessionInv, NEW r \in Runs, RunStep(r)
  PROVE  Takes(r) \/ Works(r) \/ Rests(r)
<1> USE RunsAssumption
<1>1. /\ pc \in [Runs -> Points] /\ target \in [Runs -> Ids] /\ att \in [Runs -> Nat]
      /\ fail \in [Runs -> Failures] /\ backend \in {"sqlite", "json"}
      /\ ledger \in [Ids -> Rows \cup {NoRow}]
      /\ Req[r] \in Requests /\ RowsFor(Req[r]) \subseteq Ids
  BY RowsForIds DEF TypeOK, LedgerTypeOK
<1>2. backend = "json" => pc[r] # "begin"
  BY DEF SessionInv
<1>3. ASSUME NEW p \in Points, Goto(r, p)
      PROVE  pc'[r] = p
  BY <1>1, <1>3 DEF Goto
<1>4. ASSUME NEW f, GiveUp(r, f)
      PROVE  /\ pc'[r] \in {"markFailed", "failed"} /\ fail'[r] = f
  BY <1>1, <1>4 DEF GiveUp, Goto
<1>5. ASSUME NEW j, NEW c, Succeed(r, j, c)
      PROVE  pc'[r] \in {"markCompleted", "done"}
  BY <1>1, <1>5 DEF Succeed, Goto
<1>6. \A k, e : Failure(k, e).kind = k
  BY DEF Failure
<1>a. CASE Start(r)
  BY <1>1, <1>a DEF Start, Goto, Record, Rests, Executing, ExecutionPoints, Ended
<1>b. CASE BeginStarts(r)
  <2>1. PICK i \in RowsFor(Req[r]) :
              /\ Starts(ledger[i], Req[r])
              /\ ledger' = [ledger EXCEPT ![i] = AfterBegin(ledger[i], Req[r])]
              /\ target' = [target EXCEPT ![r] = i]
              /\ att' = [att EXCEPT ![r] = ledger'[i].attempt]
    BY <1>b DEF BeginStarts, Answered, TakeRecord
  <2>2. i \in Ids /\ target'[r] = i /\ att'[r] = ledger'[i].attempt
    BY <1>1, <2>1
  <2>3. pc[r] = "begin" /\ pc'[r] = "execute" /\ board' = board /\ backend = "sqlite"
    BY <1>1, <1>2, <1>b DEF BeginStarts, Goto
  <2>4. Takes(r)
    BY <2>1, <2>2, <2>3 DEF Takes
  <2> QED  BY <2>4
<1>c. CASE \/ BeginUnknown(r) \/ BeginReplays(r) \/ BeginRefuses(r) \/ BeginInterrupted(r)
  BY <1>1, <1>c DEF BeginUnknown, BeginReplays, BeginRefuses, BeginInterrupted, Goto, Rests,
     Executing, ExecutionPoints, Ended
<1>d. CASE ReconcileApplied(r) \/ ReconcileNotApplied(r) \/ ReconcileThrows(r)
  BY <1>1, <1>6, <1>d DEF ReconcileApplied, ReconcileNotApplied, ReconcileThrows, Goto, Record,
     Rests, Executing, ExecutionPoints, Ended
<1>e. CASE MarkNotApplied(r) \/ MarkCompleted(r) \/ MarkFailed(r)
  BY <1>1, <1>e DEF MarkNotApplied, MarkCompleted, MarkFailed, Goto, Record, Rests,
     Executing, ExecutionPoints, Ended
<1>f. CASE MarkRefused(r) \/ MarkInterrupted(r)
  BY <1>1, <1>f DEF MarkRefused, MarkInterrupted, Goto, Record, Rests,
     Executing, ExecutionPoints, Ended
<1>g. CASE Execute(r)
  <2>0. pc[r] = "execute" /\ ledger' = ledger /\ target' = target /\ att' = att
    BY <1>g DEF Execute, Record
  <2>1. CASE \E j \in Ids : Succeed(r, j, FALSE)
    BY <1>5, <2>0, <2>1 DEF Works, ExecutionPoints
  <2>2. CASE Goto(r, "create") /\ UNCHANGED <<board, queue, Outcome>>
    BY <1>1, <2>0, <2>2 DEF Goto, Works, ExecutionPoints
  <2>3. CASE /\ FindsConflict(target[r], Req[r]) /\ GiveUp(r, Failure("terminal", "conflict"))
             /\ UNCHANGED board
    BY <1>4, <2>0, <2>3 DEF FindsConflict, Works, ExecutionPoints
  <2> QED  BY <1>g, <2>1, <2>2, <2>3 DEF Execute
<1>h. CASE ExecuteThrows(r) \/ RecoverThrows(r)
  <2>1. PICK k \in {"retryable", "unknown"} : GiveUp(r, Failure(k, "error"))
    BY <1>h DEF ExecuteThrows, RecoverThrows
  <2>2. pc'[r] \in {"markFailed", "failed"} /\ fail'[r].kind # "terminal"
    BY <1>4, <1>6, <2>1
  <2> QED
    BY <1>h, <2>2 DEF ExecuteThrows, RecoverThrows, Record, Works, ExecutionPoints
<1>i. CASE Create(r)
  BY <1>1, <1>i DEF Create, Goto, Record, Works, ExecutionPoints
<1>j. CASE CreateExists(r) \/ CreateFails(r) \/ ConfirmThrows(r)
  BY <1>1, <1>j DEF CreateExists, CreateFails, ConfirmThrows, CreateThrows, Goto, Record, Works,
     ExecutionPoints
<1>k. CASE Confirm(r)
  BY <1>5, <1>k DEF Confirm, Record, Works, ExecutionPoints
<1>l. CASE Recover(r)
  <2>0. pc[r] = "recover" /\ ledger' = ledger /\ target' = target /\ att' = att
    BY <1>l DEF Recover, Record
  <2>1. CASE \E j \in Ids : Succeed(r, j, TRUE)
    BY <1>5, <2>0, <2>1 DEF Works, ExecutionPoints
  <2>2. CASE FindsNone(target[r], Req[r]) /\ GiveUp(r, fail[r]) /\ UNCHANGED board
    <3>1. ~\E j \in Ids : Finds(target[r], Req[r], j)
      BY <2>2 DEF FindsNone, Finds
    <3> QED  BY <1>4, <2>0, <2>2, <3>1 DEF Works, ExecutionPoints
  <2>3. CASE /\ FindsConflict(target[r], Req[r]) /\ GiveUp(r, Failure("terminal", "conflict"))
             /\ UNCHANGED board
    BY <1>4, <2>0, <2>3 DEF FindsConflict, Works, ExecutionPoints
  <2> QED  BY <1>l, <2>1, <2>2, <2>3 DEF Recover
<1> QED
  BY <1>a, <1>b, <1>c, <1>d, <1>e, <1>f, <1>g, <1>h, <1>i, <1>j, <1>k, <1>l
  DEF RunStep, CodeStep, Throw

-----------------------------------------------------------------------------
(* Attempts and rows *)

\* Attempts only grow, a new row is one for r's key, and a row becomes terminal only by
\* the failure of the attempt r has given up for good.
RowsGrow(r) ==
  \A i \in Ids :
    /\ ledger'[i].attempt >= ledger[i].attempt
    /\ ledger[i] = NoRow /\ ledger'[i] # NoRow
         => ledger'[i].key = Req[r].key /\ i \in RowsFor(Req[r])
    /\ ledger'[i].status = "failed_terminal"
         => \/ ledger'[i].attempt = ledger[i].attempt /\ ledger[i].status = "failed_terminal"
            \/ /\ pc[r] = "markFailed" /\ fail[r].kind = "terminal" /\ i = target[r]
               /\ ledger[i].attempt = att[r] /\ ledger'[i].attempt = att[r]

LEMMA RowGrows ==
  ASSUME TypeOK, NotAppliedInv, NEW r \in Runs, NEW i \in Ids, NEW new \in Rows,
         RowEffect(r, i, new)
  PROVE  /\ new.attempt >= ledger[i].attempt
         /\ new.status = "failed_terminal"
              => \/ new = ledger[i]
                 \/ /\ pc[r] = "markFailed" /\ fail[r].kind = "terminal" /\ i = target[r]
                    /\ ledger[i].attempt = att[r] /\ new.attempt = att[r]
<1>1. /\ ledger[i] \in Rows \cup {NoRow} /\ fail[r] \in Failures
      /\ ledger[i].attempt \in Nat
  BY DEF TypeOK, LedgerTypeOK, Rows, NoRow
<1>2. CASE new = AfterBegin(ledger[i], Req[r])
  <2>1. CASE Starts(ledger[i], Req[r])
    BY <1>1, <1>2, <2>1 DEF AfterBegin, NextAttempt
  <2>2. CASE ~Starts(ledger[i], Req[r]) /\ Fences(ledger[i], Req[r])
    BY <1>1, <1>2, <2>2 DEF AfterBegin, Rows, NoRow
  <2>3. CASE ~Starts(ledger[i], Req[r]) /\ ~Fences(ledger[i], Req[r])
    BY <1>1, <1>2, <2>3 DEF AfterBegin
  <2> QED  BY <2>1, <2>2, <2>3
<1>3. CASE new = AfterCompletion(ledger[i], res[r])
  BY <1>1, <1>3 DEF AfterCompletion, Rows, NoRow
<1>4. CASE /\ pc[r] \in {"markFailed", "markNotApplied"} /\ i = target[r]
           /\ AcceptsFailure(ledger[i], att[r], fail[r])
           /\ new = AfterFailure(ledger[i], fail[r])
  <2>1. /\ ledger[i].attempt = att[r] /\ new.attempt = att[r]
        /\ new.status = StatusForFailure(fail[r].kind)
    BY <1>1, <1>4 DEF AcceptsFailure, AfterFailure, Rows, NoRow
  <2>2. new.status = "failed_terminal" => fail[r].kind = "terminal"
    BY <1>1, <2>1 DEF StatusForFailure, Failures
  <2>3. pc[r] = "markNotApplied" => fail[r].kind = "retryable"
    BY DEF NotAppliedInv
  <2> QED  BY <1>1, <1>4, <2>1, <2>2, <2>3
<1> QED  BY <1>2, <1>3, <1>4 DEF RowEffect

LEMMA LedgerGrows ==
  ASSUME TypeOK, FormInv, NotAppliedInv, NEW r \in Runs, LedgerEffect(r)
  PROVE  RowsGrow(r)
<1>1. ledger \in [Ids -> Rows \cup {NoRow}] /\ \A i \in Ids : ledger[i].attempt \in Nat
  BY DEF TypeOK, LedgerTypeOK, Rows, NoRow
<1>2. CASE ledger' = ledger
  BY <1>1, <1>2 DEF RowsGrow
<1>3. ASSUME NEW i \in Ids, NEW new \in Rows, RowEffect(r, i, new),
             ledger' = [ledger EXCEPT ![i] = new]
      PROVE  RowsGrow(r)
  <2>1. /\ new.attempt >= ledger[i].attempt
        /\ new.status = "failed_terminal"
              => \/ new = ledger[i]
                 \/ /\ pc[r] = "markFailed" /\ fail[r].kind = "terminal" /\ i = target[r]
                    /\ ledger[i].attempt = att[r] /\ new.attempt = att[r]
    BY <1>3, RowGrows
  <2>2. ledger[i] = NoRow => new.key = Req[r].key /\ i \in RowsFor(Req[r])
    BY <1>3, RowKept
  <2>3. ledger'[i] = new /\ \A j \in Ids \ {i} : ledger'[j] = ledger[j]
    BY <1>1, <1>3
  <2> QED  BY <1>1, <2>1, <2>2, <2>3 DEF RowsGrow
<1> QED  BY <1>2, <1>3 DEF LedgerEffect

LEMMA TaskTypes ==
  ASSUME TypeOK, NEW j \in Ids, Ours(j)
  PROVE  board[j] \in Tasks /\ board[j].by \in Nat
<1>1. board[j] \in Tasks \cup {NoTask, ForeignTask}
  BY DEF TypeOK
<1>2. board[j] \in Tasks
  BY <1>1 DEF Ours, NoTask, ForeignTask
<1> QED  BY <1>2 DEF Tasks

\* No task was written by an attempt of a command that has no row.
LEMMA NoRowNoTask ==
  ASSUME IInv, WriterInv, NEW q \in Requests, NEW i \in RowsFor(q), ledger[i] = NoRow,
         NEW j \in WithKey(q.key)
  PROVE  board[j].by = 0
<1>a. j \in Ids /\ Ours(j) /\ board[j].key = q.key
  BY DEF WithKey
<1>b. i \in Ids /\ q.key \in Keys
  BY RowsForIds DEF Requests
<1>c. board[j].by \in Nat
  BY <1>a, TaskTypes DEF IInv
<1>1. /\ j \in Ids /\ Ours(j) /\ board[j].key = q.key /\ board[j].by \in Nat
      /\ i \in Ids /\ q.key \in Keys
  BY <1>a, <1>b, <1>c
<1>2. SUFFICES ASSUME board[j].by > 0 PROVE FALSE
  BY <1>1
<1>3. ledger[j].key = q.key
  BY <1>1, <1>2 DEF WriterInv, Matches
<1>4. ledger[i].key # q.key
  BY <1>1, LedgerAssumption DEF NoRow
<1> QED  BY <1>1, <1>3, <1>4 DEF RowsFor

-----------------------------------------------------------------------------
(* Tasks and the attempts that wrote them *)

\* A session with the ledger: r's row while it executes or stores its failure.
LEMMA RowOfRun ==
  ASSUME IInv, AttemptInv, NEW r \in Runs, backend = "sqlite", pc[r] \in Executing
  PROVE  /\ target[r] \in Ids /\ ledger[target[r]] \in Rows
         /\ ledger[target[r]].key = Req[r].key /\ ledger[target[r]].payload = Req[r].payload
         /\ att[r] \in Nat /\ att[r] > 0 /\ att[r] <= ledger[target[r]].attempt
         /\ ledger[target[r]].attempt \in Nat
<1>1. /\ target[r] \in Ids /\ Req[r] \in Requests /\ att[r] \in Nat
      /\ ledger[target[r]] \in Rows \cup {NoRow}
  BY RunsAssumption DEF IInv, TypeOK, LedgerTypeOK
<1>2. Matches(ledger[target[r]], Req[r])
  BY DEF IInv, TargetInv, Executing, LedgerPoints
<1>3. ledger[target[r]] # NoRow
  BY <1>1, <1>2, LedgerAssumption DEF Matches, Requests, NoRow
<1>4. ledger[target[r]] \in Rows /\ ledger[target[r]].attempt \in Nat
  BY <1>1, <1>3 DEF Rows
<1>5. att[r] \in 1 .. ledger[target[r]].attempt
  BY DEF AttemptInv, Executing
<1> QED  BY <1>1, <1>2, <1>4, <1>5 DEF Matches

\* What r's create writes, whether or not the application dies in it.
LEMMA Added ==
  ASSUME IInv, AttemptInv, NEW r \in Runs, BoardKept, AddedBy(r), LedgerKept,
         NEW j \in Ids, board'[j].owner = "app", ~Ours(j)
  PROVE  /\ pc[r] = "create" /\ j = target[r] /\ board'[j].by = att[r]
         /\ board'[j].key = Req[r].key /\ board'[j].payload = Req[r].payload
         /\ \/ board'[j].by = 0
            \/ /\ backend = "sqlite" /\ ledger[j] \in Rows
               /\ ledger[j].key = Req[r].key /\ ledger[j].payload = Req[r].payload
               /\ att[r] <= ledger[j].attempt
<1>1. /\ pc[r] = "create" /\ j = target[r] /\ board'[j].by = att[r]
      /\ board'[j].key = Req[r].key /\ board'[j].payload = Req[r].payload
  BY DEF AddedBy
<1>2. CASE backend = "sqlite"
  BY <1>1, <1>2, RowOfRun DEF Executing, ExecutionPoints
<1>3. CASE backend = "json"
  BY <1>1, <1>3 DEF AttemptInv, Ended
<1> QED  BY <1>1, <1>2, <1>3 DEF IInv, TypeOK

LEMMA KeptWriter ==
  ASSUME IInv, AInv, NEW r \in Runs, BoardKept, AddedBy(r), LedgerKept
  PROVE  WriterInv'
<1>1. SUFFICES ASSUME NEW j \in Ids, board'[j].owner = "app", board'[j].by > 0
               PROVE  ledger'[j].key = board'[j].key /\ ledger'[j].payload = board'[j].payload
  BY DEF WriterInv, Ours, Matches
<1>2. CASE Ours(j)
  <2>1. /\ board'[j].by = board[j].by /\ board'[j].key = board[j].key
        /\ board'[j].payload = board[j].payload
    BY <1>2 DEF BoardKept
  <2>2. ledger[j].key = board[j].key /\ ledger[j].payload = board[j].payload
    BY <1>1, <1>2, <2>1 DEF AInv, WriterInv, Matches
  <2>3. board[j].key \in Keys
    BY <1>2, TaskTypes DEF IInv, Tasks
  <2>4. ledger[j] # NoRow
    BY <2>2, <2>3, LedgerAssumption DEF NoRow
  <2> QED  BY <2>1, <2>2, <2>4 DEF LedgerKept
<1>3. CASE ~Ours(j)
  <2>1. /\ board'[j].key = Req[r].key /\ board'[j].payload = Req[r].payload
        /\ board'[j].by # 0
    BY <1>1, <1>3, Added DEF AInv
  <2>2. /\ ledger[j] \in Rows
        /\ ledger[j].key = Req[r].key /\ ledger[j].payload = Req[r].payload
    BY <1>1, <1>3, <2>1, Added DEF AInv
  <2>3. ledger[j] # NoRow
    BY <2>2 DEF Rows, NoRow
  <2> QED  BY <2>1, <2>2, <2>3 DEF LedgerKept
<1> QED  BY <1>2, <1>3

\* No row is behind the attempt that wrote its task.
LEMMA KeptWritten ==
  ASSUME IInv, AInv, NEW r \in Runs, BoardKept, AddedBy(r), LedgerKept, RowsGrow(r),
         NEW i \in Ids, ledger'[i] # NoRow, NEW j \in Ids,
         board'[j].owner = "app", board'[j].key = ledger'[i].key
  PROVE  board'[j].by <= ledger'[i].attempt
<1>1. /\ ledger[i].attempt \in Nat /\ ledger'[i].attempt \in Nat
      /\ ledger'[i].attempt >= ledger[i].attempt
  <2>1. ledger[i] \in Rows \cup {NoRow} /\ ledger'[i] \in Rows \cup {NoRow}
    BY DEF IInv, TypeOK, LedgerTypeOK, LedgerKept
  <2>2. \A row \in Rows \cup {NoRow} : row.attempt \in Nat
    BY DEF Rows, NoRow
  <2> QED  BY <2>1, <2>2 DEF RowsGrow
<1>2. CASE Ours(j)
  <2>1. board'[j].by = board[j].by /\ board'[j].key = board[j].key /\ board[j].by \in Nat
    BY <1>2, TaskTypes DEF BoardKept, IInv
  <2>2. CASE ledger[i] # NoRow
    <3>1. j \in WithKey(ledger[i].key)
      BY <1>2, <2>1, <2>2 DEF WithKey, LedgerKept
    <3>2. board[j].by <= ledger[i].attempt
      BY <2>2, <3>1 DEF AInv, WrittenInv
    <3> QED  BY <1>1, <2>1, <3>2
  <2>3. CASE ledger[i] = NoRow
    <3>1. ledger'[i].key = Req[r].key /\ i \in RowsFor(Req[r]) /\ Req[r] \in Requests
      BY <2>3, RunsAssumption DEF RowsGrow
    <3>2. j \in WithKey(Req[r].key)
      BY <1>2, <2>1, <3>1 DEF WithKey
    <3>3. board[j].by = 0
      BY <2>3, <3>1, <3>2, NoRowNoTask DEF AInv
    <3> QED  BY <1>1, <2>1, <3>3
  <2> QED  BY <2>2, <2>3
<1>3. CASE ~Ours(j)
  <2>1. CASE board'[j].by = 0
    BY <1>1, <2>1
  <2>2. CASE board'[j].by # 0
    <3>1. /\ ledger[j] \in Rows /\ ledger[j].key = Req[r].key /\ board'[j].by = att[r]
          /\ att[r] <= ledger[j].attempt /\ board'[j].key = Req[r].key /\ att[r] \in Nat
      BY <1>3, <2>2, Added DEF AInv, IInv, TypeOK
    <3>2. ledger[j] # NoRow
      BY <3>1 DEF Rows, NoRow
    <3>3. ledger'[j].key = ledger'[i].key
      BY <3>1, <3>2 DEF LedgerKept
    <3>4. i = j
      BY <3>3 DEF LedgerKept, RowsInv
    <3> QED  BY <1>1, <3>1, <3>4
  <2> QED  BY <2>1, <2>2
<1> QED  BY <1>2, <1>3

LEMMA KeptTerminalWrote ==
  ASSUME IInv, AInv, NEW r \in Runs, BoardKept, AddedBy(r), LedgerKept, RowsGrow(r)
  PROVE  TerminalWroteNothing'
<1>1. SUFFICES ASSUME NEW i \in Ids, NEW j \in Ids, ledger'[i].status = "failed_terminal",
                      board'[j].owner = "app", board'[j].key = ledger'[i].key
               PROVE  board'[j].by < ledger'[i].attempt
  BY DEF TerminalWroteNothing, WithKey, Ours
<1>2. ASSUME ledger'[i].attempt = ledger[i].attempt, ledger[i].status = "failed_terminal"
      PROVE  board'[j].by < ledger'[i].attempt
  <2>1. ledger[i] # NoRow /\ ledger'[i].key = ledger[i].key
    BY <1>2 DEF NoRow, LedgerKept
  <2>2. ledger[i] \in Rows /\ ledger[i].attempt \in Nat \ {0}
    BY <2>1 DEF IInv, TypeOK, LedgerTypeOK, Rows
  <2>3. CASE Ours(j)
    <3>1. board'[j].by = board[j].by /\ j \in WithKey(ledger[i].key)
      BY <1>1, <2>1, <2>3 DEF BoardKept, WithKey
    <3> QED  BY <1>2, <3>1 DEF AInv, TerminalWroteNothing
  <2>4. CASE ~Ours(j)
    <3>1. CASE board'[j].by = 0
      BY <1>2, <2>2, <3>1
    <3>2. CASE board'[j].by # 0
      <4>1. /\ pc[r] = "create" /\ j = target[r] /\ backend = "sqlite"
            /\ ledger[j] \in Rows /\ ledger[j].key = Req[r].key /\ board'[j].by = att[r]
            /\ board'[j].key = Req[r].key
        BY <1>1, <2>4, <3>2, Added DEF AInv
      <4>2. i = j
        BY <1>1, <2>1, <4>1 DEF IInv, RowsInv
      <4>3. att[r] < ledger[j].attempt
        BY <1>2, <4>1, <4>2 DEF AInv, TerminalInv, ExecutionPoints
      <4> QED  BY <1>2, <4>1, <4>2, <4>3
    <3> QED  BY <3>1, <3>2
  <2> QED  BY <2>3, <2>4
<1>3. ASSUME pc[r] = "markFailed", fail[r].kind = "terminal", i = target[r],
             ledger[i].attempt = att[r], ledger'[i].attempt = att[r]
      PROVE  board'[j].by < ledger'[i].attempt
  <2>1. backend = "sqlite"
    BY <1>3 DEF IInv, SessionInv, TypeOK, LedgerPoints
  <2>2. ledger[i] \in Rows /\ ledger[i].key = Req[r].key /\ att[r] \in Nat
    BY <1>3, <2>1, RowOfRun DEF AInv, Executing
  <2>3. ledger[i] # NoRow
    BY <2>2 DEF Rows, NoRow
  <2>4. Ours(j)
    BY <1>1, <1>3, Added DEF AInv
  <2>5. /\ board'[j].by = board[j].by /\ board[j].by \in Nat
        /\ j \in WithKey(ledger[i].key) /\ j \in WithKey(Req[r].key)
    BY <1>1, <2>2, <2>3, <2>4, TaskTypes DEF BoardKept, WithKey, IInv, LedgerKept
  <2>6. board[j].by <= ledger[i].attempt
    BY <2>3, <2>5 DEF AInv, WrittenInv
  <2>7. board[j].by # att[r]
    BY <1>3, <2>1, <2>5 DEF AInv, UnwrittenInv
  <2> QED  BY <1>3, <2>2, <2>5, <2>6, <2>7
<1> QED  BY <1>1, <1>2, <1>3 DEF RowsGrow

-----------------------------------------------------------------------------
(* The invariant is kept by the steps of a run *)

LEMMA TakesNext ==
  ASSUME IInv, NEW r \in Runs, Takes(r)
  PROVE  /\ target'[r] \in Ids /\ target'[r] \in RowsFor(Req[r]) /\ Req[r] \in Requests
         /\ att'[r] \in Nat /\ att'[r] > 0 /\ ledger'[target'[r]].attempt = att'[r]
         /\ ledger'[target'[r]].status = "started"
         /\ ledger[target'[r]] # NoRow
              => /\ ledger[target'[r]].key = Req[r].key
                 /\ ledger[target'[r]].attempt < att'[r]
<1>1. PICK i \in Ids :
        /\ i \in RowsFor(Req[r]) /\ Starts(ledger[i], Req[r])
        /\ ledger' = [ledger EXCEPT ![i] = AfterBegin(ledger[i], Req[r])]
        /\ target'[r] = i /\ att'[r] = ledger'[i].attempt
  BY DEF Takes
<1>2. ledger \in [Ids -> Rows \cup {NoRow}] /\ Req[r] \in Requests
  BY RunsAssumption DEF IInv, TypeOK, LedgerTypeOK
<1>3. /\ ledger'[i].attempt = ledger[i].attempt + 1 /\ ledger'[i].status = "started"
      /\ ledger[i].attempt \in Nat
  BY <1>1, <1>2 DEF AfterBegin, NextAttempt, Rows, NoRow
<1>4. ledger[i] # NoRow => ledger[i].key = Req[r].key
  BY <1>1 DEF Starts, Matches
<1> QED  BY <1>1, <1>2, <1>3, <1>4

LEMMA KeptAttempt ==
  ASSUME IInv, AInv, NEW r \in Runs, Frame(r), RowsGrow(r), LedgerKept,
         Takes(r) \/ Works(r) \/ Rests(r)
  PROVE  AttemptInv' /\ NotAppliedInv'
<1>1. ASSUME NEW s \in Runs, s # r
      PROVE  /\ pc'[s] = "idle" => att'[s] = 0
             /\ backend' = "json" /\ pc'[s] \notin Ended => att'[s] = 0
             /\ pc'[s] = "markNotApplied" => fail'[s].kind = "retryable"
  BY <1>1 DEF Frame, AInv, AttemptInv, NotAppliedInv
<1>2. /\ pc'[r] = "idle" => att'[r] = 0
      /\ backend' = "json" /\ pc'[r] \notin Ended => att'[r] = 0
      /\ pc'[r] = "markNotApplied" => fail'[r].kind = "retryable"
  <2>1. CASE Takes(r)
    BY <2>1 DEF Takes, Frame
  <2>2. CASE Works(r)
    BY <2>2 DEF Works, Frame, AInv, AttemptInv, ExecutionPoints, Ended
  <2>3. CASE Rests(r)
    BY <2>3 DEF Rests, Frame, AInv, AttemptInv, IInv, SessionInv
  <2> QED  BY <2>1, <2>2, <2>3
<1>3. ASSUME NEW s \in Runs, backend' = "sqlite", pc'[s] \in Executing
      PROVE  att'[s] \in 1 .. ledger'[target'[s]].attempt
  <2>0. backend = "sqlite"
    BY <1>3 DEF Frame
  <2>1. ASSUME pc[s] \in Executing, target'[s] = target[s], att'[s] = att[s]
        PROVE  att'[s] \in 1 .. ledger'[target'[s]].attempt
    <3>1. /\ target[s] \in Ids /\ att[s] \in Nat /\ att[s] > 0
          /\ att[s] <= ledger[target[s]].attempt /\ ledger[target[s]].attempt \in Nat
      BY <2>0, <2>1, RowOfRun DEF AInv
    <3>2. ledger'[target[s]].attempt >= ledger[target[s]].attempt
      BY <3>1 DEF RowsGrow
    <3>3. ledger'[target[s]].attempt \in Nat
      <4>1. ledger'[target[s]] \in Rows \cup {NoRow}
        BY <3>1 DEF LedgerKept
      <4> QED  BY <4>1 DEF Rows, NoRow
    <3> QED  BY <2>1, <3>1, <3>2, <3>3
  <2>2. CASE s # r
    BY <1>3, <2>1, <2>2 DEF Frame
  <2>3. CASE s = r
    <3>1. CASE Takes(r)
      BY <2>3, <3>1, TakesNext
    <3>2. CASE Works(r)
      BY <2>1, <2>3, <3>2 DEF Works, Executing
    <3>3. CASE Rests(r)
      BY <1>3, <2>0, <2>3, <3>3 DEF Rests
    <3> QED  BY <3>1, <3>2, <3>3
  <2> QED  BY <2>2, <2>3
<1> QED  BY <1>1, <1>2, <1>3 DEF AttemptInv, NotAppliedInv, Executing

LEMMA KeptExecutor ==
  ASSUME IInv, AInv, NEW r \in Runs, Frame(r), Takes(r) \/ Works(r) \/ Rests(r)
  PROVE  ExecutorInv'
<1>1. SUFFICES ASSUME NEW s \in Runs, NEW t \in Runs, backend = "sqlite", s # t,
                      pc'[s] \in Executing, pc'[t] \in ExecutionPoints,
                      target'[s] = target'[t], att'[s] = att'[t]
               PROVE  FALSE
  BY DEF ExecutorInv, Frame, Executing
<1>2. ASSUME pc[s] \in Executing, pc[t] \in ExecutionPoints,
             target'[s] = target[s], att'[s] = att[s],
             target'[t] = target[t], att'[t] = att[t]
      PROVE  FALSE
  BY <1>1, <1>2 DEF AInv, ExecutorInv, Executing
<1>3. CASE Takes(r)
  <2>1. ASSUME NEW u \in Runs, u # r, pc'[u] \in Executing, target'[u] = target'[r],
               att'[u] = att'[r]
        PROVE  FALSE
    <3>1. pc[u] \in Executing /\ target[u] = target'[r] /\ att[u] = att'[r]
      BY <2>1 DEF Frame
    <3>2. /\ ledger[target[u]] \in Rows /\ att[u] \in Nat
          /\ att[u] <= ledger[target[u]].attempt /\ ledger[target[u]].attempt \in Nat
      BY <1>1, <3>1, RowOfRun DEF AInv
    <3>3. ledger[target[u]] # NoRow
      BY <3>2 DEF Rows, NoRow
    <3> QED  BY <1>3, <3>1, <3>2, <3>3, TakesNext
  <2>2. s # r /\ t # r
    BY <1>1, <2>1 DEF Executing
  <2> QED  BY <1>1, <1>2, <2>2 DEF Frame
<1>4. CASE Works(r)
  BY <1>1, <1>2, <1>4 DEF Works, Frame, Executing
<1>5. CASE Rests(r)
  <2>1. s # r /\ t # r
    BY <1>1, <1>5 DEF Rests, Executing
  <2> QED  BY <1>1, <1>2, <2>1 DEF Frame
<1> QED  BY <1>3, <1>4, <1>5

LEMMA KeptTerminal ==
  ASSUME IInv, AInv, NEW r \in Runs, Frame(r), RowsGrow(r),
         Takes(r) \/ Works(r) \/ Rests(r)
  PROVE  TerminalInv'
<1>1. SUFFICES ASSUME NEW s \in Runs, backend = "sqlite", pc'[s] \in ExecutionPoints,
                      ledger'[target'[s]].status = "failed_terminal"
               PROVE  att'[s] < ledger'[target'[s]].attempt
  BY DEF TerminalInv, Frame
<1>2. /\ pc[s] \in ExecutionPoints /\ target'[s] = target[s] /\ att'[s] = att[s]
      /\ s = r => Works(r)
  <2>1. CASE s # r
    BY <1>1, <2>1 DEF Frame
  <2>2. CASE s = r
    <3>1. ~Takes(r)
      BY <1>1, <2>2, TakesNext
    <3>2. ~Rests(r)
      BY <1>1, <2>2 DEF Rests, Executing
    <3> QED  BY <2>2, <3>1, <3>2 DEF Works
  <2> QED  BY <2>1, <2>2
<1>3. /\ target[s] \in Ids /\ att[s] \in Nat /\ att[s] <= ledger[target[s]].attempt
  BY <1>1, <1>2, RowOfRun DEF AInv, Executing
<1>4. CASE /\ ledger'[target[s]].attempt = ledger[target[s]].attempt
           /\ ledger[target[s]].status = "failed_terminal"
  BY <1>1, <1>2, <1>4 DEF AInv, TerminalInv
<1>5. CASE /\ pc[r] = "markFailed" /\ target[s] = target[r]
           /\ ledger[target[s]].attempt = att[r] /\ ledger'[target[s]].attempt = att[r]
  <2>1. s # r
    BY <1>2, <1>5 DEF ExecutionPoints
  <2>2. att[s] # att[r]
    BY <1>1, <1>2, <1>5, <2>1 DEF AInv, ExecutorInv
  <2>3. att[r] \in Nat
    BY DEF IInv, TypeOK
  <2> QED  BY <1>2, <1>3, <1>5, <2>2, <2>3
<1> QED  BY <1>1, <1>2, <1>3, <1>4, <1>5 DEF RowsGrow

\* An executor whose attempt wrote its task finds it, alone and its own.
LEMMA OwnIsFound ==
  ASSUME IInv, AInv, NEW r \in Runs, backend = "sqlite", pc[r] \in Executing,
         NEW j \in WithKey(Req[r].key), board[j].by = att[r]
  PROVE  Finds(target[r], Req[r], j)
<1>1. j \in Ids /\ Ours(j) /\ board[j].key = Req[r].key
  BY DEF WithKey
<1>2. /\ target[r] \in Ids /\ ledger[target[r]] \in Rows
      /\ ledger[target[r]].key = Req[r].key /\ ledger[target[r]].payload = Req[r].payload
      /\ att[r] > 0
  BY RowOfRun DEF AInv
<1>3. ledger[j].key = board[j].key /\ ledger[j].payload = board[j].payload
  BY <1>1, <1>2 DEF AInv, WriterInv, Matches
<1>4. ledger[target[r]] # NoRow
  BY <1>2 DEF Rows, NoRow
<1>5. j = target[r]
  BY <1>1, <1>2, <1>3, <1>4 DEF IInv, RowsInv
<1>6. WithKey(Req[r].key) = {j}
  BY <1>1 DEF IInv, OneTaskPerKey, WithKey
<1>7. board[j] # NoTask
  BY <1>1 DEF Ours, NoTask
<1>8. Candidates(target[r], Req[r].key) = {j}
  BY <1>1, <1>5, <1>6, <1>7 DEF Candidates
<1> QED  BY <1>1, <1>2, <1>3, <1>5, <1>8 DEF Finds, Reconcilable, Matches

LEMMA KeptUnwritten ==
  ASSUME IInv, AInv, NEW r \in Runs, Frame(r), BoardKept, AddedBy(r), LedgerKept,
         Takes(r) \/ Works(r) \/ Rests(r)
  PROVE  UnwrittenInv'
<1>1. SUFFICES ASSUME NEW s \in Runs, NEW j \in Ids, backend = "sqlite",
                      \/ pc'[s] \in {"execute", "create"}
                      \/ pc'[s] = "markFailed" /\ fail'[s].kind = "terminal",
                      board'[j].owner = "app", board'[j].key = Req[s].key
               PROVE  board'[j].by # att'[s]
  BY DEF UnwrittenInv, Frame, WithKey, Ours
<1>2. pc'[s] \in Executing
  BY <1>1 DEF Executing, ExecutionPoints
<1>3. Ours(j) => j \in WithKey(Req[s].key) /\ board'[j].by = board[j].by
  BY <1>1 DEF BoardKept, WithKey
<1>4. CASE s # r
  <2>1. pc'[s] = pc[s] /\ fail'[s] = fail[s] /\ att'[s] = att[s]
    BY <1>4 DEF Frame
  <2>2. CASE Ours(j)
    BY <1>1, <1>3, <2>1, <2>2 DEF AInv, UnwrittenInv
  <2>3. CASE ~Ours(j)
    <3>1. /\ target[s] \in Ids /\ ledger[target[s]] \in Rows
          /\ ledger[target[s]].key = Req[s].key /\ att[s] \in Nat /\ att[s] > 0
      BY <1>1, <1>2, <2>1, RowOfRun DEF AInv
    <3>2. CASE board'[j].by = 0
      BY <2>1, <3>1, <3>2
    <3>3. CASE board'[j].by # 0
      <4>1. /\ pc[r] = "create" /\ j = target[r] /\ board'[j].by = att[r]
            /\ ledger[j].key = Req[r].key /\ board'[j].key = Req[r].key
        BY <1>1, <2>3, <3>3, Added DEF AInv
      <4>2. ledger[target[s]] # NoRow
        BY <3>1 DEF Rows, NoRow
      <4>3. target[s] = target[r]
        BY <1>1, <3>1, <4>1, <4>2 DEF IInv, RowsInv
      <4>4. att[s] # att[r]
        BY <1>1, <1>2, <1>4, <2>1, <4>1, <4>3 DEF AInv, ExecutorInv, Executing, ExecutionPoints
      <4> QED  BY <2>1, <4>1, <4>4
    <3> QED  BY <3>2, <3>3
  <2> QED  BY <2>2, <2>3
<1>5. CASE s = r
  <2>1. CASE Takes(r)
    <3>1. board' = board /\ Ours(j) /\ j \in WithKey(Req[r].key)
      BY <1>1, <1>3, <1>5, <2>1 DEF Takes, Ours
    <3>2. /\ target'[r] \in Ids /\ target'[r] \in RowsFor(Req[r]) /\ Req[r] \in Requests
          /\ att'[r] \in Nat /\ att'[r] > 0
          /\ ledger[target'[r]] # NoRow
               => /\ ledger[target'[r]].key = Req[r].key
                  /\ ledger[target'[r]].attempt < att'[r]
      BY <2>1, TakesNext
    <3>3. CASE ledger[target'[r]] = NoRow
      <4>1. board[j].by = 0
        BY <3>1, <3>2, <3>3, NoRowNoTask DEF AInv
      <4> QED  BY <1>5, <3>1, <3>2, <4>1
    <3>4. CASE ledger[target'[r]] # NoRow
      <4>1. board[j].by <= ledger[target'[r]].attempt
        BY <3>1, <3>2, <3>4 DEF AInv, WrittenInv
      <4>2. board[j].by \in Nat /\ ledger[target'[r]].attempt \in Nat
        <5>1. ledger[target'[r]] \in Rows
          BY <3>2, <3>4 DEF IInv, TypeOK, LedgerTypeOK
        <5> QED  BY <3>1, <5>1, TaskTypes DEF IInv, Rows
      <4> QED  BY <1>5, <3>1, <3>2, <3>4, <4>1, <4>2
    <3> QED  BY <3>3, <3>4
  <2>2. CASE Works(r)
    <3>1. CASE pc'[r] = "create"
      <4>1. pc[r] = "execute" /\ board' = board /\ att'[r] = att[r]
        BY <2>2, <3>1 DEF Works
      <4> QED  BY <1>1, <1>3, <1>5, <4>1 DEF AInv, UnwrittenInv, Ours
    <3>2. CASE pc'[r] = "markFailed" /\ fail'[r].kind = "terminal"
      <4>1. /\ board' = board /\ att'[r] = att[r] /\ pc[r] \in Executing
            /\ ~\E m \in Ids : Finds(target[r], Req[r], m)
        BY <2>2, <3>2 DEF Works, Executing
      <4>2. j \in WithKey(Req[r].key)
        BY <1>1, <1>3, <1>5, <4>1 DEF Ours
      <4> QED  BY <1>1, <1>5, <4>1, <4>2, OwnIsFound
    <3> QED  BY <1>1, <1>5, <2>2, <3>1, <3>2 DEF Works
  <2>3. CASE Rests(r)
    BY <1>1, <1>2, <1>5, <2>3 DEF Rests
  <2> QED  BY <2>1, <2>2, <2>3
<1> QED  BY <1>4, <1>5

LEMMA RunKeepsAInv ==
  ASSUME IInv, AInv, NEW r \in Runs, RunStep(r)
  PROVE  AInv'
<1>0. TypeOK /\ SessionInv /\ RowsInv /\ FormInv /\ NotAppliedInv
  BY DEF IInv, AInv
<1>1. Frame(r) /\ LedgerEffect(r) /\ BoardEffect(r)
  BY <1>0, RunEffect DEF Effect
<1>2. LedgerKept /\ BoardKept /\ AddedBy(r) /\ RowsGrow(r)
  BY <1>0, <1>1, RunKeepsLedger, RunKeepsBoard, LedgerGrows
<1>3. Takes(r) \/ Works(r) \/ Rests(r)
  BY <1>0, RunKind
<1>4. AttemptInv' /\ NotAppliedInv'
  BY <1>1, <1>2, <1>3, KeptAttempt
<1>5. ExecutorInv' /\ TerminalInv'
  BY <1>1, <1>2, <1>3, KeptExecutor, KeptTerminal
<1>6. UnwrittenInv'
  BY <1>1, <1>2, <1>3, KeptUnwritten
<1>7. WriterInv' /\ TerminalWroteNothing'
  BY <1>2, KeptWriter, KeptTerminalWrote
<1>8. WrittenInv'
  BY <1>2, KeptWritten DEF WrittenInv, WithKey, Ours
<1> QED  BY <1>4, <1>5, <1>6, <1>7, <1>8 DEF AInv

-----------------------------------------------------------------------------
(* And by the steps of the environment *)

LEMMA OutsideKeepsAttempts ==
  ASSUME IInv, AInv, Outside
  PROVE  AttemptInv' /\ NotAppliedInv' /\ ExecutorInv' /\ TerminalInv'
<1>1. /\ \A s \in Runs : /\ pc'[s] \in {pc[s], "failed"}
                         /\ backend' # backend => pc'[s] \in {"idle"} \cup Ended
      /\ \A s \in Runs : target'[s] = target[s] /\ att'[s] = att[s] /\ fail'[s] = fail[s]
      /\ \A s \in Runs : target[s] \in Ids
  BY DEF Outside, IInv, TypeOK, Ended
<1>2. /\ \A i \in Ids : /\ ledger'[i].attempt = ledger[i].attempt
                        /\ ledger'[i].status = ledger[i].status
  BY DEF Outside
<1>3. AttemptInv'
  BY <1>1, <1>2 DEF AInv, AttemptInv, Ended, ExecutionPoints
<1>4. NotAppliedInv'
  BY <1>1 DEF AInv, NotAppliedInv
<1>5. ExecutorInv'
  BY <1>1 DEF AInv, ExecutorInv, Ended, ExecutionPoints
<1>6. TerminalInv'
  BY <1>1, <1>2 DEF AInv, TerminalInv, Ended, ExecutionPoints
<1> QED  BY <1>3, <1>4, <1>5, <1>6

LEMMA EnvironmentKeepsAInv ==
  ASSUME IInv, AInv,
         \/ TimePasses \/ Crash \/ \E i \in ForeignIds : ForeignCreate(i)
         \/ UNCHANGED vars
  PROVE  AInv'
<1>1. Outside /\ NoneAdded
  BY EnvironmentIsOutside
<1>2. ASSUME NEW j \in Ids, board'[j].owner = "app"
      PROVE  /\ Ours(j) /\ board'[j].key = board[j].key /\ board'[j].by = board[j].by
             /\ board'[j].payload = board[j].payload
  BY <1>1, <1>2 DEF Outside, BoardKept, NoneAdded
<1>3. ASSUME NEW i \in Ids
      PROVE  /\ ledger'[i].attempt = ledger[i].attempt /\ ledger'[i].status = ledger[i].status
             /\ ledger'[i].key = ledger[i].key /\ ledger'[i].payload = ledger[i].payload
  BY <1>1 DEF Outside
<1>4. WriterInv'
  BY <1>2, <1>3 DEF AInv, WriterInv, Matches, Ours
<1>5. WrittenInv'
  <2>1. SUFFICES ASSUME NEW i \in Ids, ledger'[i] # NoRow, NEW j \in Ids,
                        board'[j].owner = "app", board'[j].key = ledger'[i].key
                 PROVE  board'[j].by <= ledger'[i].attempt
    BY DEF WrittenInv, WithKey, Ours
  <2>2. j \in WithKey(ledger[i].key) /\ board[j].key \in Keys
    BY <1>2, <1>3, <2>1, TaskTypes DEF WithKey, IInv, Tasks
  <2>3. ledger[i] # NoRow
    BY <2>2, LedgerAssumption DEF WithKey, NoRow
  <2> QED  BY <1>2, <1>3, <2>1, <2>2, <2>3 DEF AInv, WrittenInv
<1>6. TerminalWroteNothing'
  BY <1>2, <1>3 DEF AInv, TerminalWroteNothing, WithKey, Ours
<1>7. UnwrittenInv'
  <2>1. SUFFICES ASSUME NEW s \in Runs, NEW j \in Ids, backend' = "sqlite",
                        \/ pc'[s] \in {"execute", "create"}
                        \/ pc'[s] = "markFailed" /\ fail'[s].kind = "terminal",
                        board'[j].owner = "app", board'[j].key = Req[s].key
                 PROVE  board'[j].by # att'[s]
    BY DEF UnwrittenInv, WithKey, Ours
  <2>2. /\ backend = "sqlite" /\ pc'[s] = pc[s] /\ fail'[s] = fail[s] /\ att'[s] = att[s]
    BY <1>1, <2>1 DEF Outside
  <2>3. j \in WithKey(Req[s].key) /\ board'[j].by = board[j].by
    BY <1>2, <2>1 DEF WithKey
  <2> QED  BY <2>1, <2>2, <2>3 DEF AInv, UnwrittenInv
<1> QED  BY <1>1, <1>4, <1>5, <1>6, <1>7, OutsideKeepsAttempts DEF AInv

LEMMA CrashKeepsAInv ==
  ASSUME IInv, AInv, NEW r \in Runs, CrashInCreate(r)
  PROVE  AInv'
<1>1. Outside /\ BoardEffect(r)
  BY CrashIsOutside
<1>2. BoardKept /\ AddedBy(r) /\ LedgerKept
  BY <1>1, RunKeepsBoard DEF IInv, Outside
<1>3. RowsGrow(r)
  <2>1. ledger' = ledger
    BY DEF CrashInCreate, Restart
  <2> QED  BY <2>1, LedgerGrows DEF IInv, AInv, LedgerEffect
<1>4. \A s \in Runs : pc'[s] \in {"idle", "done", "failed"}
  BY DEF CrashInCreate, Restart
<1>5. UnwrittenInv'
  BY <1>4 DEF UnwrittenInv
<1>6. WriterInv' /\ TerminalWroteNothing'
  BY <1>2, <1>3, KeptWriter, KeptTerminalWrote
<1>7. WrittenInv'
  BY <1>2, <1>3, KeptWritten DEF WrittenInv, WithKey, Ours
<1> QED  BY <1>1, <1>5, <1>6, <1>7, OutsideKeepsAttempts DEF AInv

LEMMA InitAInv ==
  ASSUME Init
  PROVE  AInv
<1>1. \A i \in Ids : ledger[i] = NoRow /\ board[i] = NoTask
  BY DEF Init, LedgerInit
<1>2. \A r \in Runs : pc[r] = "idle" /\ att[r] = 0
  BY DEF Init
<1>3. NotAppliedInv /\ AttemptInv /\ ExecutorInv /\ UnwrittenInv /\ TerminalInv
  BY <1>2 DEF NotAppliedInv, AttemptInv, ExecutorInv, UnwrittenInv, TerminalInv, ExecutionPoints
<1>4. WrittenInv /\ WriterInv /\ TerminalWroteNothing
  BY <1>1 DEF WrittenInv, WriterInv, TerminalWroteNothing, WithKey, Ours, NoTask
<1> QED  BY <1>3, <1>4 DEF AInv

-----------------------------------------------------------------------------
(* The theorems *)

\* The invariant of attempts holds in every reachable state, together with that of the
\* commands.
THEOREM AttemptsInductive == Spec => [](IInv /\ AInv)
<1>1. Init => IInv /\ AInv
  BY InitIInv, InitAInv
<1>2. IInv /\ AInv /\ [Next]_vars => (IInv /\ AInv)'
  <2>1. ASSUME IInv, AInv, NEW r \in Runs, RunStep(r)
        PROVE  (IInv /\ AInv)'
    BY <2>1, RunKeepsIInv, RunKeepsAInv
  <2>2. ASSUME IInv, AInv, NEW r \in Runs, CrashInCreate(r)
        PROVE  (IInv /\ AInv)'
    BY <2>2, CrashKeepsIInv, CrashKeepsAInv
  <2>3. ASSUME IInv, AInv,
               \/ TimePasses \/ Crash \/ \E i \in ForeignIds : ForeignCreate(i)
               \/ UNCHANGED vars
        PROVE  (IInv /\ AInv)'
    BY <2>3, EnvironmentKeepsIInv, EnvironmentKeepsAInv
  <2> QED  BY <2>1, <2>2, <2>3 DEF Next, RunStep
<1> QED  BY <1>1, <1>2, PTL DEF Spec

\* No two runs execute the same attempt of a command (the fence of begin).
THEOREM OneExecutor == Spec => []OneExecutorPerAttempt
<1>1. IInv /\ AInv => OneExecutorPerAttempt
  BY DEF AInv, ExecutorInv, OneExecutorPerAttempt
<1> QED  BY <1>1, AttemptsInductive, PTL

\* A command the ledger calls terminally failed has no task that its last attempt wrote.
THEOREM TerminalTrue == Spec => []TerminalWroteNothing
<1>1. IInv /\ AInv => TerminalWroteNothing
  BY DEF AInv
<1> QED  BY <1>1, AttemptsInductive, PTL
=============================================================================
