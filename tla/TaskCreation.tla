---------------------------- MODULE TaskCreation ----------------------------
(***************************************************************************)
(* Keyed task creation: ApplicationCommandRunner.run with the reconciler   *)
(* and executor of TaskBoardCommandFacade.createTask, over the command     *)
(* ledger and the task board of agent-teams-controller.                    *)
(*                                                                         *)
(* A run is one call of createTask.  The calls of a session share one      *)
(* JavaScript thread and interleave at every await: the ledger's worker    *)
(* answers later, or dies with the answer; the destination's create awaits *)
(* the group chat and the project before it writes.  An attempt that was   *)
(* given up as stale may still be running.  A session whose SQLite         *)
(* storage is unavailable works without the ledger, one create at a time;  *)
(* the application can crash and start a session of the other kind.  MCP   *)
(* servers create tasks on the same board.                                 *)
(*                                                                         *)
(* Every read or write of the board is one step: the controller runs it    *)
(* synchronously under the team's board lock (module FileLock).            *)
(***************************************************************************)
EXTENDS CommandLedger, Sequences, FiniteSets

CONSTANTS
  Runs,        \* calls of createTask
  Req,         \* [Runs -> Requests]
  ForeignIds,  \* bound: ids at which MCP callers create tasks of their own
  MaxFaults,   \* bound: calls that throw for reasons of their environment
  MaxCrashes   \* bound: crashes of the application

ASSUME RunsAssumption ==
  /\ Req \in [Runs -> Requests]
  /\ ForeignIds \subseteq Ids
  /\ MaxFaults \in Nat /\ MaxCrashes \in Nat

VARIABLES
  board,    \* [Ids -> tasks]: the task files
  backend,  \* "sqlite" or "json": the storage this session selected
  queue,    \* nonDurableTeamQueues of the team: runs in their order
  pc,       \* [Runs -> Points]: what each run does next
  target,   \* [Runs -> Ids]: commandId of the record a run works on
  att,      \* [Runs -> Nat]: attemptCount of that record
  retried,  \* [Runs -> BOOLEAN]: retriedAfterReconciliation
  res,      \* [Runs -> results]: what a run is about to store or has returned
  fail,     \* [Runs -> failures]: what a run is about to store as its failure
  faults,   \* Nat
  crashes   \* Nat

vars == <<ledger, board, backend, queue, pc, target, att, retried, res, fail, faults,
          crashes>>

-----------------------------------------------------------------------------
\* owner tells whose creationCommand a task carries; by is the attempt that wrote it
\* (0: a session without the ledger), linked whether the tasks it depends on list it.
Tasks == [owner : {"app"}, key : Keys, payload : Payloads, linked : BOOLEAN, by : Nat]
NoTask == [owner |-> "none", key |-> NoValue, payload |-> NoValue, linked |-> FALSE,
           by |-> 0]
\* Another namespace's task; it carries no idempotency key.
ForeignTask == [owner |-> "mcp", key |-> NoValue, payload |-> NoValue, linked |-> TRUE,
                by |-> 0]

Failures == [kind : {"retryable", "terminal", "unknown"}, reason : Reasons]
Failure(kind, reason) == [kind |-> kind, reason |-> reason]
NoFailure == Failure("retryable", "none")

\* execute: the run holds an attempt and looks for its task; create: it awaits the
\* admission of its create; confirm: the task was created; recover: create threw.
ExecutionPoints == {"execute", "create", "confirm", "recover"}
Points == {"idle", "begin", "reconcile", "markNotApplied", "markCompleted", "markFailed",
           "done", "failed"} \cup ExecutionPoints
Ended == {"done", "failed"}

Goto(r, p) == pc' = [pc EXCEPT ![r] = p]
Fault == faults < MaxFaults /\ faults' = faults + 1

-----------------------------------------------------------------------------
(* The destination: findExistingDestination and reconcileTaskCreation *)

Ours(j) == board[j].owner = "app"
WithKey(k) == {j \in Ids : Ours(j) /\ board[j].key = k}

\* The tasks found by command id or by idempotency key.
Candidates(i, k) == {j \in Ids : j = i /\ board[j] # NoTask} \cup WithKey(k)

\* Mutant: whatever is found is taken for the command's task.
Reconcilable_Any(j, q) == board[j] # NoTask

\* The provenance test of reconcileTaskCreation and assertMatchingTask, for the record
\* whose commandId has become the found task's id.
Reconcilable(j, q) == Ours(j) /\ Matches(board[j], q)

Finds(i, q, j) == Candidates(i, q.key) = {j} /\ Reconcilable(j, q)
FindsNone(i, q) == Candidates(i, q.key) = {}
\* Several tasks, or one of another provenance.
FindsConflict(i, q) == ~FindsNone(i, q) /\ ~\E j \in Ids : Finds(i, q, j)

\* Mutant: reconciling reads the task without repairing its backlinks.
RepairLinks_Skipped(j) == UNCHANGED board

\* ensureTaskCreationBacklinks of a found task.
RepairLinks(j) == board' = [board EXCEPT ![j].linked = TRUE]

-----------------------------------------------------------------------------
Init ==
  /\ LedgerInit
  /\ board = [i \in Ids |-> NoTask]
  /\ backend \in {"sqlite", "json"}
  /\ queue = <<>>
  /\ pc = [r \in Runs |-> "idle"]
  /\ target = [r \in Runs |-> Req[r].id]
  /\ att = [r \in Runs |-> 0]
  /\ retried = [r \in Runs |-> FALSE]
  /\ res = [r \in Runs |-> NoResult]
  /\ fail = [r \in Runs |-> NoFailure]
  /\ faults = 0
  /\ crashes = 0

Record == <<target, att>>
Outcome == <<res, fail>>
Session == <<backend, crashes>>

\* createTask: through the runner, or at the end of the team's queue.
Start(r) ==
  /\ pc[r] = "idle"
  /\ IF backend = "sqlite"
       THEN Goto(r, "begin") /\ UNCHANGED queue
       ELSE Goto(r, "execute") /\ queue' = Append(queue, r)
  /\ UNCHANGED <<ledger, board, Record, retried, Outcome, faults, Session>>

\* Mutant: the runs of a session without the ledger do not wait for each other.
Turn_Any(r) == TRUE

\* A run without the ledger waits for the runs queued before it.
Turn(r) == backend = "json" => queue # <<>> /\ Head(queue) = r

\* The queue goes on whether the run succeeded or threw.
LeaveQueue == queue' = Tail(queue)

\* Mutant: an error leaves the queue's tail rejected and nothing after it runs.
GiveUp_BlocksQueue(r, f) ==
  /\ fail' = [fail EXCEPT ![r] = f]
  /\ Goto(r, IF backend = "sqlite" THEN "markFailed" ELSE "failed")
  /\ UNCHANGED <<res, queue>>

\* The executor throws f.
GiveUp(r, f) ==
  /\ fail' = [fail EXCEPT ![r] = f]
  /\ IF backend = "sqlite"
       THEN Goto(r, "markFailed") /\ UNCHANGED queue
       ELSE Goto(r, "failed") /\ LeaveQueue
  /\ UNCHANGED res

\* The executor returns task j.
Succeed(r, j, created) ==
  /\ res' = [res EXCEPT ![r] = [task |-> j, created |-> created]]
  /\ IF backend = "sqlite"
       THEN Goto(r, "markCompleted") /\ UNCHANGED queue
       ELSE Goto(r, "done") /\ LeaveQueue
  /\ UNCHANGED fail

-----------------------------------------------------------------------------
(* begin *)

\* A ledger call whose worker dies or times out, before or after its transaction.
Interrupted(i, row) ==
  /\ Fault
  /\ \/ ledger' = [ledger EXCEPT ![i] = row]
     \/ UNCHANGED ledger

Answered(i, row) ==
  /\ ledger' = [ledger EXCEPT ![i] = row]
  /\ UNCHANGED faults

\* Mutant: the executor works on the id of its own request.
TakeRecord_OwnId(r, i) ==
  /\ att' = [att EXCEPT ![r] = ledger'[i].attempt]
  /\ UNCHANGED target

TakeRecord(r, i) ==
  /\ target' = [target EXCEPT ![r] = i]
  /\ att' = [att EXCEPT ![r] = ledger'[i].attempt]

BeginStarts(r) ==
  /\ pc[r] = "begin"
  /\ \E i \in RowsFor(Req[r]) :
       /\ Starts(ledger[i], Req[r])
       /\ Answered(i, AfterBegin(ledger[i], Req[r]))
       /\ TakeRecord(r, i)
  /\ Goto(r, "execute")
  /\ UNCHANGED <<board, queue, retried, Outcome, Session>>

\* Reconciled once; an outcome still unknown after that is an error.
BeginUnknown(r) ==
  /\ pc[r] = "begin"
  /\ \E i \in RowsFor(Req[r]) :
       /\ Unknown(ledger[i], Req[r])
       /\ Answered(i, AfterBegin(ledger[i], Req[r]))
       /\ TakeRecord(r, i)
  /\ Goto(r, IF retried[r] THEN "failed" ELSE "reconcile")
  /\ UNCHANGED <<board, queue, retried, Outcome, Session>>

\* replayResult.
BeginReplays(r) ==
  /\ pc[r] = "begin"
  /\ \E i \in RowsFor(Req[r]) :
       /\ Replays(ledger[i], Req[r])
       /\ res' = [res EXCEPT ![r] = ledger[i].result]
  /\ Goto(r, "done")
  /\ UNCHANGED <<ledger, board, queue, Record, retried, fail, faults, Session>>

BeginRefuses(r) ==
  /\ pc[r] = "begin"
  /\ \E i \in RowsFor(Req[r]) : Refuses(ledger[i], Req[r])
  /\ Goto(r, "failed")
  /\ UNCHANGED <<ledger, board, queue, Record, retried, Outcome, faults, Session>>

BeginInterrupted(r) ==
  /\ pc[r] = "begin"
  /\ \E i \in RowsFor(Req[r]) : Interrupted(i, AfterBegin(ledger[i], Req[r]))
  /\ Goto(r, "failed")
  /\ UNCHANGED <<board, queue, Record, retried, Outcome, Session>>

-----------------------------------------------------------------------------
(* reconcileUnknown *)

\* The task is on the board: the command was applied.
ReconcileApplied(r) ==
  /\ pc[r] = "reconcile"
  /\ \E j \in Ids :
       /\ Finds(target[r], Req[r], j)
       /\ RepairLinks(j)
       /\ res' = [res EXCEPT ![r] = [task |-> j, created |-> FALSE]]
  /\ Goto(r, "markCompleted")
  /\ UNCHANGED <<ledger, queue, Record, retried, fail, faults, Session>>

\* No task, or one that conflicts: this attempt was not applied.
ReconcileNotApplied(r) ==
  /\ pc[r] = "reconcile"
  /\ \/ /\ FindsNone(target[r], Req[r])
        /\ fail' = [fail EXCEPT ![r] = Failure("retryable", "absent")]
     \/ /\ FindsConflict(target[r], Req[r])
        /\ fail' = [fail EXCEPT ![r] = Failure("retryable", "conflict")]
  /\ Goto(r, "markNotApplied")
  /\ UNCHANGED <<ledger, board, queue, Record, retried, res, faults, Session>>

\* The board cannot be read or its lock not taken.
ReconcileThrows(r) ==
  /\ pc[r] = "reconcile"
  /\ Fault
  /\ Goto(r, "failed")
  /\ UNCHANGED <<ledger, board, queue, Record, retried, Outcome, Session>>

\* markFailed of the attempt that was not applied, then a second begin.
MarkNotApplied(r) ==
  /\ pc[r] = "markNotApplied"
  /\ AcceptsFailure(ledger[target[r]], att[r], fail[r])
  /\ Answered(target[r], AfterFailure(ledger[target[r]], fail[r]))
  /\ retried' = [retried EXCEPT ![r] = TRUE]
  /\ Goto(r, "begin")
  /\ UNCHANGED <<board, queue, Record, Outcome, Session>>

-----------------------------------------------------------------------------
(* The executor *)

\* findExistingDestination before anything is created.
Execute(r) ==
  /\ pc[r] = "execute" /\ Turn(r)
  /\ \/ \E j \in Ids :
          /\ Finds(target[r], Req[r], j)
          /\ RepairLinks(j)
          /\ Succeed(r, j, FALSE)
     \/ /\ FindsNone(target[r], Req[r])
        /\ Goto(r, "create")
        /\ UNCHANGED <<board, queue, Outcome>>
     \/ /\ FindsConflict(target[r], Req[r])
        /\ GiveUp(r, Failure("terminal", "conflict"))
        /\ UNCHANGED board
  /\ UNCHANGED <<ledger, Record, retried, faults, Session>>

ExecuteThrows(r) ==
  /\ pc[r] = "execute" /\ Turn(r)
  /\ Fault
  /\ GiveUp(r, Failure("retryable", "error"))
  /\ UNCHANGED <<ledger, board, Record, retried, Session>>

NewTask(r, linked) ==
  [owner |-> "app", key |-> Req[r].key, payload |-> Req[r].payload, linked |-> linked,
   by |-> att[r]]

\* taskStore.createTask refuses an id that is taken.
WriteTask(r, linked) ==
  /\ board[target[r]] = NoTask
  /\ board' = [board EXCEPT ![target[r]] = NewTask(r, linked)]

\* The awaited admission passed: the task file, then its backlinks.
Create(r) ==
  /\ pc[r] = "create"
  /\ WriteTask(r, TRUE)
  /\ Goto(r, "confirm")
  /\ UNCHANGED <<ledger, queue, Record, retried, Outcome, faults, Session>>

CreateThrows(r, kind) ==
  /\ fail' = [fail EXCEPT ![r] = Failure(kind, "error")]
  /\ Goto(r, "recover")
  /\ UNCHANGED <<ledger, queue, Record, retried, res, Session>>

\* "Task already exists".
CreateExists(r) ==
  /\ pc[r] = "create"
  /\ board[target[r]] # NoTask
  /\ CreateThrows(r, "retryable")
  /\ UNCHANGED <<board, faults>>

\* The admission, the lock or the payload's references fail; or the task file is
\* written and a backlink fails.
CreateFails(r) ==
  /\ pc[r] = "create"
  /\ Fault
  /\ \/ UNCHANGED board /\ \E kind \in {"retryable", "terminal"} : CreateThrows(r, kind)
     \/ WriteTask(r, FALSE) /\ CreateThrows(r, "retryable")

\* reconcileDestination of the task just created.
Confirm(r) ==
  /\ pc[r] = "confirm"
  /\ Reconcilable(target[r], Req[r])
  /\ RepairLinks(target[r])
  /\ Succeed(r, target[r], TRUE)
  /\ UNCHANGED <<ledger, Record, retried, faults, Session>>

ConfirmThrows(r) ==
  /\ pc[r] = "confirm"
  /\ Fault
  /\ CreateThrows(r, "retryable")
  /\ UNCHANGED board

\* Mutant: an error of create is taken for a create that did nothing.
Recover_Blind(r) ==
  /\ pc[r] = "recover"
  /\ GiveUp(r, Failure("terminal", "error"))
  /\ UNCHANGED <<board, ledger, Record, retried, faults, Session>>

\* After an error the board decides what happened.
Recover(r) ==
  /\ pc[r] = "recover"
  /\ \/ \E j \in Ids :
          /\ Finds(target[r], Req[r], j)
          /\ RepairLinks(j)
          /\ Succeed(r, j, TRUE)
     \/ /\ FindsNone(target[r], Req[r])
        /\ GiveUp(r, fail[r])
        /\ UNCHANGED board
     \/ /\ FindsConflict(target[r], Req[r])
        /\ GiveUp(r, Failure("terminal", "conflict"))
        /\ UNCHANGED board
  /\ UNCHANGED <<ledger, Record, retried, faults, Session>>

\* Neither the create nor the board tells: TaskBoardCreateOutcomeUnknownError.
RecoverThrows(r) ==
  /\ pc[r] = "recover"
  /\ Fault
  /\ GiveUp(r, Failure("unknown", "error"))
  /\ UNCHANGED <<ledger, board, Record, retried, Session>>

-----------------------------------------------------------------------------
(* Settling the attempt *)

\* markCompleted, by the executor or by a reconciler.
MarkCompleted(r) ==
  /\ pc[r] = "markCompleted"
  /\ AcceptsCompletion(ledger[target[r]], att[r], res[r])
  /\ Answered(target[r], AfterCompletion(ledger[target[r]], res[r]))
  /\ Goto(r, "done")
  /\ UNCHANGED <<board, queue, Record, retried, Outcome, Session>>

\* The run rethrows its error either way.
MarkFailed(r) ==
  /\ pc[r] = "markFailed"
  /\ AcceptsFailure(ledger[target[r]], att[r], fail[r])
  /\ Answered(target[r], AfterFailure(ledger[target[r]], fail[r]))
  /\ Goto(r, "failed")
  /\ UNCHANGED <<board, queue, Record, retried, Outcome, Session>>

\* The ledger refuses: the attempt was fenced, or settled by someone else.
MarkRefused(r) ==
  /\ \/ /\ pc[r] = "markCompleted"
        /\ ~AcceptsCompletion(ledger[target[r]], att[r], res[r])
     \/ /\ pc[r] \in {"markFailed", "markNotApplied"}
        /\ ~AcceptsFailure(ledger[target[r]], att[r], fail[r])
  /\ Goto(r, "failed")
  /\ UNCHANGED <<ledger, board, queue, Record, retried, Outcome, faults, Session>>

MarkInterrupted(r) ==
  /\ \/ /\ pc[r] = "markCompleted"
        /\ AcceptsCompletion(ledger[target[r]], att[r], res[r])
        /\ Interrupted(target[r], AfterCompletion(ledger[target[r]], res[r]))
     \/ /\ pc[r] \in {"markFailed", "markNotApplied"}
        /\ AcceptsFailure(ledger[target[r]], att[r], fail[r])
        /\ Interrupted(target[r], AfterFailure(ledger[target[r]], fail[r]))
  /\ Goto(r, "failed")
  /\ UNCHANGED <<board, queue, Record, retried, Outcome, Session>>

-----------------------------------------------------------------------------
(* The environment *)

TimePasses ==
  /\ \E i \in Ids : Age(i)
  /\ UNCHANGED <<board, queue, pc, Record, retried, Outcome, faults, Session>>

\* An MCP caller creates a task at an id of its choice.
ForeignCreate(i) ==
  /\ board[i] = NoTask
  /\ board' = [board EXCEPT ![i] = ForeignTask]
  /\ UNCHANGED <<ledger, queue, pc, Record, retried, Outcome, faults, Session>>

\* The application dies with every run in it; ledger and board stay.
Restart ==
  /\ crashes < MaxCrashes
  /\ crashes' = crashes + 1
  /\ backend' \in {"sqlite", "json"}
  /\ queue' = <<>>
  /\ pc' = [r \in Runs |-> IF pc[r] \in {"idle", "done"} THEN pc[r] ELSE "failed"]
  /\ UNCHANGED <<ledger, Record, retried, Outcome, faults>>

Crash == Restart /\ UNCHANGED board

\* It dies between a task file and its backlinks.
CrashInCreate(r) ==
  /\ pc[r] = "create"
  /\ WriteTask(r, FALSE)
  /\ Restart

-----------------------------------------------------------------------------
\* What run r's own code does next when nothing throws.
CodeStep(r) ==
  \/ BeginStarts(r) \/ BeginUnknown(r) \/ BeginReplays(r) \/ BeginRefuses(r)
  \/ ReconcileApplied(r) \/ ReconcileNotApplied(r) \/ MarkNotApplied(r)
  \/ Execute(r) \/ Create(r) \/ CreateExists(r) \/ Confirm(r) \/ Recover(r)
  \/ MarkCompleted(r) \/ MarkFailed(r) \/ MarkRefused(r)

Throw(r) ==
  \/ BeginInterrupted(r) \/ ReconcileThrows(r) \/ ExecuteThrows(r) \/ CreateFails(r)
  \/ ConfirmThrows(r) \/ RecoverThrows(r) \/ MarkInterrupted(r)

Next ==
  \/ \E r \in Runs : Start(r) \/ CodeStep(r) \/ Throw(r) \/ CrashInCreate(r)
  \/ \E i \in ForeignIds : ForeignCreate(i)
  \/ TimePasses
  \/ Crash

Spec == Init /\ [][Next]_vars

-----------------------------------------------------------------------------
(* Properties *)

\* Every variable has its type.
TypeOK ==
  /\ LedgerTypeOK
  /\ board \in [Ids -> Tasks \cup {NoTask, ForeignTask}]
  /\ backend \in {"sqlite", "json"}
  /\ queue \in Seq(Runs)
  /\ pc \in [Runs -> Points]
  /\ target \in [Runs -> Ids]
  /\ att \in [Runs -> Nat]
  /\ retried \in [Runs -> BOOLEAN]
  /\ res \in [Runs -> Results \cup {NoResult}]
  /\ fail \in [Runs -> Failures]
  /\ faults \in Nat /\ crashes \in Nat

\* An idempotency key never gets a second task, whatever its calls use as command id,
\* however late a fenced attempt writes, and across sessions with and without the
\* ledger.
OneTaskPerKey ==
  \A i, j \in Ids :
    Ours(i) /\ Ours(j) /\ board[i].key = board[j].key => i = j

\* i is a task made for request q, and the tasks it depends on know it.
Fulfils(i, q) ==
  /\ i \in Ids /\ Ours(i)
  /\ board[i].key = q.key /\ board[i].payload = q.payload
  /\ board[i].linked

\* A call that returns a task names one on the board that is what it asked for.
AnswersAreTrue ==
  \A r \in Runs : pc[r] = "done" => Fulfils(res[r].task, Req[r])

\* The same of every result the ledger will ever replay.
CompletedIsTrue ==
  \A i \in Ids :
    ledger[i].status = "completed"
      => Fulfils(ledger[i].result.task,
                 [id |-> i, key |-> ledger[i].key, payload |-> ledger[i].payload])

\* No two runs execute the same attempt of a command.
OneExecutorPerAttempt ==
  \A r, s \in Runs :
    /\ backend = "sqlite"
    /\ pc[r] \in ExecutionPoints /\ pc[s] \in ExecutionPoints
    /\ target[r] = target[s] /\ att[r] = att[s]
    => r = s

\* A command the ledger calls terminally failed has no task on the board that its last
\* attempt wrote: errors after the write are never taken for errors before it.
TerminalWroteNothing ==
  \A i, j \in Ids :
    ledger[i].status = "failed_terminal" /\ j \in WithKey(ledger[i].key)
      => board[j].by < ledger[i].attempt

-----------------------------------------------------------------------------
(* The service it implements *)

\* The task of a set of at most one.
TaskAmong(S) == IF S = {} THEN NoValue ELSE CHOOSE j \in S : TRUE

MadeTasks == [k \in Keys |-> TaskAmong(WithKey(k))]
AnswersGiven == [r \in Runs |-> IF pc[r] = "done" THEN res[r].task ELSE NoValue]

Service == INSTANCE OnceOnly
             WITH Calls <- Runs, KeyOf <- [r \in Runs |-> Req[r].key], None <- NoValue,
                  made <- MadeTasks, answered <- AnswersGiven

\* Every step makes a key's first task, answers a call with its key's task, or is
\* invisible to the service.
ImplementsOnceOnly == Service!Spec

-----------------------------------------------------------------------------
(* Liveness *)

\* Ledger calls and awaited reads end, and the event loop resumes their run.
Fairness == \A r \in Runs : WF_vars(CodeStep(r))

FairSpec == Spec /\ Fairness

\* Every call ends, also behind one that threw in the queue.
CallsEnd == \A r \in Runs : pc[r] # "idle" ~> pc[r] \in Ended
=============================================================================
