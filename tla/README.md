# Agent Teams: a verification project

Agent Teams is a desktop application (Electron) in which a person leads teams of AI
agents. The agents are separate processes; they share a task board, inboxes and messages,
all of them files below a team's directory, and the application watches, starts, nudges
and schedules them. Most of what can go wrong in it is not in one function but between
several: processes that write the same files, callers that await while others run, calls
that fail after they have taken effect, a restart in the middle.

The modules here model those parts in TLA+. TLC checks them on small instances, TLAPS
proves the most important statements for every instance. Paths below are relative to the
repository; the modules' comments name the functions, `PROJECT.json` maps every
definition to the lines it models.

Contents: 1 the system; 2 the modules and how they correspond to the code; 3 the runs;
4 the proofs; 5 what the code does differently from what it says; 6 what is not modelled;
7 the plan.

## 1. The system

Three kinds of processes share the files of a team: the desktop application (`src/main`,
`src/features`), the MCP servers through which agents use the board (`mcp-server`), and
the agents' runtimes, which read and write inboxes themselves. `agent-teams-controller`
is the library of board operations the first two call.

```
  person --> renderer --IPC--> desktop main process ----spawn/bridge----> agent runtimes
                               |  features: task commands, recovery,       |        |
                               |  work sync, schedules, approvals, ...     |        |
                               |  storage worker (SQLite)                  |        |
                               v                                           v        |
                         agent-teams-controller  <------ MCP servers <-----+        |
                               |  board lock, file lock                             |
                               v                                                    v
                         task files, kanban, review state, inboxes, stores (JSON files)
```

| Part | State | Operations | Talks to | What makes it hard | What makes it correct |
| --- | --- | --- | --- | --- | --- |
| **File lock** `agent-teams-controller/src/internal/fileLock.js`, `src/main/services/team/fileLock.ts` | `<file>.lock`, the gate directory, owner entries | acquire (sync, async), recover a dead owner, release | every store below | processes interleave at every system call, die anywhere, lose their PID to others; recovery removes by path what it inspected before | one holder; a holder's lock is never removed; nothing of a live process is stranded; dead owners are reclaimed; calls end |
| **Task commands** `features/task-board-commands`, `features/application-command-ledger`, ledger operations of `features/internal-storage` | command rows, task files, per-session queue | begin, reconcile, execute, complete, fail, create | storage worker, controller | two stores without a common transaction; stale attempts that still run; answers lost after the commit; sessions without SQLite | one task per key; answers name a task that exists; a row says completed only if the task is there |
| **Runtime recovery** `features/team-runtime-recovery` | jobs, provider circuits, processed signals | observe failure, observe outcome, cancel, dispatch (claim, preflight, deliver, record) | inboxes, relay to agents, scheduler | dispatcher, observers and cancellations interleave between awaits; restart between message and record | one probe per circuit; no message twice or beyond the limit; settled jobs stay; all jobs settle |
| **Scheduler** `src/main/services/schedule` | schedules, runs, active runs, directory locks, timers | tick, trigger, retry, pause, update, delete, stop, reload | executor processes, JSON repository | locks are taken after an await; timers outlive a stop; saves of stale snapshots | one run per schedule and per directory; a schedule is never locked for nobody; a bounded number of executions per run |
| **Prompt delivery** `opencode/delivery/OpenCodePromptDelivery*` | prompt ledger, watchdog timers | accept, attempt, observe, retry, give up | bridge, inbox | the prompt's acceptance is unknown after a timeout; watchdog and message path retry the same record | a prompt is not answered twice nor dropped; attempts are bounded |
| **Runtime delivery journal** `opencode/delivery/RuntimeDelivery*` | journal of deliveries, receipts, turns per key | begin, look, write, read back, commit, confirm, roll back, reconcile | inboxes, sent messages, sessions and runs of the team | crash between destination and journal; senders superseded while they wait; a reconciler beside the calls; reads that miss | one visible message per idempotency key; true answers; no write by a superseded session or after an answer |
| **Bridge commands** `opencode/bridge` | command ledger, lease, handshake | prepare, send, settle, recover outcome | runtime bridge, lane stores | outcome of a command unknown; manifest read before the lease | a command is not repeated while its outcome is unknown; a stale manifest is rejected |
| **Lane stores** `opencode/store` | manifest, launch transaction, tombstones | begin, commit, abort, mark | bridge commands | several files per transition | a run that ended is not brought back |
| **Storage worker** `features/internal-storage` | pending calls, worker, SQLite | call, retire, replace | all durable features | a call rejected by its deadline may have committed | a retired worker never answers for its successor |
| **Task board, review, kanban** controller `taskStore`, `tasks`, `review`, `kanban` | task, review and kanban files | create, update, move, review, approve | MCP servers, application | one transition writes several files | a column, a review state and a task status that belong together |
| **Inboxes and messages** controller `messageStore`, `TeamInboxWriter`, `CrossTeamOutbox` | inbox files, outbox | append, mark read, deduplicate | everything that notifies | concurrent writers with the same ids | no message lost or doubled |
| **Work sync** `features/member-work-sync` | nudge outbox | plan, claim, dispatch, settle | inboxes | timeouts do not stop the work they give up on | a nudge is sent once per state of work |
| **Permanent deletion** `team/permanent-deletion` | intent, removal proofs, lock | prepare, remove targets, finish, resume | all of a team's stores | crash between removal and proof; the name is taken again | only what belonged to the deleted team is removed |
| **Tool approvals** `team/approvals` | pending approvals, timers | request, answer, time out, sync | runtimes, renderer | timeout against answer | one decision per approval |
| **Review mutations** `features/review-mutations` | mutation journal | start, step, resume | review stores, files | crash between effect and phase | every step has one effect |
| **Close coordination** `features/app-close-coordination` | pending request | ask, answer, time out | renderer | late answers | the application closes once |
| **Manual message queue** `features/manual-message-queue` | queue items | claim, dispatch, settle | renderer windows, transport | transport fails with the message perhaps sent | no automatic resend of an unknown outcome |
| **Team provisioning** `TeamProvisioningService` and its neighbours | launch state, processes | launch, stop, restart, relay | runtimes | process I/O throughout | see section 6 |

`PROJECT.json` lists all of them under "components" and, under "hazards", the places
where the modelled parts can go wrong in a way a test would hardly reach, with some of the
most important ones of the parts that are planned.

## 2. The modules

| Module | Models | Role |
| --- | --- | --- |
| `FileLock` | `fileLock.js`, `fileLock.ts` | the lock protocol, one action per file-system call |
| `ReclaimableLock` | | what a caller of the lock may rely on; `FileLock` implements it |
| `LockedUpdate` | `VersionedJsonStore.ts`, `atomicWrite.ts` | a file read, computed and renamed in the callback of the lock; extends `FileLock` |
| `CommandLedger` | `applicationCommandLedgerWorkerOps.ts` | the ledger's transactions as operators on a row |
| `TaskCreation` | `ApplicationCommandRunner.ts`, `TaskBoardCommandFacade.ts`, creation in `taskStore.js` | the runs of keyed creates over the ledger and the board; extends `CommandLedger` |
| `OnceOnly` | | a service that makes one thing per key; `TaskCreation` implements it for all its keys, `RuntimeDelivery` for each key whose commits do not overlap |
| `RuntimeRecovery` | `features/team-runtime-recovery` | dispatcher, observers, cancellations, agents |
| `RecoveryService` | | what recovery promises of each job; `RuntimeRecovery` implements it |
| `Scheduler` | `SchedulerService.ts`, saves of `JsonScheduleRepository.ts` | schedules, runs, locks, retries, stop and reload |
| `RuntimeDelivery` | `RuntimeDeliveryService.ts`, `RuntimeDeliveryJournal.ts`, ports, inbox and sent-messages stores | the calls of a runtime, the journal, the destination, the reconciler |
| `MCFileLock`, `MCFileLockLive`, `MCTaskCreation`, `MCTaskCreationLive`, `MCRuntimeRecovery`, `MCScheduler`, `MCRuntimeDelivery` | | instances for TLC |
| `FileLockProofs`, `LockedUpdateProofs`, `TaskCreationProofs`, `TaskAttemptProofs`, `RuntimeRecoveryProofs`, `SchedulerProofs`, `RuntimeDeliveryProofs` | | theorems and proofs |

How the modules build on each other: a board operation of `TaskCreation`, a state
update of `RuntimeRecovery`, an update of the journal or of an inbox in `RuntimeDelivery` is
a read, a computation and a write in a callback of the file lock. Each is one step there,
because `LockedUpdate`, which puts such callbacks inside the steps of `FileLock`, shows (and
proves) that every change of the file is one writer's update of all that the file holds.
What happens when the lock is *not* obtained, a call that throws, is a fault in the
modules above.

Definitions whose comment begins with "Mutant" or "(As a mutant" are not part of a model. Each is a
plausible bug of one definition that follows it; put in that definition's place, it makes
TLC find a property violated. They document which part of the code each property rests
on (`PROJECT.json`, "mutants").

### FileLock

A caller (`Clients`) belongs to a process (`ProcOf`) and its `pc` names the next system
call of its JavaScript. Callers of different processes interleave between any two calls.
Callers of one process interleave only where the code returns to the event loop, that is
while it sleeps between attempts or awaits its callback; a synchronous caller spins and
never returns to it (`OnStack`, `CanRun`).

| Code | Actions |
| --- | --- |
| `withFileLock`, `withFileLockSync` (token, loop, deadline) | `Begin`, `Retry`, `Timeout`, `Finish` |
| `acquireGate` (stat, private directory with the entry, rename) | `StatGate`, `RenameGate` |
| `recoverGate` (list, read and probe, unlink, rmdir) | `ListGate`, `ProbeEntry`, `UnlinkEntry`, `RmdirGate` |
| `recoverDataLock` (read, probe, read again, unlink or rmdir) | `ReadLock`, `ProbeOwner`, `RereadLock`, `RemoveLock` |
| `tryAcquire` (stat, link, and in `finally` the gate's removal) | `StatLock`, `LinkLock`, `UnlinkOwnEntry`, `RmdirOwnGate` |
| `releaseLock` | `ReleaseRead`, `ReleaseUnlink` |
| a call that throws: before the gate is taken, under it, in the `finally`, in the release | `GateThrows`, `ProtectedThrows`, `CleanupThrows`, `ReleaseThrows` |
| processes | `Crash`, `ReusePid` |
| a runtime that locks the same path with `mkdir` (proper-lockfile; external) | `RuntimeMkdir` .. `RuntimeRmdir`, `DirectoryAges` |

An entry or a lock file is the token of the call that made it, which is what the file's
content (PID, time, random token) amounts to. Left out: the private candidates of gate and
lock, which no other caller sees before the rename and the link; the ages of files, except
of directories. An error ends the call. What it leaves behind depends on where it occurs:
before the gate is taken nothing (`GateThrows`); under it, up to the unlink of the
candidate after its link was made, the `finally` still empties the gate
(`"unwindEntry"`, `"unwindGate"`) and the `catch` then takes back a published lock
(`Rethrown`); in the `finally` itself what was to follow is not done.
`FaultKinds` has three members: `"acquire"` (the first two), `"cleanup"`, `"release"`; each
kind occurs at most once.

The two implementations run the same protocol. They differ in one option: the desktop's
removes an old runtime directory unless `preventLiveOwnerTakeover` is set, the
controller's never does. `TakeoverProcs` names the processes that do.

### LockedUpdate

The variables of `FileLock` and three more: `content`, the updates whose effect the file
has, and each callback's locals, `stage` and `copy`. `Read` and `Publish` are steps of a
caller inside the lock, or of the runtime that locks with a directory; `LockStep` is
any step of `FileLock`, with the locals gone when the callback ends or its process dies. An
update is its lock token, so that one that is lost is missing from `content`. A callback may
end at any stage: its updater throws, finds nothing to change, or the write fails. Left out:
what an updater computes, the quarantine of unreadable files (the call throws), and reads
and no-op checks without the lock, which see one whole version of the file because it
is only ever replaced by a rename.

### CommandLedger and TaskCreation

A row of the ledger is keyed by its command id; the id of the task that a command creates
*is* the command id. `CommandLedger` has the operators for what `begin`, `markCompleted` and
`markFailed` leave in a row, whether they accept it, and what they answer;
each is one SQLite transaction.

A run is one call of `createTask`. Its `pc` is the next await:

| Code | Actions |
| --- | --- |
| `runner.run` / `runNonDurableForTeam` | `Start` |
| `ledger.begin` and the branches on its outcome | `BeginStarts`, `BeginUnknown`, `BeginReplays`, `BeginRefuses`, `BeginInterrupted` |
| `reconcileUnknown` | `ReconcileApplied`, `ReconcileNotApplied`, `ReconcileThrows`, `MarkNotApplied` |
| the executor: `findExistingDestination`, `create`, `reconcileDestination`, and the recovery of an error | `Execute`, `Create`, `CreateExists`, `CreateFails`, `Confirm`, `Recover` and their `...Throws` |
| `markCompleted`, `markFailed` | `MarkCompleted`, `MarkFailed`, `MarkRefused`, `MarkInterrupted` |
| the rest of the world | `TimePasses` (a started attempt becomes stale), `ForeignCreate` (an MCP server's task), `Crash`, `CrashInCreate` |

A session of the application either has SQLite (`backend = "sqlite"`) or works without
the ledger, its creates in a queue per team ("json"). A crash ends every run; the next
session may be of the other kind, ledger and board stay. An attempt that the ledger gave
up as stale goes on running: that is what the attempt count fences.

Abstractions. A task is its owner, key, payload hash, whether its dependencies list it, and
(for one property) the attempt that wrote it; what happens to a task after its creation,
hard deletion included, is left out. Tasks made before creation commands were stored in
them are not modelled. The destination's admission checks (group chat, project, references)
fail nondeterministically. A storage call whose worker dies or times out is
`...Interrupted`: the transaction took effect or did not. It is not pending any longer: the
storage client lets no new call pass to a new worker before the old one has exited
(`InternalStorageWorkerClient.ts`, lines 523-530), so a late commit is before any later call.

### RuntimeRecovery

A job is named by the failure signal that created it; a message is a job and an attempt
number, as the message id is built. `jobs`, `circuits` and `processed` are the stored state;
each repository update, a locked file update, is one step. The dispatcher's run (`pc`, `token`,
`batch`, `cur`) works on snapshots of the jobs it claimed while everything else goes on.

| Code | Actions |
| --- | --- |
| `ObserveRuntimeFailure` | `ObserveManual`, `ObserveNew`, `FailureReschedules`, `FailureEnds`, `FailureIsLate` |
| `ObserveRecoveryOutcome` | `ScanFindsAnswer`, `MarkCompleted`; its deadline sweep in `StartRun` |
| `CancelRuntimeRecoveries`, `CancelStaleRecoveries` | `Cancel` |
| `DispatchDueRecoveries` | `StartRun`, `Claim`, `TakeJob`, `TakeExpiredJob`, `NotNow`, `NotAnyMore`, `EndRun`, `UpdateThrows` |
| `TeamInboxRuntimeRecoveryDeliveryAdapter.deliver` and what `dispatchJob` stores of it | `InboxConflict`, `FindMessage`, `WriteMessage`, `RelayUnconfirmed`, `RelayIgnored`, `Delivered` |
| restart; agents; clocks | `Crash`; `AgentReads`, `TurnFails`; `TimerElapses`, `JobExpires`, `ProbeTimeComes` |

Abstractions. Time is two flags per job and one per circuit. A settled job keeps only its
status. One team is swept; the dispatcher is single-flight, as its scheduler is. The
history limits (500 jobs, 1000 signals), the limit of ten claims a sweep, a change of
the settings while jobs exist, and the message to the lead about a job given up are left
out. `UpdateThrows` is an update that fails, in a claim, in a dispatch or in the scan for
answers, with nothing written (one that has written before it throws is the step followed
by `UpdateThrows` at the next, or by `Crash`). `MaxFaults` bounds restarts and thrown updates
together. The stored state is assumed to be readable: a file that cannot be read or
parsed is moved to quarantine and the team starts with an empty state
(`JsonTeamRuntimeRecoveryRepository.ts`, lines 258-275), which forgets its jobs and the
signals it has processed. No property here says anything about a team this happens to.

`RecoveryService` is the same seen from the agents and the user: a job's state is none,
waiting, in flight or its answer (`StateOf`), `sent` are the attempts its messages in the inbox
stand for (`SentFor`), `held` the jobs of the run's snapshots that can still lead to a message
(`Held`). It promises what the stored status alone would not: the messages of a job
go out in the order of its attempts, each only after the job was taken up while open, at most
one each time, and only jobs with a message are completed. A job that is cancelled
while a run holds it may still get that one message, because the adapter writes
without looking at the stored claim again; the service allows this one and no other.

### Scheduler

The service runs in one event loop: a step is the code between two awaits, and any number
of continuations can be pending. A run is one call of `triggerNow` or one cron tick; its
`phase` is the await its continuation is at. `activeRuns`, `cwdLock`, `retryDelayTimers`
(`timers`) and the flag `stopped` are the service's memory, `starting` says that a `start`
awaits the list of schedules, `file` is `schedules.json`, and `snapshot` the record a run
was started with, which the code saves back after the run, or the one read at its end.

| Code | Actions |
| --- | --- |
| `triggerNow`, `onCronTick` up to `saveRun`; after it | `TriggerNow`, `OnCronTick`; `Start`, `StartFails` |
| `executeRunInBackground` | `ProcessExits`, `Complete`, `RecordFails`; its `finally` in `Finish`, `Close` |
| `updateScheduleTimestamps`, the read and the save of it | `Stamp`, `SaveStamp` |
| `handleRunFailure`, the retry's delay and what follows it | `DelayRetry`, `GiveUp`, `RetryFires`, `Retry`, `RetryDropped` |
| `updateSchedule`, `pauseSchedule`, `resumeSchedule`, `deleteSchedule` | `Edit` |
| `stop`, and `start` after it (`reloadForClaudeRootChange`), to its await and after it | `Stop`; `Restart`, `LoadSchedules` |

`exposed` and `exposedDirs` are ghosts: a schedule, or a directory, joins them when a run is
let in through one of the windows the code leaves (two runs past the check before either
has taken the locks; a retry, which does not look at `cwdLock`; a stop or a deletion that
drops the locks of a run whose process is still ending). The properties say that there
is no other way.

Abstractions. The run history, the logs, the warm-up timers and the times in a record are
left out, since no decision about locks reads them; so is the creation of a schedule (the
schedules are there at the start). A user's operation is one step, and so is a save, which
changes the record of one schedule: that two saves can lose one, and that a failed read
lets the next save erase the other schedules, are hazards the module does not show. What
does matter to one schedule is there: the saves of a stale record, of the failure count
and of the times, which undo a pause or an update made meanwhile, or bring a deleted
schedule back. `RecordFails` is a write that throws
before it changed anything. Recording a retry that was refused cannot throw here. The
application's end is not modelled: nothing of the memory survives it.

### RuntimeDelivery

A call of `deliver` has an idempotency key (`KeyOf`), a payload, and the session it is sent
from, which determines its run. Sessions are numbered in the order they check in; a call is
superseded if its session is not the latest, and stale if it is that or the team was
stopped; the look between a message that was found and its commit asks for the first only.
`journal` has a record
per key and run, `receipts` one receipt per key, `rows` counts the rows of a message at
its destination, the inbox of a member or the file of sent messages.

| Code | Actions |
| --- | --- |
| `deliver`, `serializeRuntimeDelivery` (a turn per key) | `Deliver`, `TakeTurn` |
| `journal.begin`, the looks at the sender and the answers after it | `Begin`, `Recheck` |
| the look for the message of an earlier attempt, and the commit of one found | `Look`, `CommitDelivery`, `Confirm` |
| `writeWhileIdentityCurrent` under the team's lock | `Arm`, `Write`, `ReadBack`, `CommitDelivery`, `Confirm`, `Fail` |
| a journal that cannot be locked or written, at any of its calls, the rollback included; a look at the sender that throws | `JournalFails` |
| `RuntimeDeliveryReconciler` | `Reconcile`, `ReconcileLook`, `ReconcileCommit`, `ReconcileConfirm`, `ReconcileFails` |
| check-in and relaunch, stop, the limit of the sent file, restart | `CheckIn`, `StopTeam`, `Trim`, `Crash` |

`undo` is what `markCommitted` hands back for its rollback: the records and the receipt it
found and those it left; only what is still as it was left is put back. The ghost `made`
collects the messages that ever had a row, `ack` what the callers were told, `blind` the keys
a row of which was missed by a read, `raced` the keys two commits of which overlapped.

`Service(k)` is `OnceOnly` for the one key `k`: `made` is the message of the key that has or
had a row, `answered` what each call of the key was told. As its steps hold only
while the commits of `k` do not overlap, `ImplementsOnceOnlyUnlessRaced` states the refinement
step by step, for unraced keys, instead of as one specification for all.

Abstractions. A payload stands for text, sender and destination; normalisation and
canonical names, and the recovery of records from before those, are left out, and with them
the second reads they cause. Cross-team destinations, which have an outbox of their own,
are left out. So is the pruning of committed and failed records beyond 512, which leaves
pending ones alone, while receipts answer for committed ones. When the journal is loaded, the
receipts of its committed records are made anew (`RuntimeDeliveryJournal.ts`, lines 968-980),
and two receipts of a key that disagree on the payload keep neither's (lines 855-862). A
key has one payload, so the second never happens, and the first changes nothing as
long as a receipt stays while a record is committed, which a rollback beside another
commit can break: both are left out, and only keys whose commits overlapped could
tell. Two reads with nothing between
them but awaits are one step: the second sees what the first saw, or misses. A second commit
keeps either receipt, since commit times are the starts of the calls. Turns are
taken in any order; the code's order is one of these. One lane is modelled; lanes share no
journal.

## 3. The runs

| Run | Instance | Distinct states | Properties |
| --- | --- | --- | --- |
| `filelock_safety` | three processes with a caller each, one of them calls twice; its PID can be reused; one crash, one call that throws before or under the gate, one throwing cleanup and one throwing release; one directory of a runtime; two processes symmetric | 1,343,794 | `TypeOK`, `MutualExclusion`, `HolderOwnsLock`, `GateExclusion`, `RuntimeExclusion`, `NothingStranded`, `FreshDirectoryKept`, `ImplementsService` |
| `filelock_live` | two processes, an asynchronous and a synchronous caller in the first; all update one file; one crash, one call that throws before or under the gate | 11,273 | `UpdatesAreAtomic`, `DeadOwnersReclaimed`, `CallsEnd` |
| `filelock_takeover` | a process that takes over old directories, a runtime that locks twice | violation | `FreshDirectoryKept` |
| `taskcreation_safety` | a create, its repetition, and a repetition of its key under another command id; two faults, one crash, a foreign task at the first id; the first two runs symmetric | 530,781 | `TypeOK`, `OneTaskPerKey`, `AnswersAreTrue`, `CompletedIsTrue`, `OneExecutorPerAttempt`, `TerminalWroteNothing`, `SettledStays`, `ImplementsOnceOnly` |
| `taskcreation_live` | two creates of one key and a conflicting one at one of their ids; one fault, one crash, a foreign task | 104,910 | `CallsEnd` |
| `recovery_probe` | two failures of one session on one circuit, two texts, one attempt, one restart or thrown update | 420,980 | `OneProbePerCircuit`, `SettledStays`, `ImplementsService` |
| `recovery_chain` | one failure chain: two attempts, two texts, two reporters, one restart or thrown update | 164,014 | `TypeOK`, `AwaitedWasSent`, `MessagesBounded`, `JobsSettle` |
| `recovery_shutout` | one job, two attempts, two texts, one reporter, one restart or thrown update | violation | `RetryNotShutOut` |
| `recovery_attempt` | the same, a native member | violation | `RetryIsNextAttempt` |
| `scheduler_locks` | two schedules that pause after one run given up, two directories, three runs, one retry each; one edit, one stop; all symmetric | 2,285,928 | `TypeOK`, `HeldIsWorking`, `OneRunUnlessExposed`, `OneScheduleUnlessExposed`, `ExecutionsBounded` |
| `scheduler_retry` | two schedules of one directory, two runs, one retry; no edit, no stop | violation | `RetryTakesNoHeldDirectory` |
| `delivery_once` | three calls of one key, each with either of two payloads (sent file, inbox); two sessions of a run and one of a later run; one missed read, one trimmed row, one restart; calls symmetric | 1,425,988 | `TypeOK`, `OneMessageUnlessRaced`, `OneRowUnlessUnseen`, `AnswersAreTrue`, `CommitsWereSeen`, `SupersededNeverWrites`, `AnsweredNeverRewritten`, `ImplementsOnceOnlyUnlessRaced` |

**What they show.** *File lock*: at most one callback runs, also when a recoverer acts
on what it saw long before, a dead owner's PID lives again, or the removal of the gate
throws after the lock was published. The last case is why `CleanupThrows` leads through
`releaseLock`: without it the lock of a live process stays for ever. Progress: what a dead
process left is reclaimed while anyone tries, and a call ends at its deadline even if it is
a synchronous one that spins on a lock held in its own event loop. Updates: none is lost to
another that read the file before it. The run has two processes, callers only and one
crash; a delayed recoverer beside a dead owner and a successor takes a third. That case was
checked once with the instance of `filelock_safety`, runtime included but without the
`"acquire"` throws (2,838,715 states, not a regular run), and is part of what the theorem
`NoUpdateLost` says for any number of processes. With the instance of `filelock_takeover`
the property fails, as it must.

*Task creation*: one key gets one task across stale attempts, reused keys under other
command ids, lost answers, and sessions with and without the ledger; what is answered or
stored as completed is on the board with its backlinks. `OneExecutorPerAttempt` is what
the attempt count is for; `TerminalWroteNothing` says that an error after the write is
never stored as a terminal failure of the attempt that wrote. It is also the property that
fails if `markCompleted` and `markFailed` do not compare attempts (`assertAttemptMatches`):
the failure of an old attempt is then stored over the task of the current one.

*Runtime recovery*: a failing provider sees one recovery turn at a time; an answer given to
a job is not taken back by a delivery that returns late; messages stay within the
configured attempts, none is written twice; every job comes to an answer even if a state
update throws or the application stops at the worst moment. `ImplementsService` ties these
together, for each job, in the order in which they happen.

*Scheduler*: apart from the windows named in section 2, one run of a schedule executes at a
time, and one schedule in a directory, whatever retries, late releases, stale saves and
reloads do; a schedule stays locked only for a run that is at work on it, so that no path
blocks it until the next restart; the agent is started at most once more per run than there
are retries, a success that could not be recorded included.

*Runtime delivery*: a key becomes one message, whoever repeats it and whenever; a reader sees
it once unless a read of the sent file missed a row (the inbox checks ids itself);
what is answered and what the journal calls committed was at the destination; a session
that was superseded does not write, and nobody writes after an answer. Keys whose commits
overlapped are excepted from the first, the last and the refinement: section 5 says why.

**Bounds and why they are enough.** A recovery of the lock involves a dead owner, a
delayed recoverer and a successor, hence three processes; the second call of one of them
gives a successor the same PID. One directory suffices where nobody takes it over; the
takeover needs a second that replaces the first. A command's attempts are contended by the
executor that went stale, the caller that reconciled, and one more that arrives during
either: three runs, and since each of them can start an attempt the count reaches three.
Two faults let an answer be lost after a commit and the reconciliation throw as well. In
a recovery, the second job of a circuit is what an unguarded release would let in;
a second attempt is what a chained failure counts to. Two circuits were left out of the
runs because circuits share nothing but the batch. A native member's deliveries are a
subset of a relay's (`Delivered`), so the passing runs need none. A window of the scheduler
takes two runs of a schedule; a third is the one that comes while the first two undo each
other's locks, and with two schedules and two directories a lock of another schedule can be
overwritten and released. A schedule pauses with its first run given up, so that a pause
meets the other runs; the limit is no part of the locks and the proofs leave it free. A
repeated delivery involves the attempt that failed, the one of
a later run that takes its record over, and one that is told of the commit: three
calls, three sessions, two runs. One key is enough for TLC because keys share nothing but
the team's lock, which `Arm` takes from any call; the proofs are for any number of keys.

**Symmetry** is used in the safety runs only, between callers that have the same bounds.

**Deadlock** is checked in the runs of `RuntimeRecovery`, whose dispatcher never stops.
The calls and runs of the other modules are bounded, and end; their runs say
`CHECK_DEADLOCK FALSE`.

**Fairness.**
- *File lock*: weak fairness of a caller's next system call; strong fairness of being
  resumed after a wait (`Retry`, `Timeout`, `Finish`), because a caller of the same process
  takes the stack from it again and again, and Node's event loop serves timers and
  settled promises in turn. `CallsEnd` assumes in addition that deadlines pass (`Timeout`
  strongly fair), as `Date.now()` does. Nothing is assumed of crashes, faults or new calls.
- *Task creation*: weak fairness of each run's own step: awaits settle (storage calls have
  a deadline) and the event loop resumes the run. Starting a run is not fair.
- *Runtime recovery*: weak fairness of the dispatcher (its scheduler arms the next run
  after each, failed ones included) and of clocks. Nothing is assumed of agents, failure
  reports, scans or cancellations: a job must settle without them.
- *Scheduler*, *runtime delivery*: none; only safety is stated. A retry whose timer was
  cleared never ends (the model calls it `"over"`), and an unmessaged call is the runtime's to repeat.

## 4. The proofs

TLAPS checks these for every value of the constants that satisfies the assumptions
`ConstantsAssumption`, `LedgerAssumption`, `RunsAssumption`, `RecoveryAssumption`,
`SchedulerAssumption`, `DeliveryAssumption` and `NoneAssumption`, which say no more than the types of the constants
(that `None` is none of the values it stands in for included) and, of runtime recovery, that
claim identities never run out, as the code makes them of a process id and a time. Induction is over steps, never over data.

**FileLockProofs.** `Inductive` proves `IInv`:
- `GateExclusion`: while a caller is at a protected point the gate exists and holds its
  entry only. Renaming a directory onto a non-empty one fails, removing a non-empty one
  fails, and an entry is unlinked by its own token: no one else can empty the gate.
- `AllDrawn`, `DeadIdle`: what lies on disk or in a recovery's memory was drawn by a
  call, and a dead process has no call in progress.
- `RecoveryInv`: what a recovery is about to remove was left by a call that is `Over`.
  This survives the reuse of the PID, since the new process draws new tokens; under the gate
  the lock is also still the one that was judged.
- `PublishedInv`: the local `published` is exactly the knowledge that the lock file is
  one's own.

`MutualExclusion` is not inductive because nothing in it says that a delayed recovery
cannot remove a holder's lock; `RecoveryInv` says so. From `IInv` follow `HolderOwns`,
`GateExcludes` and `Mutex` for both implementations and every option. With
`RuntimeInv` (nobody removes a directory where no process takes over) follow
`RuntimeExcludes`, `DirectoryKept` and `Implements`, the refinement of `ReclaimableLock`;
the last two carry the hypothesis `TakeoverProcs = {}`, and section 5 shows it is needed.
`NothingLeft` has an invariant of its own (each lock or entry of a live process is
accounted for).

**LockedUpdateProofs.** Every step of the update is one of the lock or leaves it alone
(`RunsLock`), so the lock's invariants hold here too, and with them one writer at a time
is in its callback (`Alone`). `CopyInv` says that a callback past its read is still inside
and that its copy is what the file holds; when one publishes, nobody else has a
copy that could become stale. `NoUpdateLost` follows. The hypothesis `LocksRespected`: no
process takes over runtime directories, or no runtime makes any; section 5 shows
why it is needed.

**TaskCreationProofs.** Each operation of the ledger has a lemma about the row it
leaves (`BeginRow`, `CompletedRow`, `FailedRow`), each run step an `Effect` (one row, one
task, one queue end at most), and the invariants are preserved by effects. `Inductive`
proves `IInv`: rows of different commands have different keys (`RowsInv`); a run works on a
row of its request (`TargetInv`); a run about to create found no task of its key, and
one created since stands at the run's own id, where `createTask` refuses (`CreateInv`);
without the ledger only the head of the queue is past its look at the board
(`SessionInv`); results under way are true (`ResultInv`). `OneTask` needs `CreateInv`
because the look and the write are two steps; `CreateInv` needs `RowsInv` and `TargetInv`
because another run of the key must be at the same id, and `SessionInv` where there is no
ledger to say so. From it follow `AnswersTrue`, `CompletedTrue`, `SettledForGood` and
`Implements`, the refinement of `OnceOnly`.

**TaskAttemptProofs.** `AInv`, inductive together with `IInv`, is about attempts. A step of
a run takes an attempt, works in it or rests (`RunKind`); attempts of a row only grow
(`RowsGrow`). An executor's attempt is not ahead of its row (`AttemptInv`), no row is behind
the attempt that wrote its task (`WrittenInv`, `WriterInv`), an attempt that is about to write
or has been given up for good wrote nothing (`UnwrittenInv`), and nobody executes the
attempt of a terminal row (`TerminalInv`). `OneExecutor` is `ExecutorInv` without the
run that stores its failure, which the induction needs because the row becomes terminal
only then. `TerminalTrue` needs that run's attempt to have written nothing, which the look at
the board in `Recover` guarantees: a task of its own would be found, alone and matching
(`OwnIsFound`).

**RuntimeRecoveryProofs.** `IInv` is `TypeOK` and what holds the stored state, the inboxes
and the dispatcher's run together: a job exists only once its signal was processed
(`KnownInv`); a job that goes on has a text, an attempt left before its delivery and a
message after it (`ActiveInv`); the circuit of a job in flight names it as its probe
(`ProbeInv`); a message is in the inbox once, within the configured attempts (`InboxInv`);
a snapshot of the dispatcher has an attempt left, and when it relays, its message is there
with its text (`RunInv`). Each action has a lemma about the store it leaves (`JobStep` says
how one job may move) and one about the run (`RestStep`). `OneProbe` follows from
`ProbeInv`, as two jobs of a circuit would both be its probe; `AwaitedSent` needs `RunInv`,
since the message is written steps before the job says so; `Bounded` needs the
snapshot's attempt, which may be older than the store's.

For `ServesRecovery` the invariant grows by two parts. `OrderInv`: the attempt of an open job
counts its messages, no attempt is missing in between, and the attempt of a snapshot counts
them too; the stored one may have outrun it but is never behind. `BatchInv`: a run
has one snapshot of a job, and none while no run is under way. With them every action
is a step of the service or invisible: `Send` needs that the message about to be written is
the next one, which is `OrderInv` of the snapshot, and that an attempt is not counted
without its message (`Counted`). `Move` says what a step that takes nothing up may do to
one job, and each action has a lemma that it does no more.

**SchedulerProofs.** `IInv` is `TypeOK`, `HeldIsWorking` and five parts: a run that is past
its admission has a schedule and a record (`OwnedInv`); a stored timer is that of a waiting
run (`TimersInv`); a run at work on a schedule that is not exposed holds its entry in
`activeRuns` (`WorkingHolds`); a run past the check shares its schedule with no other, unless
it is exposed (`AdmittedAlone`); executions and failed attempts count together
(`CountInv`). `OneRun` follows from `WorkingHolds`, since the entry holds one run; it is not
inductive without `AdmittedAlone`, because a run that was admitted takes the entry from
whoever has it. For the directories, `DInv` adds: the schedule of an admitted run is still
free (`AdmittedFree`); a schedule locks a directory only while a run holds it, and no second
one (`LocksOwn`, without which `releaseRunLocks` could free the wrong one, also after an edit
that moved the schedule); a run at work has its directory locked (`DirectoryHeld`, which gives
`OneSchedule`); a run being recorded shares its directory with no other schedule's run
(`RecordedApart`). The steps are of four kinds with one lemma each: quiet, releasing,
taking, entering.

**RuntimeDeliveryProofs.** Three invariants, each with a lemma per action.
- `TruthInv`: all records of a key are about one payload and carry ids of the key; a
  committed record and a receipt name a message that was made, and so does what a rollback
  would put back; every row and every message made has a record behind it; a call
  knows what its phase says it knows (`CallOK`). From it follow `TypeCorrect`,
  `AnswersTrue`, `CommitsSeen` and, since an armed call has the team's lock, `SupersededSilent`.
- `OnceInv`, for a key whose commits have not overlapped: records begun later carry
  the id of those they took over (`CoherentInv`), a key in its turn is alone
  (`TurnInv`), and once an answer was given or is about to be, the commit behind it stays
  (`FinalInv`). It gives `OneMessage` and `NeverRewritten`.
- `RowsOnceInv`: for a key none of whose rows was missed, a call that is about to write in
  the sent file has looked for the very id it will write, or there is no row of it. It
  gives `OneRow`; it needs `TruthInv`, and not `OnceInv`: rows stay single even where commits
  overlap.

Two small invariants more, that ids are of the key they stand for (`KeyedInv`) and that an
answered call is over (`AckInv`), give `ImplementsOnce`: a message is made when no other of
its key was, and answers name it. `NeverRaced` shows that the exception is the
reconciler's alone: turns keep the commits of two calls of a key apart, so as long
as no sweep begins no key is raced. Under that hypothesis, `[](sweep = None)`, the promises
are without exception: one message per key (`OneMessageAlone`), and for every key the
whole specification of `OnceOnly`, from the first call to the last (`ServedOnce`).

**Only model-checked.** The liveness properties `DeadOwnersReclaimed`, both `CallsEnd` and
`JobsSettle`: fairness and ENABLED are out of the prover's reach. Every other property of a
passing run has a theorem.

## 5. Where the code and what it says of itself differ

**A fresh runtime directory can be removed** (`filelock_takeover`). With the desktop's
default options `recoverDataLock` compares the directory it inspected with the one now at
the path (`src/src/main/services/team/fileLock.ts`, line 189) and then removes by path
(line 191). A runtime that releases its old directory and makes a new one between the two
calls loses the new one, and the caller publishes its own lock while the runtime works; an
update of one of the two can then be lost (`UpdatesAreAtomic` fails).
`fileLock.test.ts`, line 287, says fresh runtime directories are kept intact; the
controller's twin declines the takeover because of this race (`fileLock.js`, lines 170-173).

**A job given back for retry shuts itself out** (`recovery_shutout`). `claimTeam` makes a
stale claim `failed_retryable` but leaves the circuit's `activeProbeJobId` on the job
(`DispatchDueRecoveries.ts`, lines 134-144); line 164 then skips every due job of that
circuit, this one included, until it expires. The test "recovers a stale claim after
process restart" (`DispatchDueRecoveries.test.ts`, line 140) expects a delivery; its stored
circuit has no active probe, a combination that a claim never stores.

**The next attempt can be the one that failed** (`recovery_attempt`). A correlated failure
sets the attempt to `Math.max(causedJob.attempt, 1)` (`ObserveRuntimeFailure.ts`, line 242),
but attempts are counted only when a delivery is recorded as accepted. If the failure is
reported before that, the scheduled retry has the message id of the turn that failed,
is found in the inbox and sends nothing new; the configured maximum is not used up.
`ObserveRuntimeFailure.test.ts`, line 121, calls it the next bounded attempt.
`MessagesBounded` and `JobsSettle` hold nevertheless.

**A retry takes a directory that is in use** (`scheduler_retry`). A failed run releases both
locks before its delay (`SchedulerService.ts`, line 639); afterwards the retry looks at
`activeRuns` only (line 655) and `executeRunInBackground` overwrites `cwdLock` (line 562). A run
of another schedule that took the directory meanwhile goes on in it beside the retry, and its
lock is gone. Line 66 says the map prevents two runs in one directory, line 654 says the
locks are acquired again.

**A rollback beside another commit** (described only; `OneMessageUnlessRaced` and
`AnsweredNeverRewritten` except it, and without the exception TLC violates both, the first in
24 states). A commit is read back after the journal's lock was given back, and is rolled
back when that read misses. If the reconciler and a call commit the same record
and one of the two reads misses (a timeout is enough), that one's rollback removes the receipt
both left, though the other's commit stands and was answered. A later run then finds
no receipt, begins a record with an id of its own and writes the message again. The comment at
`RuntimeDeliveryService.ts`, lines 778-781, says that the rollback restores the exact lineage.
In this commit nothing outside the delivery boundary calls the reconciler
(`recoverOpenCodeRuntimeDeliveryJournal`), so the overlap cannot happen yet: `NeverRaced` proves
that without a sweep no key is raced.

One hazard of the lock is inherent: the PID of a dead owner may be given to another process,
and its lock then looks alive until that one exits. Safety is checked and proved with
`ReusePid`; the liveness run excludes it.

## 6. What is not modelled

- **Team provisioning** (`TeamProvisioningService` and its neighbours, the largest part of
  the program): launch and supervision of processes, mostly I/O and parsing. Its stores
  and delivery paths are parts of their own in section 1.
- **Renderer, preload, graph view, landing page**: no protocol state of their own, except
  for the renderer's halves of close coordination and of the manual queue (section 7).
- **MCP server**: checks arguments and forwards them to the controller; its idempotency key
  is an input of `TaskCreation`, its tasks are `ForeignCreate`.
- **Build, scripts, documentation, fixtures.**
- Parts of modelled components: see "Abstractions" in section 2.

How much of the code this is: the mapped lines are less than one percent of the
repository, most of which is user interface, process launching, parsing of provider output,
tests and assets, with no protocol in it. The parts of section 1 are where processes, stores
and timers meet; five of its eighteen are modelled, the others are in the plan.

## 7. Plan

Order of work; a module is followed by its runs and, where it pays, by its proofs.

1. *Done*: `FileLock` with `ReclaimableLock` and proofs; `LockedUpdate` on top of it, with
   proofs; `CommandLedger` and `TaskCreation` with `OnceOnly` and proofs; `RuntimeRecovery`
   with `RecoveryService`, `Scheduler` and `RuntimeDelivery` (with `OnceOnly` again) and proofs
   of all their safety properties.
2. **The rest of runtime recovery**: the claim limit of a sweep, history limits, the
   escalation message to the lead, sweeps over several teams.
3. **The rest of the scheduler**: the repository as a file
   of all schedules with read and write apart, to state that an edit is not lost; the
   run history, where an interrupted run must not stay "running" for ever.
4. **`PromptDelivery`**: the prompt ledger's states with the watchdog and the message path as
   two actors; abstract specification: a prompt that is answered at most once and ends in an
   answer or a reported failure. Runs: one prompt with two attempts and a lost answer;
   two prompts of one member.
5. **The rest of runtime delivery**: cross-team destinations with their outbox
   and its refusal of a reused id, and canonical names with the recovery they bring.
6. **`BridgeCommand`** with the lane's manifest: a command is not sent again while its outcome
   is unknown; a manifest read before the lease is checked again where it matters.
7. **`TaskBoard`**: status, review and kanban files under the board lock, with a failure
   between any two writes; the re-entrant `boardLock` on top of `FileLock`.
8. **`WorkSync`**, **`StorageWorker`** (retirement and replacement, which justifies the
   faults of `TaskCreation`), **`PermanentDeletion`**, **`ReviewMutation`**, then approvals,
   close coordination and the manual queue.

Modules that are or will be proved about use no RECURSIVE operator; all keep one action
per operation and their bounds among the constants, so that a theorem covers every bound.
