----------------------------- MODULE Scheduler -----------------------------
(***************************************************************************)
(* The scheduler of team runs: src/main/services/schedule.                 *)
(*                                                                         *)
(* A schedule fires on its cron expression or on demand.  A run of it goes *)
(* through awaits: the run is recorded, the agent's process executes, its  *)
(* outcome is recorded, a failure is retried after a delay.  Two locks in  *)
(* memory, activeRuns and cwdLock, are to keep one run per schedule and    *)
(* one run per working directory; schedules.json keeps the schedules.      *)
(* Everything runs in one event loop: a step below is the code between two *)
(* awaits, and any number of continuations may be pending at once.         *)
(*                                                                         *)
(* Left out: the run history and the logs (no decision reads them), the    *)
(* warm-up timers, the times of a record.  A save of schedules.json is one *)
(* step that changes the record of one schedule.                           *)
(***************************************************************************)
EXTENDS Naturals, FiniteSets

CONSTANTS Schedules,    \* the schedules
          Dirs,         \* the working directories
          Runs,         \* the run ids, each used once: a bound on admissions
          None,         \* no run, no schedule, no record
          MaxRetries,   \* EXECUTION_MAX_RETRIES
          MaxFailures,  \* maxConsecutiveFailures of every schedule
          MaxStops,     \* bound on the calls of stop()
          MaxEdits      \* bound on the user's changes of the schedules

ASSUME SchedulerAssumption ==
    /\ None \notin Schedules \union Runs
    /\ MaxRetries \in Nat
    /\ MaxFailures \in Nat \ {0}
    /\ MaxStops \in Nat
    /\ MaxEdits \in Nat

VARIABLES file,         \* schedules.json: a record per schedule, or None
          cronJobs,     \* the schedules whose cron job is there and not paused
          activeRuns,   \* per schedule, the run that holds it, or None
          cwdLock,      \* per directory, the schedule that holds it, or None
          timers,       \* retryDelayTimers: per schedule, the run waiting on it
          stopped,      \* the flag stop() raises
          starting,     \* start() is reading the schedules
          phase,        \* per run, the await its continuation is at
          ofSchedule,   \* per run, its schedule
          snapshot,     \* per run, the record of the schedule it works with
          retryCount,   \* per run, the attempts already failed
          \* Ghosts, read by the properties only
          executions,   \* per run that has not finished, how often the executor was called
          stops,        \* how often stop() was called
          edits,        \* how often the user changed a schedule
          exposed,      \* schedules a run of which was let in beside another
          exposedDirs   \* directories a run was let into beside another

memory == <<cronJobs, activeRuns, cwdLock, timers, stopped, starting>>
ghosts == <<executions, stops, edits, exposed, exposedDirs>>
vars == <<file, memory, phase, ofSchedule, snapshot, retryCount, ghosts>>

Record == [status : {"active", "paused"}, cwd : Dirs, failures : Nat]

\* The await a run is at.  "saving": admitted, the run is being recorded.
\* "running": the executor works.  "succeeded", "failed": the outcome is being
\* recorded.  "waiting": the retry delay.  "fetching": the retry passed its checks
\* and reads the schedule.  "closing": the finally block.  "stamping": it reads the
\* schedule again, "stamped": it writes that record back with its times.  "over":
\* nothing more happens of the run.
Phases == {"idle", "saving", "running", "succeeded", "failed", "waiting",
           "fetching", "closing", "stamping", "stamped", "over"}

Admitted == {"saving", "fetching"}             \* past the check, no lock yet
Working  == {"running", "succeeded", "failed"} \* started, not released

TypeOK ==
    /\ file \in [Schedules -> Record \union {None}]
    /\ cronJobs \subseteq Schedules
    /\ activeRuns \in [Schedules -> Runs \union {None}]
    /\ cwdLock \in [Dirs -> Schedules \union {None}]
    /\ timers \in [Schedules -> Runs \union {None}]
    /\ {stopped, starting} \subseteq BOOLEAN
    /\ phase \in [Runs -> Phases]
    /\ ofSchedule \in [Runs -> Schedules \union {None}]
    /\ snapshot \in [Runs -> Record \union {None}]
    /\ retryCount \in [Runs -> 0..MaxRetries]
    /\ executions \in [Runs -> Nat]
    /\ stops \in 0..MaxStops
    /\ edits \in 0..MaxEdits
    /\ exposed \subseteq Schedules
    /\ exposedDirs \subseteq Dirs

Active(s) == file[s] # None /\ file[s].status = "active"

\* start() on the schedules of an earlier session: one cron job per active one.
Init ==
    /\ file \in [Schedules -> [status : {"active"}, cwd : Dirs, failures : {0}]]
    /\ cronJobs = Schedules
    /\ activeRuns = [s \in Schedules |-> None]
    /\ cwdLock = [d \in Dirs |-> None]
    /\ timers = [s \in Schedules |-> None]
    /\ stopped = FALSE
    /\ starting = FALSE
    /\ phase = [r \in Runs |-> "idle"]
    /\ ofSchedule = [r \in Runs |-> None]
    /\ snapshot = [r \in Runs |-> None]
    /\ retryCount = [r \in Runs |-> 0]
    /\ executions = [r \in Runs |-> 0]
    /\ stops = 0
    /\ edits = 0
    /\ exposed = {}
    /\ exposedDirs = {}

-----------------------------------------------------------------------------
(* The locks. *)

\* The runs of s, and the runs in d, that are at one of the phases P.
RunsOf(s, P) == {r \in Runs : phase[r] \in P /\ ofSchedule[r] = s}
RunsIn(d, P) == {r \in Runs : phase[r] \in P /\ snapshot[r].cwd = d}

\* releaseRunLocks: whatever run holds the schedule is dropped, and one
\* directory of the schedule is freed, the first the map lists.
ReleaseRunLocks(s) ==
    /\ activeRuns' = [activeRuns EXCEPT ![s] = None]
    /\ \/ \E d \in Dirs : /\ cwdLock[d] = s
                          /\ cwdLock' = [cwdLock EXCEPT ![d] = None]
       \/ /\ \A d \in Dirs : cwdLock[d] # s
          /\ UNCHANGED cwdLock

\* The head of executeRunInBackground: both locks are set, free or not.
ExecuteRun(r, s, record) ==
    /\ activeRuns' = [activeRuns EXCEPT ![s] = r]
    /\ cwdLock' = [cwdLock EXCEPT ![record.cwd] = s]
    /\ phase' = [phase EXCEPT ![r] = "running"]
    /\ snapshot' = [snapshot EXCEPT ![r] = record]
    /\ executions' = [executions EXCEPT ![r] = @ + 1]

\* The finally block of r is next: of what r knew it reads only the schedule's id.
Finish(r) ==
    /\ phase' = [phase EXCEPT ![r] = "closing"]
    /\ snapshot' = [snapshot EXCEPT ![r] = None]
    /\ retryCount' = [retryCount EXCEPT ![r] = 0]
    /\ executions' = [executions EXCEPT ![r] = 0]

\* The continuation of r returns.
Return(r) ==
    /\ phase' = [phase EXCEPT ![r] = "over"]
    /\ ofSchedule' = [ofSchedule EXCEPT ![r] = None]
    /\ snapshot' = [snapshot EXCEPT ![r] = None]

\* Another schedule holds the directory.
HeldByOther(d, s) == cwdLock[d] \notin {None, s}

-----------------------------------------------------------------------------
(* Admission. *)

\* (As a mutant: the working directory is not checked.)
Admit_AnyDir(r, s) ==
    /\ phase[r] = "idle"
    /\ file[s] # None
    /\ activeRuns[s] = None
    /\ phase' = [phase EXCEPT ![r] = "saving"]
    /\ ofSchedule' = [ofSchedule EXCEPT ![r] = s]
    /\ snapshot' = [snapshot EXCEPT ![r] = file[s]]
    /\ exposed' = exposed \union (IF RunsOf(s, Admitted) # {} THEN {s} ELSE {})
    /\ exposedDirs' = exposedDirs \union
                        {d \in {file[s].cwd} :
                            \E q \in RunsIn(d, {"saving"}) : ofSchedule[q] # s}
    /\ UNCHANGED <<file, memory, retryCount, executions, stops, edits>>

\* triggerNow and onCronTick after their read of the schedule: the locks are
\* checked, then the run is recorded; nothing is locked until that write is done.
Admit(r, s) ==
    /\ phase[r] = "idle"
    /\ file[s] # None
    /\ activeRuns[s] = None
    /\ ~HeldByOther(file[s].cwd, s)
    /\ phase' = [phase EXCEPT ![r] = "saving"]
    /\ ofSchedule' = [ofSchedule EXCEPT ![r] = s]
    /\ snapshot' = [snapshot EXCEPT ![r] = file[s]]
    /\ exposed' = exposed \union (IF RunsOf(s, Admitted) # {} THEN {s} ELSE {})
    /\ exposedDirs' = exposedDirs \union
                        {d \in {file[s].cwd} :
                            \E q \in RunsIn(d, {"saving"}) : ofSchedule[q] # s}
    /\ UNCHANGED <<file, memory, retryCount, executions, stops, edits>>

\* The user starts a run; the schedule may be paused.
TriggerNow(r, s) == Admit(r, s)

\* The cron job fires.
OnCronTick(r, s) ==
    /\ s \in cronJobs
    /\ Active(s)
    /\ Admit(r, s)

\* The run is recorded: executeRunInBackground takes the locks and starts it.
Start(r) ==
    /\ phase[r] = "saving"
    /\ ExecuteRun(r, ofSchedule[r], snapshot[r])
    /\ UNCHANGED <<file, cronJobs, timers, stopped, starting, ofSchedule, retryCount,
                   stops, edits, exposed, exposedDirs>>

\* saveRun throws: the caller gets the error, no lock was taken.
StartFails(r) ==
    /\ phase[r] = "saving"
    /\ Return(r)
    /\ UNCHANGED <<file, memory, retryCount, ghosts>>

-----------------------------------------------------------------------------
(* Execution. *)

\* The process ends, by itself or killed; or it cannot be spawned.
ProcessExits(r) ==
    /\ phase[r] = "running"
    /\ \E outcome \in {"succeeded", "failed"} :
         phase' = [phase EXCEPT ![r] = outcome]
    /\ UNCHANGED <<file, memory, ofSchedule, snapshot, retryCount, ghosts>>

\* Exit code 0: completeRun, and resetConsecutiveFailures, which writes back the
\* record the run was started with when that one counted failures.
Complete(r) ==
    /\ phase[r] = "succeeded"
    /\ Finish(r)
    /\ file' = IF snapshot[r].failures = 0 THEN file
               ELSE [file EXCEPT ![ofSchedule[r]] = [snapshot[r] EXCEPT !.failures = 0]]
    /\ UNCHANGED <<memory, ofSchedule, stops, edits, exposed, exposedDirs>>

\* (As a mutant: the retry does not count.)
DelayRetry_Uncounted(r) ==
    /\ phase[r] = "failed"
    /\ retryCount[r] < MaxRetries
    /\ ReleaseRunLocks(ofSchedule[r])
    /\ timers' = [timers EXCEPT ![ofSchedule[r]] = r]
    /\ phase' = [phase EXCEPT ![r] = "waiting"]
    /\ snapshot' = [snapshot EXCEPT ![r] = None]
    /\ UNCHANGED <<file, cronJobs, stopped, starting, ofSchedule, retryCount, ghosts>>

\* (As a mutant: one retry too many.)
DelayRetry_OneMore(r) ==
    /\ phase[r] = "failed"
    /\ retryCount[r] <= MaxRetries
    /\ retryCount' = [retryCount EXCEPT ![r] = @ + 1]
    /\ ReleaseRunLocks(ofSchedule[r])
    /\ timers' = [timers EXCEPT ![ofSchedule[r]] = r]
    /\ phase' = [phase EXCEPT ![r] = "waiting"]
    /\ snapshot' = [snapshot EXCEPT ![r] = None]
    /\ UNCHANGED <<file, cronJobs, stopped, starting, ofSchedule, ghosts>>

\* handleRunFailure with attempts left: the locks are released and the retry, which
\* will read the schedule again, waits; its timer replaces the one another waiting
\* run had stored.
DelayRetry(r) ==
    /\ phase[r] = "failed"
    /\ retryCount[r] < MaxRetries
    /\ retryCount' = [retryCount EXCEPT ![r] = @ + 1]
    /\ ReleaseRunLocks(ofSchedule[r])
    /\ timers' = [timers EXCEPT ![ofSchedule[r]] = r]
    /\ phase' = [phase EXCEPT ![r] = "waiting"]
    /\ snapshot' = [snapshot EXCEPT ![r] = None]
    /\ UNCHANGED <<file, cronJobs, stopped, starting, ofSchedule, ghosts>>

\* The last attempt failed: incrementConsecutiveFailures writes back the record
\* the run was started with, one failure added, and pauses at the limit.
GiveUp(r) ==
    /\ phase[r] = "failed"
    /\ retryCount[r] = MaxRetries
    /\ LET s == ofSchedule[r]
           failures == snapshot[r].failures + 1
           pause == failures >= MaxFailures
       IN  /\ file' = [file EXCEPT ![s] =
                         [snapshot[r] EXCEPT !.failures = failures,
                                             !.status = IF pause THEN "paused" ELSE @]]
           /\ cronJobs' = IF pause THEN cronJobs \ {s} ELSE cronJobs
    /\ Finish(r)
    /\ UNCHANGED <<activeRuns, cwdLock, timers, stopped, starting, ofSchedule,
                   stops, edits, exposed, exposedDirs>>

\* A write throws while the outcome is recorded: the catch block takes a
\* succeeded run for a failed one; the second time only the finally block is left.
RecordFails(r) ==
    /\ \/ /\ phase[r] = "succeeded"
          /\ phase' = [phase EXCEPT ![r] = "failed"]
          /\ UNCHANGED <<snapshot, retryCount, executions>>
       \/ phase[r] = "failed" /\ Finish(r)
    /\ UNCHANGED <<file, memory, ofSchedule, stops, edits, exposed, exposedDirs>>

\* (As a mutant: the finally block leaves the locks.)
Close_Keeps(r) ==
    /\ phase[r] = "closing"
    /\ phase' = [phase EXCEPT ![r] = "stamping"]
    /\ UNCHANGED <<file, memory, ofSchedule, snapshot, retryCount, ghosts>>

\* The finally block: the locks go only if this run still holds the schedule.
Close(r) ==
    /\ phase[r] = "closing"
    /\ phase' = [phase EXCEPT ![r] = "stamping"]
    /\ IF activeRuns[ofSchedule[r]] = r
         THEN ReleaseRunLocks(ofSchedule[r])
         ELSE UNCHANGED <<activeRuns, cwdLock>>
    /\ UNCHANGED <<file, cronJobs, timers, stopped, starting, ofSchedule, snapshot,
                   retryCount, ghosts>>

\* updateScheduleTimestamps: the schedule is read, unless it was deleted or the
\* read throws ...
Stamp(r) ==
    /\ phase[r] = "stamping"
    /\ \/ /\ file[ofSchedule[r]] # None
          /\ phase' = [phase EXCEPT ![r] = "stamped"]
          /\ snapshot' = [snapshot EXCEPT ![r] = file[ofSchedule[r]]]
          /\ UNCHANGED ofSchedule
       \/ Return(r)
    /\ UNCHANGED <<file, memory, retryCount, ghosts>>

\* ... and written back, whatever was changed meanwhile; or the write throws.
SaveStamp(r) ==
    /\ phase[r] = "stamped"
    /\ file' \in {file, [file EXCEPT ![ofSchedule[r]] = snapshot[r]]}
    /\ Return(r)
    /\ UNCHANGED <<memory, retryCount, ghosts>>

-----------------------------------------------------------------------------
(* The retry. *)

\* (As a mutant: activeRuns is not checked again.)
RetryFires_Unchecked(r) ==
    LET s == ofSchedule[r] IN
    /\ phase[r] = "waiting"
    /\ timers' = [timers EXCEPT ![s] = None]
    /\ IF stopped
         THEN /\ Finish(r)
              /\ UNCHANGED exposed
         ELSE /\ phase' = [phase EXCEPT ![r] = "fetching"]
              /\ exposed' = exposed \union
                              (IF RunsOf(s, Admitted) # {} THEN {s} ELSE {})
              /\ UNCHANGED <<snapshot, retryCount, executions>>
    /\ UNCHANGED <<file, cronJobs, activeRuns, cwdLock, stopped, starting, ofSchedule,
                   stops, edits, exposedDirs>>

\* The delay is over.  The entry of the schedule is deleted, whichever run stored
\* it; the flag and activeRuns are checked, cwdLock is not.
RetryFires(r) ==
    LET s == ofSchedule[r] IN
    /\ phase[r] = "waiting"
    /\ timers' = [timers EXCEPT ![s] = None]
    /\ IF stopped \/ activeRuns[s] # None
         THEN /\ Finish(r)
              /\ UNCHANGED exposed
         ELSE /\ phase' = [phase EXCEPT ![r] = "fetching"]
              /\ exposed' = exposed \union
                              (IF RunsOf(s, Admitted) # {} THEN {s} ELSE {})
              /\ UNCHANGED <<snapshot, retryCount, executions>>
    /\ UNCHANGED <<file, cronJobs, activeRuns, cwdLock, stopped, starting, ofSchedule,
                   stops, edits, exposedDirs>>

\* getSchedule answers: the retry executes with the fresh record.
Retry(r) ==
    LET s == ofSchedule[r] IN
    /\ phase[r] = "fetching"
    /\ Active(s)
    /\ ExecuteRun(r, s, file[s])
    /\ exposedDirs' = exposedDirs \union
                        {d \in {file[s].cwd} :
                            \E q \in RunsIn(d, {"saving"} \union Working) : ofSchedule[q] # s}
    /\ UNCHANGED <<file, cronJobs, timers, stopped, starting, ofSchedule, retryCount,
                   stops, edits, exposed>>

\* The schedule was paused or deleted meanwhile: the run is recorded as failed.
RetryDropped(r) ==
    /\ phase[r] = "fetching"
    /\ ~Active(ofSchedule[r])
    /\ Finish(r)
    /\ UNCHANGED <<file, memory, ofSchedule, stops, edits, exposed, exposedDirs>>

-----------------------------------------------------------------------------
(* The user's operations, and the service's life. *)

\* updateSchedule: the launch configuration moves to another directory.
UpdateSchedule(s) ==
    /\ \E d \in Dirs \ {file[s].cwd} : file' = [file EXCEPT ![s].cwd = d]
    /\ UNCHANGED <<memory, exposed>>

\* pauseSchedule
PauseSchedule(s) ==
    /\ file[s].status = "active"
    /\ file' = [file EXCEPT ![s].status = "paused"]
    /\ cronJobs' = cronJobs \ {s}
    /\ UNCHANGED <<activeRuns, cwdLock, timers, stopped, starting, exposed>>

\* resumeSchedule
ResumeSchedule(s) ==
    /\ file[s].status = "paused"
    /\ file' = [file EXCEPT ![s].status = "active", ![s].failures = 0]
    /\ cronJobs' = cronJobs \union {s}
    /\ UNCHANGED <<activeRuns, cwdLock, timers, stopped, starting, exposed>>

\* deleteSchedule: the active run's process is killed, but its continuation is
\* not: the locks go at once, the run ends later.
DeleteSchedule(s) ==
    /\ file' = [file EXCEPT ![s] = None]
    /\ cronJobs' = cronJobs \ {s}
    /\ ReleaseRunLocks(s)
    /\ exposed' = exposed \union (IF RunsOf(s, Working) # {} THEN {s} ELSE {})
    /\ UNCHANGED <<timers, stopped, starting>>

Edit(s) ==
    /\ file[s] # None
    /\ edits < MaxEdits
    /\ edits' = edits + 1
    /\ \/ UpdateSchedule(s) \/ PauseSchedule(s)
       \/ ResumeSchedule(s) \/ DeleteSchedule(s)
    /\ UNCHANGED <<phase, ofSchedule, snapshot, retryCount, executions, stops,
                   exposedDirs>>

\* stop(): every process is killed, the stored timers are cleared (the runs they
\* would have woken are parked for good: nothing of them happens any more), the
\* locks are dropped.
Stop ==
    /\ stops < MaxStops
    /\ ~stopped
    /\ stopped' = TRUE
    /\ cronJobs' = {}
    /\ LET parked == {r \in Runs : \E s \in Schedules : timers[s] = r}
       IN  /\ phase' = [r \in Runs |-> IF r \in parked THEN "over" ELSE phase[r]]
           /\ ofSchedule' = [r \in Runs |-> IF r \in parked THEN None ELSE ofSchedule[r]]
           /\ retryCount' = [r \in Runs |-> IF r \in parked THEN 0 ELSE retryCount[r]]
           /\ executions' = [r \in Runs |-> IF r \in parked THEN 0 ELSE executions[r]]
    /\ timers' = [s \in Schedules |-> None]
    /\ activeRuns' = [s \in Schedules |-> None]
    /\ cwdLock' = [d \in Dirs |-> None]
    /\ exposed' = exposed \union {s \in Schedules : RunsOf(s, Working) # {}}
    /\ stops' = stops + 1
    /\ UNCHANGED <<file, starting, snapshot, edits, exposedDirs>>

\* start() after stop(), as reloadForClaudeRootChange calls them: retries may go
\* on, the schedules are still to be read.
Restart ==
    /\ stopped
    /\ stopped' = FALSE
    /\ starting' = TRUE
    /\ UNCHANGED <<file, cronJobs, activeRuns, cwdLock, timers, phase, ofSchedule,
                   snapshot, retryCount, ghosts>>

\* They are read: every active one gets its cron job.
LoadSchedules ==
    /\ starting
    /\ starting' = FALSE
    /\ cronJobs' = cronJobs \union {s \in Schedules : Active(s)}
    /\ UNCHANGED <<file, activeRuns, cwdLock, timers, stopped, phase, ofSchedule,
                   snapshot, retryCount, ghosts>>

-----------------------------------------------------------------------------

\* The steps of a run that only the event loop, the disk and the clock drive.
Continue(r) ==
    \/ Start(r) \/ StartFails(r)
    \/ Complete(r) \/ DelayRetry(r) \/ GiveUp(r) \/ RecordFails(r)
    \/ Close(r) \/ Stamp(r) \/ SaveStamp(r)
    \/ RetryFires(r) \/ Retry(r) \/ RetryDropped(r)

Next ==
    \/ \E r \in Runs : \/ Continue(r)
                       \/ ProcessExits(r)
                       \/ \E s \in Schedules : TriggerNow(r, s) \/ OnCronTick(r, s)
    \/ \E s \in Schedules : Edit(s)
    \/ Stop
    \/ Restart
    \/ LoadSchedules

Spec == Init /\ [][Next]_vars

-----------------------------------------------------------------------------
(* Properties. *)

\* A schedule never stays locked for a run that is not at work on it: the run in
\* activeRuns is executing, recording its outcome, or about to release.  A wrong
\* release, or a release left out on one path, would block the schedule until
\* the application restarts (SchedulerService.ts:592-599, 638-639, 835-845).
HeldIsWorking ==
    \A s \in Schedules : activeRuns[s] # None =>
        /\ phase[activeRuns[s]] \in Working \union {"closing"}
        /\ ofSchedule[activeRuns[s]] = s

\* "Only one run per schedule at a time" (SchedulerService.ts:63) fails only where
\* the code leaves a window: two runs of the schedule were past the check of
\* activeRuns and not yet started, or stop() or deleteSchedule() dropped the lock
\* of a run whose process was still ending.  In no other way do two runs of one
\* schedule execute at once: not by retries, not by late releases of others.
OneRunUnlessExposed ==
    \A s \in Schedules :
        s \in exposed \/ Cardinality(RunsOf(s, {"running"})) <= 1

\* The same for a directory: two schedules execute in it at once only after both
\* were admitted in one window, or a retry, which does not check cwdLock, went in
\* beside a run there, or one of the two schedules lost its locks as above.
OneScheduleUnlessExposed ==
    \A d \in Dirs : \A q, r \in RunsIn(d, {"running"}) :
        \/ ofSchedule[q] = ofSchedule[r]
        \/ d \in exposedDirs
        \/ {ofSchedule[q], ofSchedule[r]} \cap exposed # {}

\* An agent that acts in the user's directory is started for one run at most once
\* and once per retry, whatever is thrown, stopped or retried on the way, a
\* success whose record could not be written included (SchedulerService.ts:588-593).
ExecutionsBounded == \A r \in Runs : executions[r] <= MaxRetries + 1

\* "Re-acquire locks and retry" (SchedulerService.ts:654) under a lock that
\* "prevents two schedule runs on same dir" (line 66): a retry does not take the
\* directory from another schedule whose run executes in it.
RetryTakesNoHeldDirectory ==
    \A q, r \in Runs :
        /\ phase[q] = "running" /\ phase[r] = "running"
        /\ retryCount[r] > 0
        /\ snapshot[q].cwd = snapshot[r].cwd
        /\ cwdLock[snapshot[r].cwd] = ofSchedule[r]
        => ofSchedule[q] = ofSchedule[r]
=============================================================================
