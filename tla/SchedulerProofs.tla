-------------------------- MODULE SchedulerProofs --------------------------
(***************************************************************************)
(* Proofs about Scheduler, for any schedules, directories, runs and limits. *)
(***************************************************************************)
EXTENDS Scheduler, FiniteSetTheorems, TLAPS

\* A run between its admission and its end knows its schedule, and a record of it
\* where it goes on to use one.
OwnedInv ==
    \A r \in Runs :
        /\ phase[r] \notin {"idle", "over"} => ofSchedule[r] \in Schedules
        /\ phase[r] \in {"saving", "stamped"} \union Working => snapshot[r] \in Record

\* A stored timer is that of a run of its schedule which waits.
TimersInv ==
    \A s \in Schedules : timers[s] # None =>
        phase[timers[s]] = "waiting" /\ ofSchedule[timers[s]] = s

\* A run at work on a schedule whose locks were not dropped holds it.
WorkingHolds ==
    \A r \in Runs : phase[r] \in Working /\ ofSchedule[r] \notin exposed =>
        activeRuns[ofSchedule[r]] = r

\* A run past the check is alone with its schedule, unless another was let in too.
AdmittedAlone ==
    \A q, r \in Runs :
        /\ q # r
        /\ phase[q] \in Admitted
        /\ phase[r] \in Admitted \union Working
        /\ ofSchedule[q] = ofSchedule[r]
        => ofSchedule[q] \in exposed

\* What a run has executed, against its failed attempts.
CountInv ==
    \A r \in Runs :
        executions[r] <= IF phase[r] \in {"idle", "saving", "waiting", "fetching"}
                         THEN retryCount[r] ELSE retryCount[r] + 1

IInv == TypeOK /\ OwnedInv /\ TimersInv /\ HeldIsWorking /\ WorkingHolds
        /\ AdmittedAlone /\ CountInv

-----------------------------------------------------------------------------

\* What a release does to the locks, whichever directory it frees.
LEMMA Releases ==
    ASSUME TypeOK, NEW s \in Schedules, ReleaseRunLocks(s)
    PROVE  /\ activeRuns' = [activeRuns EXCEPT ![s] = None]
           /\ activeRuns' \in [Schedules -> Runs \union {None}]
           /\ cwdLock' \in [Dirs -> Schedules \union {None}]
BY DEF TypeOK, ReleaseRunLocks

\* The invariant holds of the schedules an earlier session left.
LEMMA InitInv == Init => IInv
<1> SUFFICES ASSUME Init PROVE IInv
  OBVIOUS
<1> USE SchedulerAssumption
<1>1. TypeOK
  <2>1. file \in [Schedules -> Record \union {None}]
    BY DEF Init, Record
  <2>2. retryCount \in [Runs -> 0..MaxRetries] /\ executions \in [Runs -> Nat]
    BY DEF Init
  <2>3. phase \in [Runs -> Phases] /\ ofSchedule \in [Runs -> Schedules \union {None}]
        /\ snapshot \in [Runs -> Record \union {None}]
    BY DEF Init, Phases
  <2>4. /\ activeRuns \in [Schedules -> Runs \union {None}]
        /\ cwdLock \in [Dirs -> Schedules \union {None}]
        /\ timers \in [Schedules -> Runs \union {None}]
    BY DEF Init
  <2>5. stops \in 0..MaxStops /\ edits \in 0..MaxEdits
    BY DEF Init
  <2>6. /\ cronJobs \subseteq Schedules /\ {stopped, starting} \subseteq BOOLEAN
        /\ exposed \subseteq Schedules /\ exposedDirs \subseteq Dirs
    BY DEF Init
  <2> QED
    BY <2>1, <2>2, <2>3, <2>4, <2>5, <2>6 DEF TypeOK
<1>2. OwnedInv /\ TimersInv /\ HeldIsWorking /\ WorkingHolds /\ AdmittedAlone /\ CountInv
  BY DEF Init, OwnedInv, TimersInv, HeldIsWorking, WorkingHolds, AdmittedAlone, CountInv,
         Working, Admitted
<1> QED
  BY <1>1, <1>2 DEF IInv

\* The invariant holds after a run starts.
LEMMA StartStep ==
    ASSUME IInv, NEW r \in Runs, Start(r)
    PROVE  IInv'
<1> USE SchedulerAssumption DEF IInv
<1>a. ofSchedule[r] \in Schedules /\ snapshot[r] \in Record
  BY DEF OwnedInv, Working, Start, ExecuteRun
<1>1. TypeOK'
  BY <1>a DEF TypeOK, OwnedInv, Phases, Record, Start, ExecuteRun
<1>2. OwnedInv'
  BY <1>a DEF OwnedInv, Working, TypeOK, Start, ExecuteRun
<1>3. TimersInv'
  BY <1>a DEF TimersInv, TypeOK, Start, ExecuteRun
<1>4. HeldIsWorking'
  BY <1>a DEF HeldIsWorking, TypeOK, Working, Admitted, Start, ExecuteRun
<1>5. WorkingHolds'
  BY <1>a DEF WorkingHolds, AdmittedAlone, TypeOK, Working, Admitted, Start, ExecuteRun
<1>6. AdmittedAlone'
  BY <1>a DEF AdmittedAlone, WorkingHolds, TypeOK, Working, Admitted, RunsOf, Start, ExecuteRun
<1>7. CountInv'
  BY <1>a DEF CountInv, TypeOK, Start, ExecuteRun
<1> QED
  BY <1>1, <1>2, <1>3, <1>4, <1>5, <1>6, <1>7

\* The invariant holds after a run cannot be recorded.
LEMMA StartFailsStep ==
    ASSUME IInv, NEW r \in Runs, StartFails(r)
    PROVE  IInv'
<1> USE SchedulerAssumption DEF IInv
<1>a. ofSchedule[r] \in Schedules /\ snapshot[r] \in Record
  BY DEF OwnedInv, Working, StartFails, Return, memory, ghosts
<1>1. TypeOK'
  BY <1>a DEF TypeOK, OwnedInv, Phases, Record, StartFails, Return, memory, ghosts
<1>2. OwnedInv'
  BY <1>a DEF OwnedInv, Working, TypeOK, StartFails, Return, memory, ghosts
<1>3. TimersInv'
  BY <1>a DEF TimersInv, TypeOK, StartFails, Return, memory, ghosts
<1>4. HeldIsWorking'
  BY <1>a DEF HeldIsWorking, TypeOK, Working, Admitted, StartFails, Return, memory, ghosts
<1>5. WorkingHolds'
  BY <1>a DEF WorkingHolds, HeldIsWorking, TypeOK, Working, Admitted, RunsOf, StartFails, Return, memory, ghosts
<1>6. AdmittedAlone'
  BY <1>a DEF AdmittedAlone, WorkingHolds, TypeOK, Working, Admitted, RunsOf, StartFails, Return, memory, ghosts
<1>7. CountInv'
  BY <1>a DEF CountInv, TypeOK, StartFails, Return, memory, ghosts
<1> QED
  BY <1>1, <1>2, <1>3, <1>4, <1>5, <1>6, <1>7

\* The invariant holds after the process ends.
LEMMA ProcessExitsStep ==
    ASSUME IInv, NEW r \in Runs, ProcessExits(r)
    PROVE  IInv'
<1> USE SchedulerAssumption DEF IInv
<1>a. ofSchedule[r] \in Schedules /\ snapshot[r] \in Record
  BY DEF OwnedInv, Working, ProcessExits, memory, ghosts
<1>1. TypeOK'
  BY <1>a DEF TypeOK, OwnedInv, Phases, Record, ProcessExits, memory, ghosts
<1>2. OwnedInv'
  BY <1>a DEF OwnedInv, Working, TypeOK, ProcessExits, memory, ghosts
<1>3. TimersInv'
  BY <1>a DEF TimersInv, TypeOK, ProcessExits, memory, ghosts
<1>4. HeldIsWorking'
  BY <1>a DEF HeldIsWorking, TypeOK, Working, Admitted, ProcessExits, memory, ghosts
<1>5. WorkingHolds'
  BY <1>a DEF WorkingHolds, HeldIsWorking, TypeOK, Working, Admitted, RunsOf, ProcessExits, memory, ghosts
<1>6. AdmittedAlone'
  BY <1>a DEF AdmittedAlone, WorkingHolds, TypeOK, Working, Admitted, RunsOf, ProcessExits, memory, ghosts
<1>7. CountInv'
  BY <1>a DEF CountInv, TypeOK, ProcessExits, memory, ghosts
<1> QED
  BY <1>1, <1>2, <1>3, <1>4, <1>5, <1>6, <1>7

\* The invariant holds after a success is recorded.
LEMMA CompleteStep ==
    ASSUME IInv, NEW r \in Runs, Complete(r)
    PROVE  IInv'
<1> USE SchedulerAssumption DEF IInv
<1>a. ofSchedule[r] \in Schedules /\ snapshot[r] \in Record
  BY DEF OwnedInv, Working, Complete, Finish, memory, ghosts
<1>1. TypeOK'
  BY <1>a DEF TypeOK, OwnedInv, Phases, Record, Complete, Finish, memory, ghosts
<1>2. OwnedInv'
  BY <1>a DEF OwnedInv, Working, TypeOK, Complete, Finish, memory, ghosts
<1>3. TimersInv'
  BY <1>a DEF TimersInv, TypeOK, Complete, Finish, memory, ghosts
<1>4. HeldIsWorking'
  BY <1>a DEF HeldIsWorking, TypeOK, Working, Admitted, Complete, Finish, memory, ghosts
<1>5. WorkingHolds'
  BY <1>a DEF WorkingHolds, HeldIsWorking, TypeOK, Working, Admitted, RunsOf, Complete, Finish, memory, ghosts
<1>6. AdmittedAlone'
  BY <1>a DEF AdmittedAlone, WorkingHolds, TypeOK, Working, Admitted, RunsOf, Complete, Finish, memory, ghosts
<1>7. CountInv'
  BY <1>a DEF CountInv, TypeOK, Complete, Finish, memory, ghosts
<1> QED
  BY <1>1, <1>2, <1>3, <1>4, <1>5, <1>6, <1>7

\* The invariant holds after a failed run waits for its retry.
LEMMA DelayRetryStep ==
    ASSUME IInv, NEW r \in Runs, DelayRetry(r)
    PROVE  IInv'
<1> USE SchedulerAssumption DEF IInv
<1>a. ofSchedule[r] \in Schedules /\ snapshot[r] \in Record
  BY DEF OwnedInv, Working, DelayRetry, ghosts
<1>1. TypeOK'
  BY <1>a DEF TypeOK, OwnedInv, Phases, Record, DelayRetry, ghosts, ReleaseRunLocks
<1>2. OwnedInv'
  BY <1>a DEF OwnedInv, Working, TypeOK, DelayRetry, ghosts, ReleaseRunLocks
<1>3. TimersInv'
  BY <1>a DEF TimersInv, TypeOK, DelayRetry, ghosts, ReleaseRunLocks
<1>4. HeldIsWorking'
  BY <1>a DEF HeldIsWorking, TypeOK, Working, Admitted, DelayRetry, ghosts, ReleaseRunLocks
<1>5. WorkingHolds'
  BY <1>a DEF WorkingHolds, HeldIsWorking, TypeOK, Working, Admitted, RunsOf, DelayRetry, ghosts, ReleaseRunLocks
<1>6. AdmittedAlone'
  BY <1>a DEF AdmittedAlone, WorkingHolds, TypeOK, Working, Admitted, RunsOf, DelayRetry, ghosts, ReleaseRunLocks
<1>7. CountInv'
  BY <1>a DEF CountInv, TypeOK, DelayRetry, ghosts, ReleaseRunLocks
<1> QED
  BY <1>1, <1>2, <1>3, <1>4, <1>5, <1>6, <1>7

\* The invariant holds after the last failure is recorded.
LEMMA GiveUpStep ==
    ASSUME IInv, NEW r \in Runs, GiveUp(r)
    PROVE  IInv'
<1> USE SchedulerAssumption DEF IInv
<1>a. ofSchedule[r] \in Schedules /\ snapshot[r] \in Record
  BY DEF OwnedInv, Working, GiveUp, Finish, ghosts
<1>1. TypeOK'
  <2>1. file' \in [Schedules -> Record \union {None}]
    <3> DEFINE failures == snapshot[r].failures + 1
               written == [snapshot[r] EXCEPT !.failures = failures,
                              !.status = IF failures >= MaxFailures THEN "paused" ELSE @]
    <3>1. written \in Record
      <4>1. failures \in Nat /\ snapshot[r].status \in {"active", "paused"}
        BY <1>a DEF Record
      <4> HIDE DEF failures
      <4>2. \A status \in {"active", "paused"} :
              [snapshot[r] EXCEPT !.failures = failures, !.status = status] \in Record
        BY <1>a, <4>1 DEF Record
      <4>3. CASE failures >= MaxFailures
        BY <4>2, <4>3, <1>a DEF Record
      <4>4. CASE ~(failures >= MaxFailures)
        BY <4>2, <4>1, <4>4, <1>a DEF Record
      <4> QED
        BY <4>3, <4>4
    <3>2. file' = [file EXCEPT ![ofSchedule[r]] = written]
      BY DEF GiveUp, Finish
    <3> QED
      BY <1>a, <3>1, <3>2 DEF TypeOK
  <2>2. cronJobs' \subseteq Schedules /\ phase' \in [Runs -> Phases]
    BY DEF TypeOK, Phases, GiveUp, Finish
  <2> QED
    BY <2>1, <2>2 DEF TypeOK, GiveUp, Finish, ghosts
<1>2. OwnedInv'
  BY <1>a DEF OwnedInv, Working, TypeOK, GiveUp, Finish, ghosts
<1>3. TimersInv'
  BY <1>a DEF TimersInv, TypeOK, GiveUp, Finish, ghosts
<1>4. HeldIsWorking'
  BY <1>a DEF HeldIsWorking, TypeOK, Working, Admitted, GiveUp, Finish, ghosts
<1>5. WorkingHolds'
  BY <1>a DEF WorkingHolds, HeldIsWorking, TypeOK, Working, Admitted, RunsOf, GiveUp, Finish, ghosts
<1>6. AdmittedAlone'
  BY <1>a DEF AdmittedAlone, WorkingHolds, TypeOK, Working, Admitted, RunsOf, GiveUp, Finish, ghosts
<1>7. CountInv'
  BY <1>a DEF CountInv, TypeOK, GiveUp, Finish, ghosts
<1> QED
  BY <1>1, <1>2, <1>3, <1>4, <1>5, <1>6, <1>7

\* The invariant holds after recording an outcome throws.
LEMMA RecordFailsStep ==
    ASSUME IInv, NEW r \in Runs, RecordFails(r)
    PROVE  IInv'
<1> USE SchedulerAssumption DEF IInv
<1>a. ofSchedule[r] \in Schedules /\ snapshot[r] \in Record
  BY DEF OwnedInv, Working, RecordFails, Finish, memory, ghosts
<1>1. TypeOK'
  BY <1>a DEF TypeOK, OwnedInv, Phases, Record, RecordFails, Finish, memory, ghosts
<1>2. OwnedInv'
  BY <1>a DEF OwnedInv, Working, TypeOK, RecordFails, Finish, memory, ghosts
<1>3. TimersInv'
  BY <1>a DEF TimersInv, TypeOK, RecordFails, Finish, memory, ghosts
<1>4. HeldIsWorking'
  BY <1>a DEF HeldIsWorking, TypeOK, Working, Admitted, RecordFails, Finish, memory, ghosts
<1>5. WorkingHolds'
  BY <1>a DEF WorkingHolds, HeldIsWorking, TypeOK, Working, Admitted, RunsOf, RecordFails, Finish, memory, ghosts
<1>6. AdmittedAlone'
  BY <1>a DEF AdmittedAlone, WorkingHolds, TypeOK, Working, Admitted, RunsOf, RecordFails, Finish, memory, ghosts
<1>7. CountInv'
  BY <1>a DEF CountInv, TypeOK, RecordFails, Finish, memory, ghosts
<1> QED
  BY <1>1, <1>2, <1>3, <1>4, <1>5, <1>6, <1>7

\* The invariant holds after a run releases what it holds.
LEMMA CloseStep ==
    ASSUME IInv, NEW r \in Runs, Close(r)
    PROVE  IInv'
<1> USE SchedulerAssumption DEF IInv
<1>a. ofSchedule[r] \in Schedules
  BY DEF OwnedInv, Working, Close, ghosts
<1>1. TypeOK'
  BY <1>a DEF TypeOK, OwnedInv, Phases, Record, Close, ghosts, ReleaseRunLocks
<1>2. OwnedInv'
  BY <1>a DEF OwnedInv, Working, TypeOK, Close, ghosts, ReleaseRunLocks
<1>3. TimersInv'
  BY <1>a DEF TimersInv, TypeOK, Close, ghosts, ReleaseRunLocks
<1>4. HeldIsWorking'
  BY <1>a DEF HeldIsWorking, TypeOK, Working, Admitted, Close, ghosts, ReleaseRunLocks
<1>5. WorkingHolds'
  <2> SUFFICES ASSUME NEW q \in Runs, phase'[q] \in Working, ofSchedule'[q] \notin exposed'
               PROVE  activeRuns'[ofSchedule'[q]] = q
    BY DEF WorkingHolds
  <2>1. q # r /\ phase[q] \in Working /\ ofSchedule'[q] = ofSchedule[q] /\ exposed' = exposed
    BY DEF Close, TypeOK, Working, ghosts
  <2>2. activeRuns[ofSchedule[q]] = q
    BY <2>1 DEF WorkingHolds
  <2>3. ofSchedule[q] \in Schedules
    BY <2>1 DEF OwnedInv, Working
  <2>4. CASE activeRuns[ofSchedule[r]] = r
    BY <1>a, <2>1, <2>2, <2>3, <2>4, Releases DEF Close, TypeOK
  <2>5. CASE activeRuns[ofSchedule[r]] # r
    BY <2>1, <2>2, <2>5 DEF Close
  <2> QED
    BY <2>4, <2>5
<1>6. AdmittedAlone'
  BY <1>a DEF AdmittedAlone, WorkingHolds, TypeOK, Working, Admitted, RunsOf, Close, ghosts, ReleaseRunLocks
<1>7. CountInv'
  BY <1>a DEF CountInv, TypeOK, Close, ghosts, ReleaseRunLocks
<1> QED
  BY <1>1, <1>2, <1>3, <1>4, <1>5, <1>6, <1>7

\* The invariant holds after a run that ends reads its schedule again.
LEMMA StampStep ==
    ASSUME IInv, NEW r \in Runs, Stamp(r)
    PROVE  IInv'
<1> USE SchedulerAssumption DEF IInv
<1>a. ofSchedule[r] \in Schedules
  BY DEF OwnedInv, Stamp
<1>1. TypeOK'
  BY <1>a DEF TypeOK, Phases, Stamp, Return, memory, ghosts
<1>2. OwnedInv'
  BY <1>a DEF OwnedInv, Working, TypeOK, Stamp, Return, memory, ghosts
<1>3. TimersInv'
  BY <1>a DEF TimersInv, TypeOK, Stamp, Return, memory, ghosts
<1>4. HeldIsWorking'
  BY <1>a DEF HeldIsWorking, TypeOK, Working, Stamp, Return, memory, ghosts
<1>5. WorkingHolds'
  BY <1>a DEF WorkingHolds, TypeOK, Working, Stamp, Return, memory, ghosts
<1>6. AdmittedAlone'
  BY <1>a DEF AdmittedAlone, TypeOK, Working, Admitted, Stamp, Return, memory, ghosts
<1>7. CountInv'
  BY <1>a DEF CountInv, TypeOK, Stamp, Return, memory, ghosts
<1> QED
  BY <1>1, <1>2, <1>3, <1>4, <1>5, <1>6, <1>7

\* The invariant holds after a run that ends writes its schedule back.
LEMMA SaveStampStep ==
    ASSUME IInv, NEW r \in Runs, SaveStamp(r)
    PROVE  IInv'
<1> USE SchedulerAssumption DEF IInv
<1>a. ofSchedule[r] \in Schedules /\ snapshot[r] \in Record
  BY DEF OwnedInv, SaveStamp
<1>1. TypeOK'
  BY <1>a DEF TypeOK, Phases, SaveStamp, Return, memory, ghosts
<1>2. OwnedInv'
  BY <1>a DEF OwnedInv, Working, TypeOK, SaveStamp, Return, memory, ghosts
<1>3. TimersInv'
  BY <1>a DEF TimersInv, TypeOK, SaveStamp, Return, memory, ghosts
<1>4. HeldIsWorking'
  BY <1>a DEF HeldIsWorking, TypeOK, Working, SaveStamp, Return, memory, ghosts
<1>5. WorkingHolds'
  BY <1>a DEF WorkingHolds, TypeOK, Working, SaveStamp, Return, memory, ghosts
<1>6. AdmittedAlone'
  BY <1>a DEF AdmittedAlone, TypeOK, Working, Admitted, SaveStamp, Return, memory, ghosts
<1>7. CountInv'
  BY <1>a DEF CountInv, TypeOK, SaveStamp, Return, memory, ghosts
<1> QED
  BY <1>1, <1>2, <1>3, <1>4, <1>5, <1>6, <1>7

\* The invariant holds after the delay of a retry ends.
LEMMA RetryFiresStep ==
    ASSUME IInv, NEW r \in Runs, RetryFires(r)
    PROVE  IInv'
<1> USE SchedulerAssumption DEF IInv
<1>a. ofSchedule[r] \in Schedules
  BY DEF OwnedInv, RetryFires, Finish
<1>1. TypeOK'
  BY <1>a DEF TypeOK, OwnedInv, Phases, Record, RetryFires, Finish
<1>2. OwnedInv'
  BY <1>a DEF OwnedInv, Working, TypeOK, RetryFires, Finish
<1>3. TimersInv'
  BY <1>a DEF TimersInv, TypeOK, RetryFires, Finish
<1>4. HeldIsWorking'
  BY <1>a DEF HeldIsWorking, TypeOK, Working, Admitted, RetryFires, Finish
<1>5. WorkingHolds'
  BY <1>a DEF WorkingHolds, HeldIsWorking, TypeOK, Working, Admitted, RunsOf, RetryFires, Finish
<1>6. AdmittedAlone'
  BY <1>a DEF AdmittedAlone, WorkingHolds, TypeOK, Working, Admitted, RunsOf, RetryFires, Finish
<1>7. CountInv'
  BY <1>a DEF CountInv, TypeOK, RetryFires, Finish
<1> QED
  BY <1>1, <1>2, <1>3, <1>4, <1>5, <1>6, <1>7

\* The invariant holds after a retry executes.
LEMMA RetryStep ==
    ASSUME IInv, NEW r \in Runs, Retry(r)
    PROVE  IInv'
<1> USE SchedulerAssumption DEF IInv
<1>a. ofSchedule[r] \in Schedules
  BY DEF OwnedInv, Retry, ExecuteRun, Active
<1>1. TypeOK'
  BY <1>a DEF TypeOK, OwnedInv, Phases, Record, Retry, ExecuteRun, Active
<1>2. OwnedInv'
  BY <1>a DEF OwnedInv, Working, TypeOK, Retry, ExecuteRun, Active
<1>3. TimersInv'
  BY <1>a DEF TimersInv, TypeOK, Retry, ExecuteRun, Active
<1>4. HeldIsWorking'
  BY <1>a DEF HeldIsWorking, TypeOK, Working, Admitted, Retry, ExecuteRun, Active
<1>5. WorkingHolds'
  BY <1>a DEF WorkingHolds, AdmittedAlone, TypeOK, Working, Admitted, Retry, ExecuteRun
<1>6. AdmittedAlone'
  BY <1>a DEF AdmittedAlone, WorkingHolds, TypeOK, Working, Admitted, RunsOf, Retry, ExecuteRun, Active
<1>7. CountInv'
  BY <1>a DEF CountInv, TypeOK, Retry, ExecuteRun, Active
<1> QED
  BY <1>1, <1>2, <1>3, <1>4, <1>5, <1>6, <1>7

\* The invariant holds after a retry is dropped.
LEMMA RetryDroppedStep ==
    ASSUME IInv, NEW r \in Runs, RetryDropped(r)
    PROVE  IInv'
<1> USE SchedulerAssumption DEF IInv
<1>a. ofSchedule[r] \in Schedules
  BY DEF OwnedInv, RetryDropped, Finish, memory, ghosts
<1>1. TypeOK'
  BY <1>a DEF TypeOK, OwnedInv, Phases, Record, RetryDropped, Finish, memory, ghosts
<1>2. OwnedInv'
  BY <1>a DEF OwnedInv, Working, TypeOK, RetryDropped, Finish, memory, ghosts
<1>3. TimersInv'
  BY <1>a DEF TimersInv, TypeOK, RetryDropped, Finish, memory, ghosts
<1>4. HeldIsWorking'
  BY <1>a DEF HeldIsWorking, TypeOK, Working, Admitted, RetryDropped, Finish, memory, ghosts
<1>5. WorkingHolds'
  BY <1>a DEF WorkingHolds, HeldIsWorking, TypeOK, Working, Admitted, RunsOf, RetryDropped, Finish, memory, ghosts
<1>6. AdmittedAlone'
  BY <1>a DEF AdmittedAlone, WorkingHolds, TypeOK, Working, Admitted, RunsOf, RetryDropped, Finish, memory, ghosts
<1>7. CountInv'
  BY <1>a DEF CountInv, TypeOK, RetryDropped, Finish, memory, ghosts
<1> QED
  BY <1>1, <1>2, <1>3, <1>4, <1>5, <1>6, <1>7

\* The invariant holds after a run is admitted.
LEMMA AdmitStep ==
    ASSUME IInv, NEW r \in Runs, NEW s \in Schedules, Admit(r, s)
    PROVE  IInv'
<1> USE SchedulerAssumption DEF IInv
<1>1. TypeOK'
  BY DEF TypeOK, OwnedInv, Phases, Record, Admit, memory
<1>2. OwnedInv'
  BY DEF OwnedInv, Working, TypeOK, Admit, memory
<1>3. TimersInv'
  BY DEF TimersInv, TypeOK, Admit, memory
<1>4. HeldIsWorking'
  BY DEF HeldIsWorking, TypeOK, Working, Admitted, Admit, memory
<1>5. WorkingHolds'
  BY DEF WorkingHolds, HeldIsWorking, TypeOK, Working, Admitted, RunsOf, Admit, memory
<1>6. AdmittedAlone'
  BY DEF AdmittedAlone, WorkingHolds, TypeOK, Working, Admitted, RunsOf, Admit, memory
<1>7. CountInv'
  BY DEF CountInv, TypeOK, Admit, memory
<1> QED
  BY <1>1, <1>2, <1>3, <1>4, <1>5, <1>6, <1>7

\* The invariant holds after a schedule moves.
LEMMA UpdateStep ==
    ASSUME IInv, NEW s \in Schedules, file[s] # None, Edit(s), UpdateSchedule(s)
    PROVE  IInv'
<1> USE SchedulerAssumption DEF IInv
<1>1. TypeOK'
  BY DEF TypeOK, OwnedInv, Phases, Record, Edit, UpdateSchedule, memory
<1>2. OwnedInv'
  BY DEF OwnedInv, Working, TypeOK, Edit, UpdateSchedule, memory
<1>3. TimersInv'
  BY DEF TimersInv, TypeOK, Edit, UpdateSchedule, memory
<1>4. HeldIsWorking'
  BY DEF HeldIsWorking, TypeOK, Working, Admitted, Edit, UpdateSchedule, memory
<1>5. WorkingHolds'
  BY DEF WorkingHolds, HeldIsWorking, TypeOK, Working, Admitted, RunsOf, Edit, UpdateSchedule, memory
<1>6. AdmittedAlone'
  BY DEF AdmittedAlone, WorkingHolds, TypeOK, Working, Admitted, RunsOf, Edit, UpdateSchedule, memory
<1>7. CountInv'
  BY DEF CountInv, TypeOK, Edit, UpdateSchedule, memory
<1> QED
  BY <1>1, <1>2, <1>3, <1>4, <1>5, <1>6, <1>7

\* The invariant holds after a schedule is paused.
LEMMA PauseStep ==
    ASSUME IInv, NEW s \in Schedules, file[s] # None, Edit(s), PauseSchedule(s)
    PROVE  IInv'
<1> USE SchedulerAssumption DEF IInv
<1>1. TypeOK'
  BY DEF TypeOK, OwnedInv, Phases, Record, Edit, PauseSchedule
<1>2. OwnedInv'
  BY DEF OwnedInv, Working, TypeOK, Edit, PauseSchedule
<1>3. TimersInv'
  BY DEF TimersInv, TypeOK, Edit, PauseSchedule
<1>4. HeldIsWorking'
  BY DEF HeldIsWorking, TypeOK, Working, Admitted, Edit, PauseSchedule
<1>5. WorkingHolds'
  BY DEF WorkingHolds, HeldIsWorking, TypeOK, Working, Admitted, RunsOf, Edit, PauseSchedule
<1>6. AdmittedAlone'
  BY DEF AdmittedAlone, WorkingHolds, TypeOK, Working, Admitted, RunsOf, Edit, PauseSchedule
<1>7. CountInv'
  BY DEF CountInv, TypeOK, Edit, PauseSchedule
<1> QED
  BY <1>1, <1>2, <1>3, <1>4, <1>5, <1>6, <1>7

\* The invariant holds after a schedule is resumed.
LEMMA ResumeStep ==
    ASSUME IInv, NEW s \in Schedules, file[s] # None, Edit(s), ResumeSchedule(s)
    PROVE  IInv'
<1> USE SchedulerAssumption DEF IInv
<1>1. TypeOK'
  <2>1. file[s] \in Record
    BY DEF TypeOK
  <2>2. file' \in [Schedules -> Record \union {None}]
    <3> DEFINE written == [file[s] EXCEPT !.status = "active", !.failures = 0]
    <3>1. written \in Record
      BY <2>1 DEF Record
    <3>2. file' = [file EXCEPT ![s] = written]
      BY <2>1 DEF ResumeSchedule, Record, TypeOK
    <3> QED
      BY <3>1, <3>2 DEF TypeOK
  <2>3. cronJobs' \subseteq Schedules /\ edits' \in 0..MaxEdits
    BY DEF TypeOK, Edit, ResumeSchedule
  <2> QED
    BY <2>2, <2>3 DEF TypeOK, Edit, ResumeSchedule
<1>2. OwnedInv'
  BY DEF OwnedInv, Working, TypeOK, Edit, ResumeSchedule
<1>3. TimersInv'
  BY DEF TimersInv, TypeOK, Edit, ResumeSchedule
<1>4. HeldIsWorking'
  BY DEF HeldIsWorking, TypeOK, Working, Admitted, Edit, ResumeSchedule
<1>5. WorkingHolds'
  BY DEF WorkingHolds, HeldIsWorking, TypeOK, Working, Admitted, RunsOf, Edit, ResumeSchedule
<1>6. AdmittedAlone'
  BY DEF AdmittedAlone, WorkingHolds, TypeOK, Working, Admitted, RunsOf, Edit, ResumeSchedule
<1>7. CountInv'
  BY DEF CountInv, TypeOK, Edit, ResumeSchedule
<1> QED
  BY <1>1, <1>2, <1>3, <1>4, <1>5, <1>6, <1>7

\* The invariant holds after a schedule is deleted.
LEMMA DeleteStep ==
    ASSUME IInv, NEW s \in Schedules, file[s] # None, Edit(s), DeleteSchedule(s)
    PROVE  IInv'
<1> USE SchedulerAssumption DEF IInv
<1>1. TypeOK'
  BY DEF TypeOK, OwnedInv, Phases, Record, Edit, DeleteSchedule, ReleaseRunLocks
<1>2. OwnedInv'
  BY DEF OwnedInv, Working, TypeOK, Edit, DeleteSchedule, ReleaseRunLocks
<1>3. TimersInv'
  BY DEF TimersInv, TypeOK, Edit, DeleteSchedule, ReleaseRunLocks
<1>4. HeldIsWorking'
  BY DEF HeldIsWorking, TypeOK, Working, Admitted, Edit, DeleteSchedule, ReleaseRunLocks
<1>5. WorkingHolds'
  BY DEF WorkingHolds, HeldIsWorking, TypeOK, Working, Admitted, RunsOf, Edit, DeleteSchedule, ReleaseRunLocks
<1>6. AdmittedAlone'
  BY DEF AdmittedAlone, WorkingHolds, TypeOK, Working, Admitted, RunsOf, Edit, DeleteSchedule, ReleaseRunLocks
<1>7. CountInv'
  BY DEF CountInv, TypeOK, Edit, DeleteSchedule, ReleaseRunLocks
<1> QED
  BY <1>1, <1>2, <1>3, <1>4, <1>5, <1>6, <1>7

\* The invariant holds after stop().
LEMMA StopStep ==
    ASSUME IInv, Stop
    PROVE  IInv'
<1> USE SchedulerAssumption DEF IInv
<1> DEFINE parked == {r \in Runs : \E s \in Schedules : timers[s] = r}
<1>p. \A r \in parked : /\ phase[r] = "waiting" /\ phase'[r] = "over"
                         /\ ofSchedule'[r] = None
                         /\ retryCount'[r] = 0 /\ executions'[r] = 0
  <2> TAKE r \in parked
  <2>1. phase[r] = "waiting"
    BY SchedulerAssumption DEF TimersInv
  <2> QED
    BY <2>1 DEF Stop
<1>q. \A r \in Runs \ parked : /\ phase'[r] = phase[r] /\ ofSchedule'[r] = ofSchedule[r]
                                /\ retryCount'[r] = retryCount[r]
                                /\ executions'[r] = executions[r]
  BY DEF Stop
<1>s. snapshot' = snapshot /\ exposed' = exposed \union {s \in Schedules : RunsOf(s, Working) # {}}
  BY DEF Stop
<1>1. TypeOK'
  <2>1. phase' \in [Runs -> Phases] /\ ofSchedule' \in [Runs -> Schedules \union {None}]
    BY DEF TypeOK, Phases, Stop
  <2>2. retryCount' \in [Runs -> 0..MaxRetries] /\ executions' \in [Runs -> Nat]
    BY DEF TypeOK, Stop
  <2> QED
    BY <2>1, <2>2 DEF TypeOK, Stop
<1> HIDE DEF parked
<1>2. OwnedInv'
  BY <1>p, <1>q, <1>s DEF OwnedInv, Working
<1>3. TimersInv'
  BY DEF TimersInv, TypeOK, Stop
<1>4. HeldIsWorking'
  BY DEF HeldIsWorking, TypeOK, Working, Admitted, Stop
<1>5. WorkingHolds'
  BY <1>p, <1>q, <1>s DEF WorkingHolds, OwnedInv, Working, RunsOf
<1>6. AdmittedAlone'
  BY <1>p, <1>q, <1>s DEF AdmittedAlone, Working, Admitted
<1>7. CountInv'
  BY <1>p, <1>q DEF CountInv, TypeOK
<1> QED
  BY <1>1, <1>2, <1>3, <1>4, <1>5, <1>6, <1>7

\* The invariant holds after start().
LEMMA RestartStep ==
    ASSUME IInv, Restart
    PROVE  IInv'
<1> USE SchedulerAssumption DEF IInv
<1>1. TypeOK'
  BY DEF TypeOK, OwnedInv, Phases, Record, Restart, memory, ghosts
<1>2. OwnedInv'
  BY DEF OwnedInv, Working, TypeOK, Restart, memory, ghosts
<1>3. TimersInv'
  BY DEF TimersInv, TypeOK, Restart, memory, ghosts
<1>4. HeldIsWorking'
  BY DEF HeldIsWorking, TypeOK, Working, Admitted, Restart, memory, ghosts
<1>5. WorkingHolds'
  BY DEF WorkingHolds, HeldIsWorking, TypeOK, Working, Admitted, RunsOf, Restart, memory, ghosts
<1>6. AdmittedAlone'
  BY DEF AdmittedAlone, WorkingHolds, TypeOK, Working, Admitted, RunsOf, Restart, memory, ghosts
<1>7. CountInv'
  BY DEF CountInv, TypeOK, Restart, memory, ghosts
<1> QED
  BY <1>1, <1>2, <1>3, <1>4, <1>5, <1>6, <1>7

\* The invariant holds after the schedules are read.
LEMMA LoadSchedulesStep ==
    ASSUME IInv, LoadSchedules
    PROVE  IInv'
<1> USE SchedulerAssumption DEF IInv
<1>1. TypeOK'
  BY DEF TypeOK, OwnedInv, Phases, Record, LoadSchedules, memory, ghosts
<1>2. OwnedInv'
  BY DEF OwnedInv, Working, TypeOK, LoadSchedules, memory, ghosts
<1>3. TimersInv'
  BY DEF TimersInv, TypeOK, LoadSchedules, memory, ghosts
<1>4. HeldIsWorking'
  BY DEF HeldIsWorking, TypeOK, Working, Admitted, LoadSchedules, memory, ghosts
<1>5. WorkingHolds'
  BY DEF WorkingHolds, HeldIsWorking, TypeOK, Working, Admitted, RunsOf, LoadSchedules, memory, ghosts
<1>6. AdmittedAlone'
  BY DEF AdmittedAlone, WorkingHolds, TypeOK, Working, Admitted, RunsOf, LoadSchedules, memory, ghosts
<1>7. CountInv'
  BY DEF CountInv, TypeOK, LoadSchedules, memory, ghosts
<1> QED
  BY <1>1, <1>2, <1>3, <1>4, <1>5, <1>6, <1>7

\* The invariant holds after a step of somebody else.
LEMMA StutterStep ==
    ASSUME IInv, UNCHANGED vars
    PROVE  IInv'
<1> USE SchedulerAssumption DEF IInv
<1>1. TypeOK'
  BY DEF TypeOK, OwnedInv, Phases, Record, vars, memory, ghosts
<1>2. OwnedInv'
  BY DEF OwnedInv, Working, TypeOK, vars, memory, ghosts
<1>3. TimersInv'
  BY DEF TimersInv, TypeOK, vars, memory, ghosts
<1>4. HeldIsWorking'
  BY DEF HeldIsWorking, TypeOK, Working, Admitted, vars, memory, ghosts
<1>5. WorkingHolds'
  BY DEF WorkingHolds, HeldIsWorking, TypeOK, Working, Admitted, RunsOf, vars, memory, ghosts
<1>6. AdmittedAlone'
  BY DEF AdmittedAlone, WorkingHolds, TypeOK, Working, Admitted, RunsOf, vars, memory, ghosts
<1>7. CountInv'
  BY DEF CountInv, TypeOK, vars, memory, ghosts
<1> QED
  BY <1>1, <1>2, <1>3, <1>4, <1>5, <1>6, <1>7

-----------------------------------------------------------------------------

\* Every step keeps the invariant.
LEMMA NextInv == IInv /\ [Next]_vars => IInv'
<1> SUFFICES ASSUME IInv, [Next]_vars PROVE IInv'
  OBVIOUS
<1>1. CASE \E r \in Runs : Continue(r) \/ ProcessExits(r)
  BY <1>1, StartStep, StartFailsStep, CompleteStep, DelayRetryStep, GiveUpStep, RecordFailsStep,
     CloseStep, StampStep, SaveStampStep, RetryFiresStep, RetryStep, RetryDroppedStep,
     ProcessExitsStep DEF Continue
<1>2. CASE \E r \in Runs : \E s \in Schedules : TriggerNow(r, s) \/ OnCronTick(r, s)
  BY <1>2, AdmitStep DEF TriggerNow, OnCronTick
<1>3. CASE \E s \in Schedules : Edit(s)
  BY <1>3, UpdateStep, PauseStep, ResumeStep, DeleteStep DEF Edit
<1>4. CASE Stop \/ Restart \/ LoadSchedules \/ UNCHANGED vars
  BY <1>4, StopStep, RestartStep, LoadSchedulesStep, StutterStep
<1> QED
  BY <1>1, <1>2, <1>3, <1>4 DEF Next

\* The invariant holds of every behaviour.
LEMMA Invariance == Spec => []IInv
BY InitInv, NextInv, PTL DEF Spec

\* At every step the state is of its types: no retry count passes the limit.
THEOREM TypeCorrect == Spec => []TypeOK
BY Invariance, PTL DEF IInv

\* The run a schedule is locked for is at work on it, on every path of a release.
THEOREM HeldRunsWork == Spec => []HeldIsWorking
BY Invariance, PTL DEF IInv

\* A set with no two members has at most one.
LEMMA AtMostOne ==
    ASSUME NEW S, \A x, y \in S : x = y
    PROVE  Cardinality(S) <= 1
<1>1. CASE S = {}
  BY <1>1, FS_EmptySet
<1>2. CASE S # {}
  <2>1. PICK x \in S : TRUE
    BY <1>2
  <2>2. S = {x}
    BY <2>1
  <2> QED
    BY <2>2, FS_Singleton
<1> QED
  BY <1>1, <1>2

\* Two runs of one schedule execute at once only where the code leaves a window.
THEOREM OneRun == Spec => []OneRunUnlessExposed
<1>1. IInv => OneRunUnlessExposed
  <2> SUFFICES ASSUME IInv, NEW s \in Schedules, s \notin exposed
               PROVE  Cardinality(RunsOf(s, {"running"})) <= 1
    BY DEF OneRunUnlessExposed
  <2>1. \A q, r \in RunsOf(s, {"running"}) : q = r
    BY DEF IInv, WorkingHolds, RunsOf, Working
  <2> QED
    BY <2>1, AtMostOne
<1> QED
  BY <1>1, Invariance, PTL

\* No run is executed more often than once and once per retry.
THEOREM BoundedExecutions == Spec => []ExecutionsBounded
<1>1. IInv => ExecutionsBounded
  <2> SUFFICES ASSUME IInv, NEW r \in Runs
               PROVE  executions[r] <= MaxRetries + 1
    BY DEF ExecutionsBounded
  <2>1. executions[r] \in Nat /\ retryCount[r] \in 0..MaxRetries
    BY DEF IInv, TypeOK
  <2>2. executions[r] <= retryCount[r] + 1
    BY <2>1 DEF IInv, CountInv
  <2> QED
    BY <2>1, <2>2, SchedulerAssumption
<1> QED
  BY <1>1, Invariance, PTL

-----------------------------------------------------------------------------
(* The directories: one schedule executes in each, unless it is exposed. *)

\* A run past the check found its schedule free, and it is still free.
AdmittedFree ==
    \A r \in Runs : phase[r] \in Admitted /\ ofSchedule[r] \notin exposed =>
        activeRuns[ofSchedule[r]] = None

\* A schedule locks a directory only while a run holds the schedule, and no second one.
LocksOwn ==
    \A d \in Dirs : cwdLock[d] \notin exposed \union {None} =>
        /\ activeRuns[cwdLock[d]] # None
        /\ \A e \in Dirs : cwdLock[e] = cwdLock[d] => e = d

\* A run at work has its directory locked for its schedule.
DirectoryHeld ==
    \A r \in Runs :
        /\ phase[r] \in Working
        /\ ofSchedule[r] \notin exposed
        /\ snapshot[r].cwd \notin exposedDirs
        => cwdLock[snapshot[r].cwd] = ofSchedule[r]

\* A run being recorded shares its directory with no run of another schedule.
RecordedApart ==
    \A q, r \in Runs :
        /\ phase[q] = "saving"
        /\ phase[r] \in {"saving"} \union Working
        /\ snapshot[q].cwd = snapshot[r].cwd
        /\ ofSchedule[q] # ofSchedule[r]
        => \/ snapshot[q].cwd \in exposedDirs
           \/ phase[r] \in Working /\ ofSchedule[r] \in exposed

\* The invariant of the directories, beside IInv.
DInv == AdmittedFree /\ LocksOwn /\ DirectoryHeld /\ RecordedApart

\* What is exposed stays exposed.
Grows == exposed \subseteq exposed' /\ exposedDirs \subseteq exposedDirs'

\* Run q enters no phase that counts, and keeps what it knows in those it is in.
Passive(q) ==
    \A P \in {Working, {"saving"}, {"fetching"}} :
        phase'[q] \in P => /\ phase[q] \in P
                           /\ ofSchedule'[q] = ofSchedule[q]
                           /\ snapshot'[q] = snapshot[q]

\* A step that takes and frees no lock and lets nobody in.
Quiet ==
    /\ Grows
    /\ activeRuns' = activeRuns /\ cwdLock' = cwdLock
    /\ \A q \in Runs : Passive(q)

\* A step that releases the locks of s, which no run works on any more.
Releasing(s) ==
    /\ Grows
    /\ ReleaseRunLocks(s)
    /\ \A q \in Runs : Passive(q)
    /\ \A q \in Runs : phase'[q] \in Working /\ ofSchedule[q] = s => s \in exposed'

\* A step in which r takes the locks of its schedule s and of a record's directory.
Taking(r, s, record) ==
    /\ phase[r] \in Admitted /\ ofSchedule[r] = s /\ s \in Schedules
    /\ record \in Record
    /\ ExecuteRun(r, s, record)
    /\ ofSchedule' = ofSchedule /\ exposed' = exposed /\ exposedDirs \subseteq exposedDirs'
    /\ \A q \in Runs \ {r} :
         /\ phase[q] \in {"saving"} \union Working
         /\ snapshot[q].cwd = record.cwd
         /\ ofSchedule[q] # s
         => \/ record.cwd \in exposedDirs'
            \/ phase[q] \in Working /\ ofSchedule[q] \in exposed

\* A step that lets r in.
Entering(r) ==
    /\ Grows
    /\ phase[r] \in {"idle", "waiting"} /\ phase'[r] \in Admitted
    /\ activeRuns' = activeRuns /\ cwdLock' = cwdLock
    /\ ofSchedule'[r] \in Schedules
    /\ activeRuns[ofSchedule'[r]] = None
    /\ \A q \in Runs \ {r} : /\ phase'[q] = phase[q] /\ ofSchedule'[q] = ofSchedule[q]
                             /\ snapshot'[q] = snapshot[q]
    /\ phase'[r] = "saving" =>
         /\ snapshot'[r].cwd \in Dirs
         /\ ~HeldByOther(snapshot'[r].cwd, ofSchedule'[r])
         /\ \A q \in Runs \ {r} :
              /\ phase[q] = "saving" /\ snapshot[q].cwd = snapshot'[r].cwd
              /\ ofSchedule[q] # ofSchedule'[r]
              => snapshot'[r].cwd \in exposedDirs'

LEMMA OwnedTypes ==
    ASSUME IInv, NEW r \in Runs, phase[r] \in Admitted \union Working \union {"waiting", "closing"}
    PROVE  /\ ofSchedule[r] \in Schedules
           /\ phase[r] \in {"saving"} \union Working
                 => snapshot[r] \in Record /\ snapshot[r].cwd \in Dirs
BY DEF IInv, OwnedInv, Admitted, Working, Record

LEMMA QuietKeeps ==
    ASSUME IInv, DInv, Quiet
    PROVE  DInv'
<1> USE DEF DInv
<1>1. \A q \in Runs :
        /\ phase'[q] \in Working => /\ phase[q] \in Working
                                    /\ ofSchedule'[q] = ofSchedule[q] /\ snapshot'[q] = snapshot[q]
        /\ phase'[q] = "saving" => /\ phase[q] = "saving"
                                   /\ ofSchedule'[q] = ofSchedule[q] /\ snapshot'[q] = snapshot[q]
        /\ phase'[q] \in Admitted => phase[q] \in Admitted /\ ofSchedule'[q] = ofSchedule[q]
  BY DEF Quiet, Passive, Admitted
<1>2. AdmittedFree'
  BY <1>1 DEF AdmittedFree, Quiet, Grows
<1>3. LocksOwn'
  BY DEF LocksOwn, Quiet, Grows
<1>4. DirectoryHeld'
  BY <1>1 DEF DirectoryHeld, Quiet, Grows
<1>5. RecordedApart'
  BY <1>1 DEF RecordedApart, Quiet, Grows
<1> QED  BY <1>2, <1>3, <1>4, <1>5

LEMMA ReleasingKeeps ==
    ASSUME IInv, DInv, NEW s \in Schedules, Releasing(s)
    PROVE  DInv'
<1> USE DEF DInv
<1>0. /\ activeRuns \in [Schedules -> Runs \union {None}]
      /\ cwdLock \in [Dirs -> Schedules \union {None}] /\ s # None
  BY SchedulerAssumption DEF IInv, TypeOK
<1>1. \A q \in Runs :
        /\ phase'[q] \in Working => /\ phase[q] \in Working
                                    /\ ofSchedule'[q] = ofSchedule[q] /\ snapshot'[q] = snapshot[q]
        /\ phase'[q] = "saving" => /\ phase[q] = "saving"
                                   /\ ofSchedule'[q] = ofSchedule[q] /\ snapshot'[q] = snapshot[q]
        /\ phase'[q] \in Admitted => phase[q] \in Admitted /\ ofSchedule'[q] = ofSchedule[q]
  BY DEF Releasing, Passive, Admitted
<1>2. /\ activeRuns' = [activeRuns EXCEPT ![s] = None]
      /\ \A d \in Dirs : cwdLock'[d] \in {cwdLock[d], None}
      /\ \A d \in Dirs : cwdLock[d] # s => cwdLock'[d] = cwdLock[d]
  BY <1>0 DEF Releasing, ReleaseRunLocks
<1>3. exposed \subseteq exposed' /\ exposedDirs \subseteq exposedDirs'
  BY DEF Releasing, Grows
<1>4. AdmittedFree'
  <2> SUFFICES ASSUME NEW r \in Runs, phase'[r] \in Admitted, ofSchedule'[r] \notin exposed'
               PROVE  activeRuns'[ofSchedule'[r]] = None
    BY DEF AdmittedFree
  <2>1. ofSchedule'[r] = ofSchedule[r] /\ activeRuns[ofSchedule[r]] = None
    BY <1>1, <1>3 DEF AdmittedFree
  <2>2. ofSchedule[r] \in Schedules
    BY <1>1, OwnedTypes
  <2> QED  BY <1>0, <1>2, <2>1, <2>2
<1>5. LocksOwn'
  <2> SUFFICES ASSUME NEW d \in Dirs, cwdLock'[d] \notin exposed' \union {None}
               PROVE  /\ activeRuns'[cwdLock'[d]] # None
                      /\ \A e \in Dirs : cwdLock'[e] = cwdLock'[d] => e = d
    BY DEF LocksOwn
  <2>1. cwdLock'[d] = cwdLock[d] /\ cwdLock[d] \in Schedules /\ cwdLock[d] \notin exposed
    BY <1>0, <1>2, <1>3
  <2>2. /\ activeRuns[cwdLock[d]] # None
        /\ \A e \in Dirs : cwdLock[e] = cwdLock[d] => e = d
    BY <2>1, SchedulerAssumption DEF LocksOwn
  <2>3. cwdLock[d] # s
    <3> SUFFICES ASSUME cwdLock[d] = s PROVE FALSE
      OBVIOUS
    <3>1. PICK e \in Dirs : cwdLock[e] = s /\ cwdLock' = [cwdLock EXCEPT ![e] = None]
      BY DEF Releasing, ReleaseRunLocks
    <3> QED  BY <1>0, <2>1, <2>2, <3>1
  <2>4. ASSUME NEW e \in Dirs, cwdLock'[e] = cwdLock'[d]
        PROVE  cwdLock[e] = cwdLock[d]
    BY <1>0, <1>2, <2>1, <2>4, SchedulerAssumption
  <2> QED  BY <1>0, <1>2, <2>1, <2>2, <2>3, <2>4
<1>6. DirectoryHeld'
  <2> SUFFICES ASSUME NEW r \in Runs, phase'[r] \in Working, ofSchedule'[r] \notin exposed',
                      snapshot'[r].cwd \notin exposedDirs'
               PROVE  cwdLock'[snapshot'[r].cwd] = ofSchedule'[r]
    BY DEF DirectoryHeld
  <2>1. /\ phase[r] \in Working /\ ofSchedule'[r] = ofSchedule[r] /\ snapshot'[r] = snapshot[r]
        /\ cwdLock[snapshot[r].cwd] = ofSchedule[r]
    BY <1>1, <1>3 DEF DirectoryHeld
  <2>2. ofSchedule[r] # s
    BY <2>1 DEF Releasing
  <2>3. snapshot[r].cwd \in Dirs
    BY <2>1, OwnedTypes
  <2> QED  BY <1>2, <2>1, <2>2, <2>3
<1>7. RecordedApart'
  BY <1>1, <1>3 DEF RecordedApart
<1> QED  BY <1>4, <1>5, <1>6, <1>7

LEMMA TakingKeeps ==
    ASSUME IInv, DInv, NEW r \in Runs, NEW s, NEW record, Taking(r, s, record)
    PROVE  DInv'
<1> USE DEF DInv
<1>0. /\ activeRuns \in [Schedules -> Runs \union {None}]
      /\ cwdLock \in [Dirs -> Schedules \union {None}]
      /\ phase \in [Runs -> Phases] /\ snapshot \in [Runs -> Record \union {None}]
      /\ s \in Schedules /\ s # None /\ r # None /\ record.cwd \in Dirs
  BY SchedulerAssumption DEF IInv, TypeOK, Taking, Record
<1>1. /\ activeRuns' = [activeRuns EXCEPT ![s] = r]
      /\ cwdLock' = [cwdLock EXCEPT ![record.cwd] = s]
      /\ phase'[r] = "running" /\ snapshot'[r] = record
      /\ \A q \in Runs \ {r} : phase'[q] = phase[q] /\ snapshot'[q] = snapshot[q]
      /\ ofSchedule' = ofSchedule /\ exposed' = exposed /\ exposedDirs \subseteq exposedDirs'
      /\ phase[r] \in Admitted /\ ofSchedule[r] = s
  BY <1>0 DEF Taking, ExecuteRun
<1>2. s \notin exposed => activeRuns[s] = None
  BY <1>1 DEF AdmittedFree
<1>3. \A t \in Schedules : activeRuns[t] # r
  BY <1>1, SchedulerAssumption DEF IInv, HeldIsWorking, Working, Admitted
<1>4. AdmittedFree'
  <2> SUFFICES ASSUME NEW q \in Runs, phase'[q] \in Admitted, ofSchedule[q] \notin exposed
               PROVE  activeRuns'[ofSchedule[q]] = None
    BY <1>1 DEF AdmittedFree
  <2>1. q # r /\ phase[q] \in Admitted
    BY <1>1 DEF Admitted
  <2>2. ofSchedule[q] # s
    BY <1>1, <2>1 DEF IInv, AdmittedAlone
  <2>3. activeRuns[ofSchedule[q]] = None /\ ofSchedule[q] \in Schedules
    BY <2>1, OwnedTypes DEF AdmittedFree
  <2> QED  BY <1>0, <1>1, <2>2, <2>3
<1>5. LocksOwn'
  <2> SUFFICES ASSUME NEW d \in Dirs, cwdLock'[d] \notin exposed \union {None}
               PROVE  /\ activeRuns'[cwdLock'[d]] # None
                      /\ \A e \in Dirs : cwdLock'[e] = cwdLock'[d] => e = d
    BY <1>1 DEF LocksOwn
  <2>1. s \notin exposed => \A e \in Dirs : cwdLock[e] # s
    BY <1>0, <1>2 DEF LocksOwn
  <2>2. CASE d = record.cwd
    BY <1>0, <1>1, <2>1, <2>2
  <2>3. CASE d # record.cwd
    <3>1. cwdLock'[d] = cwdLock[d] /\ cwdLock[d] \in Schedules
      BY <1>0, <1>1, <2>3
    <3>2. /\ activeRuns[cwdLock[d]] # None
          /\ \A e \in Dirs : cwdLock[e] = cwdLock[d] => e = d
      BY <3>1 DEF LocksOwn
    <3>3. cwdLock[d] # s
      BY <2>1, <3>1
    <3> QED  BY <1>0, <1>1, <3>1, <3>2, <3>3
  <2> QED  BY <2>2, <2>3
<1>6. DirectoryHeld'
  <2> SUFFICES ASSUME NEW q \in Runs, phase'[q] \in Working, ofSchedule[q] \notin exposed,
                      snapshot'[q].cwd \notin exposedDirs'
               PROVE  cwdLock'[snapshot'[q].cwd] = ofSchedule[q]
    BY <1>1 DEF DirectoryHeld
  <2>1. CASE q = r
    BY <1>0, <1>1, <2>1
  <2>2. CASE q # r
    <3>1. /\ phase[q] \in Working /\ snapshot'[q] = snapshot[q]
          /\ cwdLock[snapshot[q].cwd] = ofSchedule[q]
      BY <1>1, <2>2 DEF DirectoryHeld
    <3>2. snapshot[q].cwd = record.cwd => ofSchedule[q] = s
      BY <2>2, <3>1 DEF Taking
    <3>3. snapshot[q].cwd \in Dirs
      BY <3>1, OwnedTypes
    <3> QED  BY <1>0, <1>1, <3>1, <3>2, <3>3
  <2> QED  BY <2>1, <2>2
<1>7. RecordedApart'
  <2> SUFFICES ASSUME NEW q \in Runs, NEW p \in Runs, phase'[q] = "saving",
                      phase'[p] \in {"saving"} \union Working,
                      snapshot'[q].cwd = snapshot'[p].cwd, ofSchedule[q] # ofSchedule[p]
               PROVE  \/ snapshot'[q].cwd \in exposedDirs'
                      \/ phase'[p] \in Working /\ ofSchedule[p] \in exposed
    BY <1>1 DEF RecordedApart
  <2>1. q # r /\ phase[q] = "saving" /\ snapshot'[q] = snapshot[q]
    BY <1>1
  <2>2. CASE p = r
    BY <1>1, <2>1, <2>2 DEF Taking, Working
  <2>3. CASE p # r
    BY <1>1, <2>1, <2>3 DEF RecordedApart
  <2> QED  BY <2>2, <2>3
<1> QED  BY <1>4, <1>5, <1>6, <1>7

LEMMA EnteringKeeps ==
    ASSUME IInv, DInv, NEW r \in Runs, Entering(r)
    PROVE  DInv'
<1> USE DEF DInv
<1>0. /\ activeRuns \in [Schedules -> Runs \union {None}]
      /\ cwdLock \in [Dirs -> Schedules \union {None}]
  BY DEF IInv, TypeOK
<1>1. /\ exposed \subseteq exposed' /\ exposedDirs \subseteq exposedDirs'
      /\ activeRuns' = activeRuns /\ cwdLock' = cwdLock
      /\ phase'[r] \in Admitted
      /\ \A q \in Runs \ {r} : /\ phase'[q] = phase[q] /\ ofSchedule'[q] = ofSchedule[q]
                               /\ snapshot'[q] = snapshot[q]
  BY DEF Entering, Grows
<1>2. AdmittedFree'
  BY <1>1 DEF AdmittedFree, Entering
<1>3. LocksOwn'
  BY <1>1 DEF LocksOwn
<1>4. DirectoryHeld'
  BY <1>1 DEF DirectoryHeld, Admitted, Working
<1>5. RecordedApart'
  <2> SUFFICES ASSUME NEW q \in Runs, NEW p \in Runs, phase'[q] = "saving",
                      phase'[p] \in {"saving"} \union Working,
                      snapshot'[q].cwd = snapshot'[p].cwd, ofSchedule'[q] # ofSchedule'[p]
               PROVE  \/ snapshot'[q].cwd \in exposedDirs'
                      \/ phase'[p] \in Working /\ ofSchedule'[p] \in exposed'
    BY DEF RecordedApart
  <2>1. CASE q = r
    <3>1. p # r /\ phase[p] \in {"saving"} \union Working /\ snapshot'[p] = snapshot[p]
          /\ ofSchedule'[p] = ofSchedule[p] /\ phase'[p] = phase[p]
      BY <1>1, <2>1
    <3>2. CASE phase[p] = "saving"
      BY <2>1, <3>1, <3>2 DEF Entering
    <3>3. CASE phase[p] \in Working
      <4>1. \/ cwdLock[snapshot[p].cwd] = ofSchedule[p]
            \/ ofSchedule[p] \in exposed
            \/ snapshot[p].cwd \in exposedDirs
        BY <3>3 DEF DirectoryHeld
      <4>2. cwdLock[snapshot[p].cwd] \in {None, ofSchedule'[r]}
        BY <2>1, <3>1 DEF Entering, HeldByOther
      <4>3. ofSchedule[p] # None
        BY <3>3, OwnedTypes, SchedulerAssumption
      <4> QED  BY <1>1, <2>1, <3>1, <3>3, <4>1, <4>2, <4>3
    <3> QED  BY <3>1, <3>2, <3>3
  <2>2. CASE q # r /\ p = r
    <3>1. phase'[p] = "saving" /\ phase[q] = "saving"
      BY <1>1, <2>2 DEF Admitted, Working
    <3> QED  BY <1>1, <2>2, <3>1 DEF Entering
  <2>3. CASE q # r /\ p # r
    BY <1>1, <2>3 DEF RecordedApart
  <2> QED  BY <2>1, <2>2, <2>3
<1> QED  BY <1>2, <1>3, <1>4, <1>5

LEMMA StopKeeps ==
    ASSUME IInv, DInv, Stop
    PROVE  DInv'
<1> USE DEF DInv
<1>1. /\ snapshot' = snapshot /\ exposedDirs' = exposedDirs
      /\ activeRuns' = [s \in Schedules |-> None] /\ cwdLock' = [d \in Dirs |-> None]
      /\ exposed' = exposed \union {s \in Schedules : RunsOf(s, Working) # {}}
  BY DEF Stop
<1>a. \A q \in Runs : phase'[q] # "over" => phase'[q] = phase[q] /\ ofSchedule'[q] = ofSchedule[q]
  BY DEF Stop
<1>2. AdmittedFree'
  <2> SUFFICES ASSUME NEW r \in Runs, phase'[r] \in Admitted
               PROVE  activeRuns'[ofSchedule'[r]] = None
    BY DEF AdmittedFree
  <2>1. ofSchedule'[r] \in Schedules
    BY <1>a, OwnedTypes DEF Admitted
  <2> QED  BY <1>1, <2>1
<1>3. LocksOwn'
  BY <1>1 DEF LocksOwn
<1>4. DirectoryHeld'
  <2> SUFFICES ASSUME NEW r \in Runs, phase'[r] \in Working
               PROVE  ofSchedule'[r] \in exposed'
    BY DEF DirectoryHeld
  <2>1. phase[r] \in Working /\ ofSchedule'[r] = ofSchedule[r]
        /\ r \in RunsOf(ofSchedule[r], Working)
    BY <1>a DEF Working, RunsOf
  <2>2. ofSchedule[r] \in Schedules
    BY <2>1, OwnedTypes
  <2> QED  BY <1>1, <2>1, <2>2
<1>5. RecordedApart'
  BY <1>1, <1>a DEF RecordedApart, Working
<1> QED  BY <1>2, <1>3, <1>4, <1>5

-----------------------------------------------------------------------------
(* Which step is of which kind. *)

\* The steps of a run that leave the locks alone.
LEMMA QuietSteps ==
    ASSUME IInv, NEW r \in Runs,
           \/ StartFails(r) \/ ProcessExits(r) \/ Complete(r) \/ GiveUp(r)
           \/ RecordFails(r) \/ RetryDropped(r) \/ Stamp(r) \/ SaveStamp(r)
    PROVE  Quiet
<1>0. phase \in [Runs -> Phases]
  BY DEF IInv, TypeOK
<1>1. \A q \in Runs \ {r} : /\ phase'[q] = phase[q] /\ ofSchedule'[q] = ofSchedule[q]
                            /\ snapshot'[q] = snapshot[q]
  BY DEF StartFails, Return, ProcessExits, Complete, GiveUp, RecordFails, RetryDropped, Finish,
         Stamp, SaveStamp, memory, ghosts, IInv, TypeOK
<1>2. Passive(r)
  <2>1. CASE phase'[r] \in {"over", "closing", "stamped"}
    BY <2>1 DEF Passive, Working
  <2>2. CASE phase'[r] \notin {"over", "closing", "stamped"}
    <3>1. ProcessExits(r) \/ (phase[r] = "succeeded" /\ RecordFails(r))
      BY <1>0, <2>2 DEF StartFails, Return, Complete, GiveUp, RecordFails, RetryDropped, Finish,
                        Stamp, SaveStamp
    <3>2. /\ ofSchedule'[r] = ofSchedule[r] /\ snapshot'[r] = snapshot[r]
          /\ phase[r] \in Working /\ phase'[r] \in {"succeeded", "failed"}
      BY <1>0, <3>1 DEF ProcessExits, RecordFails, Finish, Working
    <3> QED  BY <3>2 DEF Passive
  <2> QED  BY <2>1, <2>2
<1>3. /\ Grows /\ activeRuns' = activeRuns /\ cwdLock' = cwdLock
  BY DEF StartFails, ProcessExits, Complete, GiveUp, RecordFails, RetryDropped, Finish, Stamp,
         SaveStamp, memory, ghosts, Grows
<1> QED
  BY <1>1, <1>2, <1>3 DEF Quiet, Passive

\* The steps of nobody's run that leave the locks alone.
LEMMA QuietOthers ==
    ASSUME \/ Restart \/ LoadSchedules \/ UNCHANGED vars
           \/ \E s \in Schedules : /\ Edit(s)
                                   /\ UpdateSchedule(s) \/ PauseSchedule(s) \/ ResumeSchedule(s)
    PROVE  Quiet
BY DEF Restart, LoadSchedules, vars, Edit, UpdateSchedule, PauseSchedule, ResumeSchedule, memory,
       ghosts, Quiet, Grows, Passive

LEMMA DelayReleases ==
    ASSUME IInv, NEW r \in Runs, DelayRetry(r)
    PROVE  ofSchedule[r] \in Schedules /\ Releasing(ofSchedule[r])
<1>0. phase \in [Runs -> Phases] /\ phase[r] = "failed"
  BY DEF IInv, TypeOK, DelayRetry
<1>1. ofSchedule[r] \in Schedules
  BY <1>0, OwnedTypes DEF Working
<1>2. /\ phase'[r] = "waiting" /\ \A q \in Runs \ {r} : phase'[q] = phase[q]
      /\ ofSchedule' = ofSchedule /\ \A q \in Runs \ {r} : snapshot'[q] = snapshot[q]
      /\ exposed' = exposed /\ exposedDirs' = exposedDirs /\ ReleaseRunLocks(ofSchedule[r])
  BY <1>0 DEF DelayRetry, ghosts, IInv, TypeOK
<1>3. \A q \in Runs : Passive(q)
  BY <1>2 DEF Passive, Working
<1>4. ASSUME NEW q \in Runs, phase'[q] \in Working, ofSchedule[q] = ofSchedule[r]
      PROVE  ofSchedule[r] \in exposed
  BY <1>0, <1>2, <1>4 DEF IInv, WorkingHolds, Working
<1> QED
  BY <1>1, <1>2, <1>3, <1>4 DEF Releasing, Grows

LEMMA CloseKind ==
    ASSUME IInv, NEW r \in Runs, Close(r)
    PROVE  Quiet \/ (ofSchedule[r] \in Schedules /\ Releasing(ofSchedule[r]))
<1>0. /\ phase \in [Runs -> Phases] /\ ofSchedule \in [Runs -> Schedules \union {None}]
      /\ snapshot \in [Runs -> Record \union {None}] /\ phase[r] = "closing"
      /\ activeRuns \in [Schedules -> Runs \union {None}]
  BY DEF IInv, TypeOK, Close
<1>1. ofSchedule[r] \in Schedules
  BY <1>0, OwnedTypes
<1>2. /\ phase'[r] = "stamping"
      /\ \A q \in Runs \ {r} : /\ phase'[q] = phase[q] /\ ofSchedule'[q] = ofSchedule[q]
                               /\ snapshot'[q] = snapshot[q]
      /\ exposed' = exposed /\ exposedDirs' = exposedDirs
  BY <1>0 DEF Close, ghosts
<1>3. \A q \in Runs : Passive(q)
  BY <1>2 DEF Passive, Working
<1>4. CASE activeRuns[ofSchedule[r]] = r
  <2>1. ReleaseRunLocks(ofSchedule[r])
    BY <1>4 DEF Close
  <2>2. ASSUME NEW q \in Runs, phase'[q] \in Working, ofSchedule[q] = ofSchedule[r]
        PROVE  ofSchedule[r] \in exposed
    BY <1>2, <1>4, <2>2 DEF IInv, WorkingHolds, Working
  <2> QED
    BY <1>1, <1>2, <1>3, <2>1, <2>2 DEF Releasing, Grows
<1>5. CASE activeRuns[ofSchedule[r]] # r
  <2>1. activeRuns' = activeRuns /\ cwdLock' = cwdLock
    BY <1>5 DEF Close
  <2> QED
    BY <1>2, <1>3, <2>1 DEF Quiet, Grows
<1> QED  BY <1>4, <1>5

LEMMA DeleteReleases ==
    ASSUME IInv, NEW s \in Schedules, Edit(s), DeleteSchedule(s)
    PROVE  Releasing(s)
<1>1. /\ phase' = phase /\ ofSchedule' = ofSchedule /\ snapshot' = snapshot
      /\ exposedDirs' = exposedDirs /\ ReleaseRunLocks(s)
      /\ exposed' = exposed \union (IF RunsOf(s, Working) # {} THEN {s} ELSE {})
  BY DEF Edit, DeleteSchedule
<1>2. ASSUME NEW q \in Runs, phase'[q] \in Working, ofSchedule[q] = s
      PROVE  s \in exposed'
  BY <1>1, <1>2 DEF RunsOf
<1> QED
  BY <1>1, <1>2 DEF Releasing, Grows, Passive

LEMMA StartTakes ==
    ASSUME IInv, DInv, NEW r \in Runs, Start(r)
    PROVE  Taking(r, ofSchedule[r], snapshot[r])
<1>1. phase[r] = "saving" /\ ofSchedule[r] \in Schedules /\ snapshot[r] \in Record
  BY OwnedTypes DEF Start, Admitted
<1>2. ASSUME NEW q \in Runs \ {r}, phase[q] \in {"saving"} \union Working,
             snapshot[q].cwd = snapshot[r].cwd, ofSchedule[q] # ofSchedule[r]
      PROVE  \/ snapshot[r].cwd \in exposedDirs
             \/ phase[q] \in Working /\ ofSchedule[q] \in exposed
  BY <1>1, <1>2 DEF DInv, RecordedApart
<1> QED
  BY <1>1, <1>2 DEF Start, Taking, Admitted

LEMMA RetryTakes ==
    ASSUME IInv, NEW r \in Runs, Retry(r)
    PROVE  Taking(r, ofSchedule[r], file[ofSchedule[r]])
<1>1. phase[r] = "fetching" /\ ofSchedule[r] \in Schedules
  BY OwnedTypes DEF Retry, Admitted
<1>2. file[ofSchedule[r]] \in Record
  BY <1>1 DEF IInv, TypeOK, Retry, Active
<1>3. ASSUME NEW q \in Runs \ {r}, phase[q] \in {"saving"} \union Working,
             snapshot[q].cwd = file[ofSchedule[r]].cwd, ofSchedule[q] # ofSchedule[r]
      PROVE  file[ofSchedule[r]].cwd \in exposedDirs'
  BY <1>3 DEF Retry, RunsIn
<1> QED
  BY <1>1, <1>2, <1>3 DEF Retry, Taking, Admitted

LEMMA AdmitEnters ==
    ASSUME IInv, NEW r \in Runs, NEW s \in Schedules, Admit(r, s)
    PROVE  Entering(r)
<1>0. /\ phase \in [Runs -> Phases] /\ ofSchedule \in [Runs -> Schedules \union {None}]
      /\ snapshot \in [Runs -> Record \union {None}] /\ file[s] \in Record
      /\ file[s].cwd \in Dirs
  BY DEF IInv, TypeOK, Admit, Record
<1>1. /\ phase'[r] = "saving" /\ ofSchedule'[r] = s /\ snapshot'[r] = file[s]
      /\ \A q \in Runs \ {r} : /\ phase'[q] = phase[q] /\ ofSchedule'[q] = ofSchedule[q]
                               /\ snapshot'[q] = snapshot[q]
  BY <1>0 DEF Admit
<1>2. ASSUME NEW q \in Runs \ {r}, phase[q] = "saving", snapshot[q].cwd = file[s].cwd,
             ofSchedule[q] # s
      PROVE  file[s].cwd \in exposedDirs'
  BY <1>2 DEF Admit, RunsIn
<1> QED
  BY <1>0, <1>1, <1>2 DEF Admit, memory, Entering, Grows, Admitted

LEMMA FiresKind ==
    ASSUME IInv, NEW r \in Runs, RetryFires(r)
    PROVE  Entering(r) \/ Quiet
<1>0. phase \in [Runs -> Phases] /\ phase[r] = "waiting" /\ ofSchedule[r] \in Schedules
  BY OwnedTypes DEF IInv, TypeOK, RetryFires
<1>1. /\ \A q \in Runs \ {r} : phase'[q] = phase[q] /\ snapshot'[q] = snapshot[q]
      /\ ofSchedule' = ofSchedule
      /\ activeRuns' = activeRuns /\ cwdLock' = cwdLock
      /\ exposed \subseteq exposed' /\ exposedDirs' = exposedDirs
  BY <1>0 DEF RetryFires, Finish, IInv, TypeOK
<1>2. CASE stopped \/ activeRuns[ofSchedule[r]] # None
  <2>1. phase'[r] = "closing"
    BY <1>0, <1>2 DEF RetryFires, Finish
  <2> QED  BY <1>1, <2>1 DEF Quiet, Grows, Passive, Working
<1>3. CASE ~(stopped \/ activeRuns[ofSchedule[r]] # None)
  <2>1. phase'[r] = "fetching"
    BY <1>0, <1>3 DEF RetryFires, Finish
  <2> QED  BY <1>0, <1>1, <1>3, <2>1 DEF Entering, Grows, Admitted
<1> QED  BY <1>2, <1>3

LEMMA NextDInv ==
    ASSUME IInv, DInv, [Next]_vars
    PROVE  DInv'
<1>1. ASSUME NEW r \in Runs, Continue(r) \/ ProcessExits(r)
      PROVE  DInv'
  <2>1. CASE \/ StartFails(r) \/ ProcessExits(r) \/ Complete(r) \/ GiveUp(r)
             \/ RecordFails(r) \/ RetryDropped(r) \/ Stamp(r) \/ SaveStamp(r)
    BY <2>1, QuietSteps, QuietKeeps
  <2>2. CASE DelayRetry(r) \/ Close(r)
    BY <2>2, DelayReleases, CloseKind, QuietKeeps, ReleasingKeeps
  <2>3. CASE Start(r)
    BY <2>3, StartTakes, TakingKeeps
  <2>4. CASE Retry(r)
    BY <2>4, RetryTakes, TakingKeeps
  <2>5. CASE RetryFires(r)
    BY <2>5, FiresKind, EnteringKeeps, QuietKeeps
  <2> QED  BY <1>1, <2>1, <2>2, <2>3, <2>4, <2>5 DEF Continue
<1>2. ASSUME NEW r \in Runs, NEW s \in Schedules, TriggerNow(r, s) \/ OnCronTick(r, s)
      PROVE  DInv'
  BY <1>2, AdmitEnters, EnteringKeeps DEF TriggerNow, OnCronTick
<1>3. ASSUME NEW s \in Schedules, Edit(s)
      PROVE  DInv'
  BY <1>3, DeleteReleases, ReleasingKeeps, QuietOthers, QuietKeeps DEF Edit
<1>4. CASE Stop
  BY <1>4, StopKeeps
<1>5. CASE Restart \/ LoadSchedules \/ UNCHANGED vars
  BY <1>5, QuietOthers, QuietKeeps
<1> QED  BY <1>1, <1>2, <1>3, <1>4, <1>5 DEF Next

\* Two schedules execute in one directory at once only where the code leaves a window.
THEOREM OneSchedule == Spec => []OneScheduleUnlessExposed
<1>1. Init => DInv
  BY DEF Init, DInv, AdmittedFree, LocksOwn, DirectoryHeld, RecordedApart, Admitted, Working
<1>2. IInv /\ DInv /\ [Next]_vars => DInv'
  BY NextDInv
<1>3. IInv /\ DInv => OneScheduleUnlessExposed
  <2> SUFFICES ASSUME IInv, DInv, NEW d \in Dirs, d \notin exposedDirs,
                      NEW q \in RunsIn(d, {"running"}), NEW r \in RunsIn(d, {"running"}),
                      {ofSchedule[q], ofSchedule[r]} \cap exposed = {}
               PROVE  ofSchedule[q] = ofSchedule[r]
    BY DEF OneScheduleUnlessExposed
  <2>1. \A p \in {q, r} : /\ p \in Runs /\ phase[p] \in Working /\ snapshot[p].cwd = d
                          /\ ofSchedule[p] \notin exposed
    BY DEF RunsIn, Working
  <2> QED  BY <2>1 DEF DInv, DirectoryHeld
<1> QED  BY <1>1, <1>2, <1>3, Invariance, PTL DEF Spec
=============================================================================
