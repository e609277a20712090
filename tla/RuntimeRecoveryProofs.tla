------------------------ MODULE RuntimeRecoveryProofs ------------------------
(***************************************************************************)
(* Proofs about RuntimeRecovery, for any jobs, circuits, texts, reports,   *)
(* attempts and faults.                                                    *)
(***************************************************************************)
EXTENDS RuntimeRecovery, TLAPS

(* A job exists once its signal was observed: no signal makes a job twice.  *)
KnownInv == \A j \in Jobs : jobs[j].status # "none" => <<j, 0>> \in processed

(* A job that goes on has a text, before its delivery an attempt left, and  *)
(* after it a message.                                                      *)
ActiveInv ==
    \A j \in Jobs :
        /\ jobs[j].status = "awaiting_outcome" => jobs[j].msg \in Numbers
        /\ jobs[j].status \in Active => jobs[j].detail \in Details
        /\ jobs[j].status \in Waiting \cup {"claimed"} => jobs[j].attempt < MaxAttempts

(* The circuit of a job in flight names it as its probe.                    *)
ProbeInv ==
    \A j \in Jobs :
        jobs[j].status \in InFlight => circuits[CircuitOf[j]].probe = j

(* A circuit that was never used has no probe.                              *)
UnusedInv == \A c \in Circuits : circuits[c].status = "none" => circuits[c].probe = NoJob

(* The types of the stored state, and the four parts above.                 *)
StoreInv ==
    /\ jobs \in [Jobs -> JobRecords]
    /\ circuits \in [Circuits -> CircuitRecords]
    /\ processed \subseteq RootSignals \cup FailureSignals
    /\ KnownInv /\ ActiveInv /\ ProbeInv /\ UnusedInv

(* Every message was written once, within the configured attempts.          *)
InboxInv ==
    \A m \in Messages :
        \/ inbox[m] = <<>>
        \/ m[2] <= MaxAttempts /\ \E d \in Details : inbox[m] = <<d>>

(* The snapshots of the dispatcher's run have an attempt left; when it      *)
(* relays a message, that is in the inbox with the snapshot's text.         *)
RunInv ==
    /\ \A s \in batch : s.attempt < MaxAttempts
    /\ pc \in {"deliver", "relay"} => cur \in Snapshots /\ cur.attempt < MaxAttempts
    /\ pc = "relay" => inbox[Message] = <<cur.detail>>

(* The inductive invariant.                                                 *)
IInv == TypeOK /\ StoreInv /\ InboxInv /\ RunInv /\ AwaitedWasSent

-----------------------------------------------------------------------------
(* The records the actions build.                                           *)

LEMMA Counting == 1 \in Nat /\ MaxAttempts \in Nat /\ MaxAttempts >= 1 /\ 0 < MaxAttempts
BY RecoveryAssumption

LEMMA AbsentRecord ==
    /\ AbsentJob \in JobRecords
    /\ AbsentJob.status = "none" /\ AbsentJob.attempt = 0
<1>1. 0 \in 0 .. MaxAttempts /\ 0 \in 0 .. MaxAttempts + 1
  BY Counting
<1> QED
  BY <1>1 DEF AbsentJob, JobRecords

LEMMA EndedRecord ==
    ASSUME NEW status \in Settled
    PROVE  /\ Ended(status) \in JobRecords /\ Ended(status).status = status
           /\ Ended(status).status \notin Active /\ Ended(status).status # "none"
           /\ Ended(status).status \in Settled
<1>1. Ended(status) \in JobRecords /\ Ended(status).status = status
  BY AbsentRecord DEF Ended, JobRecords
<1>2. status \notin Active /\ status # "none"
  BY DEF Settled, Active, Waiting, InFlight
<1> QED
  BY <1>1, <1>2

LEMMA CircuitRecord ==
    /\ Closed \in CircuitRecords /\ Closed.status = "closed" /\ Closed.probe = NoJob
    /\ \A due \in BOOLEAN :
          Open(due) \in CircuitRecords /\ Open(due).status = "open" /\ Open(due).probe = NoJob
BY DEF Closed, Open, CircuitRecords

LEMMA PendingRecord ==
    ASSUME NEW d \in Details, NEW n \in 0 .. MaxAttempts
    PROVE  LET job == [AbsentJob EXCEPT !.status = "pending", !.detail = d, !.attempt = n]
           IN  job \in JobRecords /\ job.status = "pending" /\ job.detail = d /\ job.attempt = n
BY AbsentRecord DEF JobRecords, Active, Waiting

LEMMA NewRecord ==
    ASSUME NEW d \in Details
    PROVE  LET job == [AbsentJob EXCEPT !.status = "pending", !.detail = d]
           IN  job \in JobRecords /\ job.status = "pending" /\ job.detail = d /\ job.attempt = 0
BY AbsentRecord DEF JobRecords, Active, Waiting

(* Two jobs of one circuit are not in flight together.                      *)
LEMMA OneInFlight == RecoveryAssumption /\ ProbeInv => OneProbePerCircuit
BY DEF ProbeInv, OneProbePerCircuit

-----------------------------------------------------------------------------
(* What a step may do to the stored state.                                  *)

(* A settled job stays as it is; a job comes to await an outcome by the     *)
(* delivery that is being recorded, and then of that message.               *)
JobStep(j) ==
    /\ jobs[j].status \in Settled => jobs'[j].status = jobs[j].status
    /\ jobs'[j].status = "awaiting_outcome" =>
          \/ /\ jobs[j].status = "awaiting_outcome"
             /\ jobs'[j].msg = jobs[j].msg /\ jobs'[j].detail = jobs[j].detail
          \/ /\ pc = "relay" /\ j = cur.job
             /\ jobs'[j].msg = cur.attempt + 1 /\ jobs'[j].detail = cur.detail

StoreStep == StoreInv' /\ \A j \in Jobs : JobStep(j)

LEMMA StoreUnchanged ==
    ASSUME IInv, UNCHANGED store
    PROVE  StoreStep
BY DEF IInv, store, StoreStep, StoreInv, KnownInv, ActiveInv, ProbeInv, UnusedInv, JobStep

\* A failure left to the user.
LEMMA ObserveManualStore ==
    ASSUME IInv, NEW j \in Jobs, ObserveManual(j)
    PROVE  StoreStep
<1> USE RecoveryAssumption DEF IInv
<1>1. jobs' \in [Jobs -> JobRecords]
  BY Counting, EndedRecord, CircuitRecord DEF Numbers, StoreInv, ActiveInv, JobRecords, Settled, Active, Waiting, InFlight, ObserveManual
<1>2. circuits' \in [Circuits -> CircuitRecords] /\ UnusedInv'
  BY Counting, EndedRecord, CircuitRecord DEF Numbers, StoreInv, UnusedInv, CircuitRecords, Settled, Active, Waiting, InFlight, ObserveManual
<1>3. processed' \subseteq RootSignals \cup FailureSignals /\ KnownInv'
  BY Counting, EndedRecord, CircuitRecord DEF Numbers, StoreInv, KnownInv, RootSignals, FailureSignals, Settled, Active, Waiting, InFlight, ObserveManual
<1>4. ActiveInv'
  BY Counting, EndedRecord, CircuitRecord DEF Numbers, StoreInv, ActiveInv, JobRecords, Settled, Active, Waiting, InFlight, ObserveManual
<1>5. ProbeInv'
  BY Counting, EndedRecord, CircuitRecord DEF Numbers, StoreInv, ProbeInv, UnusedInv, CircuitRecords, Settled, Active, Waiting, InFlight, ObserveManual
<1>6. ASSUME NEW i \in Jobs PROVE JobStep(i)
  BY Counting, EndedRecord, CircuitRecord DEF Numbers, StoreInv, KnownInv, JobStep, Settled, Active, Waiting, InFlight, ObserveManual
<1> QED
  BY <1>1, <1>2, <1>3, <1>4, <1>5, <1>6 DEF StoreStep, StoreInv

\* A failure becomes a job or joins one.
LEMMA ObserveNewStore ==
    ASSUME IInv, NEW j \in Jobs, NEW d \in Details, ObserveNew(j, d)
    PROVE  StoreStep
<1> USE RecoveryAssumption DEF IInv
<1> DEFINE new == [AbsentJob EXCEPT !.status = "pending", !.detail = d]
<1>a. new \in JobRecords /\ new.status = "pending" /\ new.detail = d /\ new.attempt = 0
  BY NewRecord
<1> HIDE DEF new
<1>b. /\ jobs' = jobs \/ jobs' = [jobs EXCEPT ![j] = new]
      /\ \/ circuits' = circuits
         \/ /\ circuits[CircuitOf[j]].status = "none"
            /\ circuits' = [circuits EXCEPT ![CircuitOf[j]] = Open(FALSE)]
      /\ jobs[j].status = "none"
  <2>1. jobs[j].status = "none"
    BY DEF ObserveNew, StoreInv, KnownInv
  <2>2. CASE ActiveTwin(j, d)
    BY <2>1, <2>2 DEF ObserveNew
  <2>3. CASE ~ActiveTwin(j, d)
    <3>1. jobs' = [jobs EXCEPT ![j] = new]
      BY <2>3 DEF ObserveNew, new
    <3>2. CASE circuits[CircuitOf[j]].status = "none"
      <4>1. circuits' = [circuits EXCEPT ![CircuitOf[j]] = Open(FALSE)]
        BY <2>3, <3>2 DEF ObserveNew
      <4> QED
        BY <2>1, <3>1, <3>2, <4>1
    <3>3. CASE circuits[CircuitOf[j]].status # "none"
      <4>1. circuits' = circuits
        BY <2>3, <3>3 DEF ObserveNew, StoreInv
      <4> QED
        BY <2>1, <3>1, <4>1
    <3> QED
      BY <3>2, <3>3
  <2> QED
    BY <2>2, <2>3
<1>1. jobs' \in [Jobs -> JobRecords]
  BY <1>a, <1>b, Counting, CircuitRecord DEF StoreInv
<1>2. circuits' \in [Circuits -> CircuitRecords] /\ UnusedInv'
  <2>1. Open(FALSE) \in CircuitRecords /\ Open(FALSE).status = "open" /\ Open(FALSE).probe = NoJob
    BY CircuitRecord
  <2>2. circuits' \in [Circuits -> CircuitRecords]
    BY <1>b, <2>1 DEF StoreInv
  <2>3. ASSUME NEW c \in Circuits, circuits'[c].status = "none" PROVE circuits'[c] = circuits[c]
    BY <1>b, <2>1, <2>3 DEF StoreInv
  <2> QED
    BY <2>2, <2>3 DEF StoreInv, UnusedInv
<1>3. processed' \subseteq RootSignals \cup FailureSignals /\ KnownInv'
  <2>1. processed' = processed \cup {<<j, 0>>} /\ <<j, 0>> \in RootSignals
    BY DEF ObserveNew, RootSignals
  <2> QED
    BY <1>b, <2>1 DEF StoreInv, KnownInv
<1>4. ActiveInv'
  BY <1>a, <1>b, Counting, CircuitRecord DEF StoreInv, ActiveInv, Numbers, Active, Waiting, InFlight
<1>5. ProbeInv'
  <2> SUFFICES ASSUME NEW i \in Jobs, jobs'[i].status \in InFlight
               PROVE  circuits'[CircuitOf[i]].probe = i
    BY DEF ProbeInv
  <2>1. i # j /\ jobs'[i] = jobs[i]
    BY <1>a, <1>b DEF StoreInv, InFlight
  <2>2. circuits[CircuitOf[i]].probe = i
    BY <2>1 DEF StoreInv, ProbeInv
  <2>3. circuits[CircuitOf[i]].status # "none"
    BY <2>2, RecoveryAssumption DEF StoreInv, UnusedInv
  <2> QED
    BY <1>b, <2>2, <2>3 DEF StoreInv
<1>6. ASSUME NEW i \in Jobs PROVE JobStep(i)
  BY <1>a, <1>b, Counting, CircuitRecord DEF StoreInv, JobStep, Settled
<1> QED
  BY <1>1, <1>2, <1>3, <1>4, <1>5, <1>6 DEF StoreStep, StoreInv

\* A recovery turn failed: the next attempt.
LEMMA RescheduleStore ==
    ASSUME IInv, NEW m \in Messages, NEW r \in Reports, NEW d \in Details, FailureReschedules(m, r, d)
    PROVE  StoreStep
<1> USE RecoveryAssumption DEF IInv
<1>a. m[1] \in Jobs /\ <<m, r>> \in FailureSignals
  BY DEF Messages, FailureSignals
<1>b. CountedAttempts(m[1]) \in 0 .. MaxAttempts
  BY <1>a, Counting DEF CountedAttempts, StoreInv, JobRecords
<1>1. jobs' \in [Jobs -> JobRecords]
  BY Counting, EndedRecord, CircuitRecord, <1>a, <1>b DEF Numbers, StoreInv, ActiveInv, JobRecords, Settled, Active, Waiting, InFlight, FailureReschedules, Report, Caused, CountedAttempts, AbsentJob, Ended, AbsentCircuit, Closed, Open, Messages
<1>2. circuits' \in [Circuits -> CircuitRecords] /\ UnusedInv'
  BY Counting, EndedRecord, CircuitRecord, <1>a, <1>b DEF Numbers, StoreInv, UnusedInv, CircuitRecords, Settled, Active, Waiting, InFlight, FailureReschedules, Report, Caused, CountedAttempts, AbsentJob, Ended, AbsentCircuit, Closed, Open, Messages
<1>3. processed' \subseteq RootSignals \cup FailureSignals /\ KnownInv'
  BY Counting, EndedRecord, CircuitRecord, <1>a, <1>b DEF Numbers, StoreInv, KnownInv, RootSignals, FailureSignals, Settled, Active, Waiting, InFlight, FailureReschedules, Report, Caused, CountedAttempts, AbsentJob, Ended, AbsentCircuit, Closed, Open, Messages
<1>4. ActiveInv'
  BY Counting, EndedRecord, CircuitRecord, <1>a, <1>b DEF Numbers, StoreInv, ActiveInv, JobRecords, Settled, Active, Waiting, InFlight, FailureReschedules, Report, Caused, CountedAttempts, AbsentJob, Ended, AbsentCircuit, Closed, Open, Messages
<1>5. ProbeInv'
  BY Counting, EndedRecord, CircuitRecord, <1>a, <1>b DEF Numbers, StoreInv, ProbeInv, UnusedInv, CircuitRecords, Settled, Active, Waiting, InFlight, FailureReschedules, Report, Caused, CountedAttempts, AbsentJob, Ended, AbsentCircuit, Closed, Open, Messages
<1>6. ASSUME NEW i \in Jobs PROVE JobStep(i)
  BY Counting, EndedRecord, CircuitRecord, <1>a, <1>b DEF Numbers, StoreInv, KnownInv, JobStep, Settled, Active, Waiting, InFlight, FailureReschedules, Report, Caused, CountedAttempts, AbsentJob, Ended, AbsentCircuit, Closed, Open, Messages
<1> QED
  BY <1>1, <1>2, <1>3, <1>4, <1>5, <1>6 DEF StoreStep, StoreInv

\* A recovery turn failed: the job ends.
LEMMA FailureEndsStore ==
    ASSUME IInv, NEW m \in Messages, NEW r \in Reports, FailureEnds(m, r)
    PROVE  StoreStep
<1> USE RecoveryAssumption DEF IInv
<1>a. m[1] \in Jobs /\ <<m, r>> \in FailureSignals
  BY DEF Messages, FailureSignals
<1>1. jobs' \in [Jobs -> JobRecords]
  BY Counting, EndedRecord, CircuitRecord, <1>a DEF Numbers, StoreInv, ActiveInv, JobRecords, Settled, Active, Waiting, InFlight, FailureEnds, Report, Caused, WaitingIn, Siblings
<1>2. circuits' \in [Circuits -> CircuitRecords] /\ UnusedInv'
  BY Counting, EndedRecord, CircuitRecord, <1>a DEF Numbers, StoreInv, UnusedInv, CircuitRecords, Settled, Active, Waiting, InFlight, FailureEnds, Report, Caused, WaitingIn, Siblings
<1>3. processed' \subseteq RootSignals \cup FailureSignals /\ KnownInv'
  BY Counting, EndedRecord, CircuitRecord, <1>a DEF Numbers, StoreInv, KnownInv, RootSignals, FailureSignals, Settled, Active, Waiting, InFlight, FailureEnds, Report, Caused, WaitingIn, Siblings
<1>4. ActiveInv'
  BY Counting, EndedRecord, CircuitRecord, <1>a DEF Numbers, StoreInv, ActiveInv, JobRecords, Settled, Active, Waiting, InFlight, FailureEnds, Report, Caused, WaitingIn, Siblings
<1>5. ProbeInv'
  BY Counting, EndedRecord, CircuitRecord, <1>a DEF Numbers, StoreInv, ProbeInv, UnusedInv, CircuitRecords, Settled, Active, Waiting, InFlight, FailureEnds, Report, Caused, WaitingIn, Siblings
<1>6. ASSUME NEW i \in Jobs PROVE JobStep(i)
  BY Counting, EndedRecord, CircuitRecord, <1>a DEF Numbers, StoreInv, KnownInv, JobStep, Settled, Active, Waiting, InFlight, FailureEnds, Report, Caused, WaitingIn, Siblings
<1> QED
  BY <1>1, <1>2, <1>3, <1>4, <1>5, <1>6 DEF StoreStep, StoreInv

\* A report that comes too late.
LEMMA LateStore ==
    ASSUME IInv, NEW m \in Messages, NEW r \in Reports, FailureIsLate(m, r)
    PROVE  StoreStep
<1> USE RecoveryAssumption DEF IInv
<1>a. <<m, r>> \in FailureSignals
  BY DEF FailureSignals
<1>1. jobs' \in [Jobs -> JobRecords]
  BY Counting, EndedRecord, CircuitRecord, <1>a DEF Numbers, StoreInv, ActiveInv, JobRecords, Settled, Active, Waiting, InFlight, FailureIsLate, Report
<1>2. circuits' \in [Circuits -> CircuitRecords] /\ UnusedInv'
  BY Counting, EndedRecord, CircuitRecord, <1>a DEF Numbers, StoreInv, UnusedInv, CircuitRecords, Settled, Active, Waiting, InFlight, FailureIsLate, Report
<1>3. processed' \subseteq RootSignals \cup FailureSignals /\ KnownInv'
  BY Counting, EndedRecord, CircuitRecord, <1>a DEF Numbers, StoreInv, KnownInv, RootSignals, FailureSignals, Settled, Active, Waiting, InFlight, FailureIsLate, Report
<1>4. ActiveInv'
  BY Counting, EndedRecord, CircuitRecord, <1>a DEF Numbers, StoreInv, ActiveInv, JobRecords, Settled, Active, Waiting, InFlight, FailureIsLate, Report
<1>5. ProbeInv'
  BY Counting, EndedRecord, CircuitRecord, <1>a DEF Numbers, StoreInv, ProbeInv, UnusedInv, CircuitRecords, Settled, Active, Waiting, InFlight, FailureIsLate, Report
<1>6. ASSUME NEW i \in Jobs PROVE JobStep(i)
  BY Counting, EndedRecord, CircuitRecord, <1>a DEF Numbers, StoreInv, KnownInv, JobStep, Settled, Active, Waiting, InFlight, FailureIsLate, Report
<1> QED
  BY <1>1, <1>2, <1>3, <1>4, <1>5, <1>6 DEF StoreStep, StoreInv

\* An answered job is completed.
LEMMA CompleteStore ==
    ASSUME IInv, MarkCompleted
    PROVE  StoreStep
<1> USE RecoveryAssumption DEF IInv
<1> DEFINE v == verdict[1]
<1>a. v \in Jobs
  BY DEF MarkCompleted, TypeOK, Messages
<1>b. \/ jobs' = jobs /\ circuits' = circuits
      \/ /\ jobs[v].status = "awaiting_outcome"
         /\ circuits' = [circuits EXCEPT ![CircuitOf[v]] = Closed]
         /\ jobs' = [k \in Jobs |-> IF k = v THEN Ended("completed")
                                    ELSE IF k \in WaitingIn(CircuitOf[v]) THEN Postponed(jobs[k])
                                    ELSE jobs[k]]
  <2>1. CASE jobs[v].status = "awaiting_outcome" /\ jobs[v].msg = verdict[2]
    <3>1. jobs' = [k \in Jobs |->
                     CASE k = v -> Ended("completed")
                       [] k \in WaitingIn(CircuitOf[v]) -> Postponed(jobs[k])
                       [] OTHER -> jobs[k]]
      BY <2>1 DEF MarkCompleted
    <3>2. circuits' = [circuits EXCEPT ![CircuitOf[v]] = Closed]
      BY <2>1 DEF MarkCompleted
    <3>3. v \notin WaitingIn(CircuitOf[v])
      BY <2>1 DEF WaitingIn, Waiting
    <3>4. \A k \in Jobs :
             jobs'[k] = IF k = v THEN Ended("completed")
                        ELSE IF k \in WaitingIn(CircuitOf[v]) THEN Postponed(jobs[k])
                        ELSE jobs[k]
      BY <3>1, <3>3
    <3> QED
      BY <2>1, <3>1, <3>2, <3>4
  <2>2. CASE ~(jobs[v].status = "awaiting_outcome" /\ jobs[v].msg = verdict[2])
    BY <2>2 DEF MarkCompleted
  <2> QED
    BY <2>1, <2>2
<1>c. \A k \in Jobs : /\ Postponed(jobs[k]) \in JobRecords
                      /\ Postponed(jobs[k]).status = jobs[k].status
                      /\ Postponed(jobs[k]).attempt = jobs[k].attempt
                      /\ Postponed(jobs[k]).msg = jobs[k].msg
                      /\ Postponed(jobs[k]).detail = jobs[k].detail
  BY DEF Postponed, StoreInv, JobRecords
<1>d. /\ Ended("completed") \in JobRecords /\ Ended("completed").status = "completed"
      /\ processed' = processed
  BY EndedRecord DEF Settled, MarkCompleted
<1> HIDE DEF v
<1>1. jobs' \in [Jobs -> JobRecords]
  BY <1>a, <1>b, <1>c, <1>d, CircuitRecord DEF StoreInv
<1>2. circuits' \in [Circuits -> CircuitRecords] /\ UnusedInv'
  BY <1>a, <1>b, <1>c, <1>d, CircuitRecord DEF StoreInv, UnusedInv
<1>3. processed' \subseteq RootSignals \cup FailureSignals /\ KnownInv'
  BY <1>a, <1>b, <1>c, <1>d, CircuitRecord DEF StoreInv, KnownInv, WaitingIn, Siblings
<1>4. ActiveInv'
  BY <1>a, <1>b, <1>c, <1>d, CircuitRecord DEF Numbers, StoreInv, ActiveInv, Active, Waiting, InFlight, Settled
<1>5. ProbeInv'
  BY <1>a, <1>b, <1>c, <1>d, CircuitRecord DEF StoreInv, ProbeInv, InFlight
<1>6. ASSUME NEW i \in Jobs PROVE JobStep(i)
  BY <1>a, <1>b, <1>c, <1>d, CircuitRecord DEF StoreInv, JobStep, Settled
<1> QED
  BY <1>1, <1>2, <1>3, <1>4, <1>5, <1>6 DEF StoreStep, StoreInv

\* A cancellation.
LEMMA CancelStore ==
    ASSUME IInv, NEW S \in CancelScopes, Cancel(S)
    PROVE  StoreStep
<1> USE RecoveryAssumption DEF IInv
<1>a. S \subseteq Jobs
  BY DEF CancelScopes
<1>1. jobs' \in [Jobs -> JobRecords]
  BY Counting, EndedRecord, CircuitRecord, <1>a DEF Numbers, StoreInv, ActiveInv, JobRecords, Settled, Active, Waiting, InFlight, Cancel, AfterCancel, WaitingIn, Siblings
<1>2. circuits' \in [Circuits -> CircuitRecords] /\ UnusedInv'
  BY Counting, EndedRecord, CircuitRecord, <1>a DEF Numbers, StoreInv, UnusedInv, CircuitRecords, Settled, Active, Waiting, InFlight, Cancel, AfterCancel, WaitingIn, Siblings
<1>3. processed' \subseteq RootSignals \cup FailureSignals /\ KnownInv'
  BY Counting, EndedRecord, CircuitRecord, <1>a DEF Numbers, StoreInv, KnownInv, RootSignals, FailureSignals, Settled, Active, Waiting, InFlight, Cancel, AfterCancel, WaitingIn, Siblings
<1>4. ActiveInv'
  BY Counting, EndedRecord, CircuitRecord, <1>a DEF Numbers, StoreInv, ActiveInv, JobRecords, Settled, Active, Waiting, InFlight, Cancel, AfterCancel, WaitingIn, Siblings
<1>5. ProbeInv'
  <2> SUFFICES ASSUME NEW i \in Jobs, jobs'[i].status \in InFlight
               PROVE  circuits'[CircuitOf[i]].probe = i
    BY DEF ProbeInv
  <2> DEFINE gone == {j \in S : jobs[j].status \in Active}
             live == {j \in Jobs \ gone : jobs[j].status \in InFlight}
             c == CircuitOf[i]
  <2>1. jobs' = [j \in Jobs |-> IF j \in gone THEN Ended("cancelled") ELSE jobs[j]]
    BY DEF Cancel
  <2>2. i \notin gone /\ jobs'[i] = jobs[i]
    BY <2>1, EndedRecord DEF Settled, InFlight
  <2>3. circuits[c].probe = i /\ i \in live /\ c \in Circuits
    BY <2>2 DEF StoreInv, ProbeInv
  <2>4. AfterCancel(c, WaitingIn(c) \ gone, live) = circuits[c]
    <3>1. \A W, L : circuits[c].probe \in L => AfterCancel(c, W, L) = circuits[c]
      BY DEF AfterCancel
    <3> QED
      BY <2>3, <3>1
  <2>5. circuits'[c] = circuits[c]
    BY <2>3, <2>4 DEF Cancel
  <2> QED
    BY <2>3, <2>5
<1>6. ASSUME NEW i \in Jobs PROVE JobStep(i)
  BY Counting, EndedRecord, CircuitRecord, <1>a DEF Numbers, StoreInv, KnownInv, JobStep, Settled, Active, Waiting, InFlight, Cancel, AfterCancel, WaitingIn, Siblings
<1> QED
  BY <1>1, <1>2, <1>3, <1>4, <1>5, <1>6 DEF StoreStep, StoreInv

\* The outcome deadlines of a sweep.
LEMMA StartRunStore ==
    ASSUME IInv, StartRun
    PROVE  StoreStep
<1> USE RecoveryAssumption DEF IInv
<1>1. jobs' \in [Jobs -> JobRecords]
  BY Counting, EndedRecord, CircuitRecord DEF Numbers, StoreInv, ActiveInv, JobRecords, Settled, Active, Waiting, InFlight, StartRun
<1>2. circuits' \in [Circuits -> CircuitRecords] /\ UnusedInv'
  BY Counting, EndedRecord, CircuitRecord DEF Numbers, StoreInv, UnusedInv, CircuitRecords, Settled, Active, Waiting, InFlight, StartRun
<1>3. processed' \subseteq RootSignals \cup FailureSignals /\ KnownInv'
  BY Counting, EndedRecord, CircuitRecord DEF Numbers, StoreInv, KnownInv, RootSignals, FailureSignals, Settled, Active, Waiting, InFlight, StartRun
<1>4. ActiveInv'
  BY Counting, EndedRecord, CircuitRecord DEF Numbers, StoreInv, ActiveInv, JobRecords, Settled, Active, Waiting, InFlight, StartRun
<1>5. ProbeInv'
  BY Counting, EndedRecord, CircuitRecord DEF Numbers, StoreInv, ProbeInv, UnusedInv, CircuitRecords, Settled, Active, Waiting, InFlight, StartRun
<1>6. ASSUME NEW i \in Jobs PROVE JobStep(i)
  BY Counting, EndedRecord, CircuitRecord DEF Numbers, StoreInv, KnownInv, JobStep, Settled, Active, Waiting, InFlight, StartRun
<1> QED
  BY <1>1, <1>2, <1>3, <1>4, <1>5, <1>6 DEF StoreStep, StoreInv

\* A claimed job expired before its turn.
LEMMA TakeExpiredStore ==
    ASSUME IInv, NEW s \in batch, TakeExpiredJob(s)
    PROVE  StoreStep
<1> USE RecoveryAssumption DEF IInv
<1> DEFINE j == s.job
<1>a. j \in Jobs
  BY DEF TypeOK, Snapshots
<1>b. \/ jobs' = jobs /\ circuits' = circuits
      \/ /\ jobs[j].status = "claimed"
         /\ jobs' = [jobs EXCEPT ![j] = Ended("superseded")]
         /\ circuits' = [circuits EXCEPT ![CircuitOf[j]] = Closed]
  BY DEF TakeExpiredJob
<1>c. /\ Ended("superseded") \in JobRecords /\ Ended("superseded").status = "superseded"
      /\ processed' = processed
  BY EndedRecord DEF Settled, TakeExpiredJob
<1> HIDE DEF j
<1>1. jobs' \in [Jobs -> JobRecords]
  BY <1>a, <1>b, <1>c, CircuitRecord DEF StoreInv
<1>2. circuits' \in [Circuits -> CircuitRecords] /\ UnusedInv'
  BY <1>a, <1>b, <1>c, CircuitRecord DEF StoreInv, UnusedInv
<1>3. processed' \subseteq RootSignals \cup FailureSignals /\ KnownInv'
  BY <1>a, <1>b, <1>c, CircuitRecord DEF StoreInv, KnownInv
<1>4. ActiveInv'
  BY <1>a, <1>b, <1>c, CircuitRecord DEF Numbers, StoreInv, ActiveInv, Active, Waiting, InFlight
<1>5. ProbeInv'
  BY <1>a, <1>b, <1>c, CircuitRecord DEF StoreInv, ProbeInv, InFlight
<1>6. ASSUME NEW i \in Jobs PROVE JobStep(i)
  BY <1>a, <1>b, <1>c, CircuitRecord DEF StoreInv, JobStep, Settled
<1> QED
  BY <1>1, <1>2, <1>3, <1>4, <1>5, <1>6 DEF StoreStep, StoreInv

\* A job's timer elapses.
LEMMA TimerStore ==
    ASSUME IInv, NEW j \in Jobs, TimerElapses(j)
    PROVE  StoreStep
<1> USE RecoveryAssumption DEF IInv
<1>1. jobs' \in [Jobs -> JobRecords]
  <2>1. jobs' = [jobs EXCEPT ![j].elapsed = TRUE]
    BY DEF TimerElapses
  <2>2. [jobs[j] EXCEPT !.elapsed = TRUE] \in JobRecords /\ [jobs[j] EXCEPT !.expired = TRUE] \in JobRecords
    BY DEF StoreInv, JobRecords
  <2> QED
    BY <2>1, <2>2 DEF StoreInv
<1>2. circuits' \in [Circuits -> CircuitRecords] /\ UnusedInv'
  BY Counting, EndedRecord, CircuitRecord DEF Numbers, StoreInv, UnusedInv, CircuitRecords, Settled, Active, Waiting, InFlight, TimerElapses
<1>3. processed' \subseteq RootSignals \cup FailureSignals /\ KnownInv'
  BY Counting, EndedRecord, CircuitRecord DEF Numbers, StoreInv, KnownInv, RootSignals, FailureSignals, Settled, Active, Waiting, InFlight, TimerElapses
<1>4. ActiveInv'
  BY Counting, EndedRecord, CircuitRecord DEF Numbers, StoreInv, ActiveInv, JobRecords, Settled, Active, Waiting, InFlight, TimerElapses
<1>5. ProbeInv'
  BY Counting, EndedRecord, CircuitRecord DEF Numbers, StoreInv, ProbeInv, UnusedInv, CircuitRecords, Settled, Active, Waiting, InFlight, TimerElapses
<1>6. ASSUME NEW i \in Jobs PROVE JobStep(i)
  BY Counting, EndedRecord, CircuitRecord DEF Numbers, StoreInv, KnownInv, JobStep, Settled, Active, Waiting, InFlight, TimerElapses
<1> QED
  BY <1>1, <1>2, <1>3, <1>4, <1>5, <1>6 DEF StoreStep, StoreInv

\* A job expires.
LEMMA ExpiryStore ==
    ASSUME IInv, NEW j \in Jobs, JobExpires(j)
    PROVE  StoreStep
<1> USE RecoveryAssumption DEF IInv
<1>1. jobs' \in [Jobs -> JobRecords]
  <2>1. jobs' = [jobs EXCEPT ![j].expired = TRUE]
    BY DEF JobExpires
  <2>2. [jobs[j] EXCEPT !.elapsed = TRUE] \in JobRecords /\ [jobs[j] EXCEPT !.expired = TRUE] \in JobRecords
    BY DEF StoreInv, JobRecords
  <2> QED
    BY <2>1, <2>2 DEF StoreInv
<1>2. circuits' \in [Circuits -> CircuitRecords] /\ UnusedInv'
  BY Counting, EndedRecord, CircuitRecord DEF Numbers, StoreInv, UnusedInv, CircuitRecords, Settled, Active, Waiting, InFlight, JobExpires
<1>3. processed' \subseteq RootSignals \cup FailureSignals /\ KnownInv'
  BY Counting, EndedRecord, CircuitRecord DEF Numbers, StoreInv, KnownInv, RootSignals, FailureSignals, Settled, Active, Waiting, InFlight, JobExpires
<1>4. ActiveInv'
  BY Counting, EndedRecord, CircuitRecord DEF Numbers, StoreInv, ActiveInv, JobRecords, Settled, Active, Waiting, InFlight, JobExpires
<1>5. ProbeInv'
  BY Counting, EndedRecord, CircuitRecord DEF Numbers, StoreInv, ProbeInv, UnusedInv, CircuitRecords, Settled, Active, Waiting, InFlight, JobExpires
<1>6. ASSUME NEW i \in Jobs PROVE JobStep(i)
  BY Counting, EndedRecord, CircuitRecord DEF Numbers, StoreInv, KnownInv, JobStep, Settled, Active, Waiting, InFlight, JobExpires
<1> QED
  BY <1>1, <1>2, <1>3, <1>4, <1>5, <1>6 DEF StoreStep, StoreInv

\* A circuit's next probe is due.
LEMMA ProbeTimeStore ==
    ASSUME IInv, NEW c \in Circuits, ProbeTimeComes(c)
    PROVE  StoreStep
<1> USE RecoveryAssumption DEF IInv
<1>1. jobs' \in [Jobs -> JobRecords]
  BY Counting, EndedRecord, CircuitRecord DEF Numbers, StoreInv, ActiveInv, JobRecords, Settled, Active, Waiting, InFlight, ProbeTimeComes
<1>2. circuits' \in [Circuits -> CircuitRecords] /\ UnusedInv'
  BY Counting, EndedRecord, CircuitRecord DEF Numbers, StoreInv, UnusedInv, CircuitRecords, Settled, Active, Waiting, InFlight, ProbeTimeComes
<1>3. processed' \subseteq RootSignals \cup FailureSignals /\ KnownInv'
  BY Counting, EndedRecord, CircuitRecord DEF Numbers, StoreInv, KnownInv, RootSignals, FailureSignals, Settled, Active, Waiting, InFlight, ProbeTimeComes
<1>4. ActiveInv'
  BY Counting, EndedRecord, CircuitRecord DEF Numbers, StoreInv, ActiveInv, JobRecords, Settled, Active, Waiting, InFlight, ProbeTimeComes
<1>5. ProbeInv'
  BY Counting, EndedRecord, CircuitRecord DEF Numbers, StoreInv, ProbeInv, UnusedInv, CircuitRecords, Settled, Active, Waiting, InFlight, ProbeTimeComes
<1>6. ASSUME NEW i \in Jobs PROVE JobStep(i)
  BY Counting, EndedRecord, CircuitRecord DEF Numbers, StoreInv, KnownInv, JobStep, Settled, Active, Waiting, InFlight, ProbeTimeComes
<1> QED
  BY <1>1, <1>2, <1>3, <1>4, <1>5, <1>6 DEF StoreStep, StoreInv

(* A claim: the overdue end, one due job of a circuit without a probe is    *)
(* claimed, the other stale claims are given back.                          *)
LEMMA ClaimStore ==
    ASSUME IInv, NEW S \in Selections, Claim(S)
    PROVE  StoreStep
<1> USE RecoveryAssumption DEF IInv
<1> DEFINE Claimed(j) == [jobs[j] EXCEPT !.status = "claimed", !.claim = FreshToken,
                                         !.elapsed = FALSE]
           GivenBack(j) == [jobs[j] EXCEPT !.status = "failed_retryable",
                                           !.claim = NoToken, !.elapsed = TRUE]
<1>a. /\ S \subseteq Jobs
      /\ \A j \in S : Due(j) /\ Admits(CircuitOf[j]) /\ S \cap Siblings(CircuitOf[j]) = {j}
  <2>1. S \subseteq Jobs /\ \A j \in S : Due(j)
    BY DEF Selections
  <2>2. ASSUME NEW j \in S PROVE Admits(CircuitOf[j]) /\ S \cap Siblings(CircuitOf[j]) = {j}
    <3>1. j \in S \cap Siblings(CircuitOf[j])
      BY <2>1 DEF Siblings
    <3>2. Admits(CircuitOf[j]) /\ \E i \in S : S \cap Siblings(CircuitOf[j]) = {i}
      BY DEF Selections
    <3> QED
      BY <3>1, <3>2
  <2> QED
    BY <2>1, <2>2
<1>b. \A j \in Jobs :
         jobs'[j] = IF Overdue(j) THEN Ended("superseded")
                    ELSE IF j \in S THEN Claimed(j)
                    ELSE IF StaleClaim(j) THEN GivenBack(j)
                    ELSE jobs[j]
  <2>1. \A j \in S : ~Overdue(j)
    BY <1>a DEF Due, Overdue
  <2> QED
    BY <2>1 DEF Claim
<1>c. FreshToken \in Tokens
  <2>1. [j \in Jobs |-> jobs[j].claim] \in [Jobs -> Tokens \cup {NoToken}]
    BY DEF StoreInv, JobRecords
  <2>2. \E t \in Tokens : \A j \in Jobs : jobs[j].claim # t
    BY <2>1
  <2> QED
    BY <2>2 DEF FreshToken
<1>d. ASSUME NEW j \in Jobs
      PROVE  /\ Claimed(j) \in JobRecords /\ Claimed(j).status = "claimed"
             /\ Claimed(j).detail = jobs[j].detail /\ Claimed(j).attempt = jobs[j].attempt
             /\ GivenBack(j) \in JobRecords /\ GivenBack(j).status = "failed_retryable"
             /\ GivenBack(j).detail = jobs[j].detail /\ GivenBack(j).attempt = jobs[j].attempt
  <2> DEFINE fresh == FreshToken
  <2>1. fresh \in Tokens /\ jobs[j] \in JobRecords
    BY <1>c DEF StoreInv
  <2> HIDE DEF fresh
  <2>2. [jobs[j] EXCEPT !.status = "claimed", !.claim = fresh, !.elapsed = FALSE] \in JobRecords
    BY <2>1 DEF JobRecords, Active, InFlight
  <2>3. GivenBack(j) \in JobRecords
    BY <2>1 DEF JobRecords, Active, Waiting
  <2>4. /\ Claimed(j).status = "claimed"
        /\ Claimed(j).detail = jobs[j].detail /\ Claimed(j).attempt = jobs[j].attempt
        /\ GivenBack(j).status = "failed_retryable"
        /\ GivenBack(j).detail = jobs[j].detail /\ GivenBack(j).attempt = jobs[j].attempt
    BY <2>1 DEF JobRecords
  <2> QED
    BY <2>2, <2>3, <2>4 DEF fresh
<1>e. /\ Ended("superseded") \in JobRecords /\ Ended("superseded").status = "superseded"
      /\ processed' = processed
  BY EndedRecord DEF Settled, Claim
<1> HIDE DEF Claimed, GivenBack
<1>f. \A j \in Jobs : /\ Overdue(j) => jobs[j].status \in Waiting \cup {"claimed"}
                      /\ Due(j) => jobs[j].status \in Waiting \cup {"claimed"}
                      /\ StaleClaim(j) => jobs[j].status = "claimed"
  BY DEF Overdue, Due, StaleClaim
<1>g. \A c \in Circuits : Swept(c) \in CircuitRecords
                          /\ (Swept(c).status = "none" => Swept(c).probe = NoJob)
  BY CircuitRecord DEF Swept, StoreInv, UnusedInv
<1>h. \A c \in Circuits : S \cap Siblings(c) = {} => circuits'[c] = Swept(c)
  BY DEF Claim
<1>i. ASSUME NEW j \in S
      PROVE  /\ circuits'[CircuitOf[j]] \in CircuitRecords
             /\ circuits'[CircuitOf[j]].status = "half_open"
             /\ circuits'[CircuitOf[j]].probe = j
  <2>1. S \cap Siblings(CircuitOf[j]) = {j} /\ CircuitOf[j] \in Circuits
    BY <1>a
  <2>2. \A k \in S : CircuitOf[k] = CircuitOf[j] <=> k = j
    BY <2>1, <1>a DEF Siblings
  <2>3. (CHOOSE k \in S : CircuitOf[k] = CircuitOf[j]) = j
    BY <2>2
  <2>4. circuits'[CircuitOf[j]] = [status |-> "half_open", elapsed |-> FALSE,
                                   probe |-> CHOOSE k \in S : CircuitOf[k] = CircuitOf[j]]
    BY <2>1 DEF Claim
  <2>5. circuits'[CircuitOf[j]] = [status |-> "half_open", elapsed |-> FALSE, probe |-> j]
    BY <2>3, <2>4
  <2> QED
    BY <2>5, <1>a DEF CircuitRecords
<1>j. ASSUME NEW c \in Circuits
      PROVE  \/ circuits'[c] = Swept(c) /\ S \cap Siblings(c) = {}
             \/ \E j \in S : c = CircuitOf[j]
  BY <1>h DEF Siblings
<1>1. jobs' \in [Jobs -> JobRecords]
  <2>1. jobs' = [j \in Jobs |->
                   CASE Overdue(j) -> Ended("superseded")
                     [] j \in S -> [jobs[j] EXCEPT !.status = "claimed", !.claim = FreshToken,
                                                   !.elapsed = FALSE]
                     [] StaleClaim(j) /\ ~Overdue(j) /\ j \notin S ->
                          [jobs[j] EXCEPT !.status = "failed_retryable",
                                          !.claim = NoToken, !.elapsed = TRUE]
                     [] OTHER -> jobs[j]]
    BY DEF Claim
  <2>2. \A j \in Jobs : jobs'[j] \in JobRecords
    BY <1>b, <1>d, <1>e DEF StoreInv
  <2> QED
    BY <2>1, <2>2
<1>2. circuits' \in [Circuits -> CircuitRecords] /\ UnusedInv'
  <2>1. circuits' = [c \in Circuits |-> circuits'[c]]
    BY DEF Claim
  <2>2. ASSUME NEW c \in Circuits
        PROVE  circuits'[c] \in CircuitRecords /\ (circuits'[c].status = "none" => circuits'[c].probe = NoJob)
    <3>1. CASE circuits'[c] = Swept(c)
      BY <1>g, <3>1
    <3>2. ASSUME NEW j \in S, c = CircuitOf[j]
          PROVE  circuits'[c] \in CircuitRecords /\ circuits'[c].status # "none"
      BY <1>i, <3>2
    <3> QED
      BY <1>j, <3>1, <3>2
  <2> QED
    BY <2>1, <2>2 DEF UnusedInv
<1>3. processed' \subseteq RootSignals \cup FailureSignals /\ KnownInv'
  BY <1>a, <1>b, <1>d, <1>e, <1>f DEF StoreInv, KnownInv, Waiting
<1>4. ActiveInv'
  <2> SUFFICES ASSUME NEW j \in Jobs
               PROVE  /\ jobs'[j].status = "awaiting_outcome" => jobs'[j].msg \in Numbers
                      /\ jobs'[j].status \in Active => jobs'[j].detail \in Details
                      /\ jobs'[j].status \in Waiting \cup {"claimed"} => jobs'[j].attempt < MaxAttempts
    BY DEF ActiveInv
  <2> USE DEF StoreInv, ActiveInv
  <2>1. CASE Overdue(j)
    BY <1>b, <1>e, <2>1 DEF Active, Waiting, InFlight
  <2>2. CASE ~Overdue(j) /\ j \in S
    BY <1>a, <1>b, <1>d, <1>f, <2>2 DEF Active, Waiting, InFlight
  <2>3. CASE ~Overdue(j) /\ j \notin S /\ StaleClaim(j)
    BY <1>b, <1>d, <1>f, <2>3 DEF Active, Waiting, InFlight
  <2>4. CASE ~Overdue(j) /\ j \notin S /\ ~StaleClaim(j)
    BY <1>b, <2>4
  <2> QED
    BY <2>1, <2>2, <2>3, <2>4
<1>5. ProbeInv'
  <2> SUFFICES ASSUME NEW i \in Jobs, jobs'[i].status \in InFlight
               PROVE  circuits'[CircuitOf[i]].probe = i
    BY DEF ProbeInv
  <2> DEFINE c == CircuitOf[i]
  <2>1. CASE i \in S
    BY <1>i, <2>1
  <2>2. CASE i \notin S
    <3>1. ~Overdue(i) /\ ~StaleClaim(i) /\ jobs'[i] = jobs[i]
      BY <1>b, <1>d, <1>e, <2>2 DEF InFlight
    <3>2. circuits[c].probe = i /\ c \in Circuits /\ i # NoJob
      BY <3>1 DEF StoreInv, ProbeInv
    <3>3. Swept(c) = circuits[c]
      BY <3>1, <3>2 DEF Swept
    <3>4. ~\E j \in S : c = CircuitOf[j]
      BY <1>a, <3>2, <3>3 DEF Admits
    <3>5. circuits'[c] = circuits[c]
      BY <1>j, <3>2, <3>3, <3>4
    <3> QED
      BY <3>2, <3>5
  <2> QED
    BY <2>1, <2>2
<1>6. ASSUME NEW i \in Jobs PROVE JobStep(i)
  <2>1. CASE jobs'[i] = jobs[i]
    BY <2>1 DEF JobStep
  <2>2. CASE jobs'[i] # jobs[i]
    <3>1. jobs[i].status \in Waiting \cup {"claimed"}
      BY <1>a, <1>b, <1>f, <2>2
    <3>2. jobs'[i].status # "awaiting_outcome"
      BY <1>b, <1>d, <1>e, <2>2
    <3> QED
      BY <3>1, <3>2 DEF JobStep, Waiting, Settled
  <2> QED
    BY <2>1, <2>2
<1> QED
  BY <1>1, <1>2, <1>3, <1>4, <1>5, <1>6 DEF StoreStep, StoreInv

(* The recorded result of a dispatch: the job is claimed as long as its     *)
(* circuit names it, so no other job of the circuit is in flight.           *)
LEMMA SettleStore ==
    ASSUME IInv, pc \in {"deliver", "relay"},
           NEW job, NEW circuit, Settle(job, circuit),
           Owned => /\ job \in JobRecords /\ circuit \in CircuitRecords
                    /\ job.status # "none"
                    /\ job.status \in Active => job.detail \in Details
                    /\ job.status \in Waiting \cup {"claimed"} => job.attempt < MaxAttempts
                    /\ job.status \in InFlight => circuit.probe = cur.job
                    /\ circuit.status = "none" => circuit.probe = NoJob
                    /\ job.status = "awaiting_outcome" =>
                          /\ pc = "relay" /\ job.msg \in Numbers
                          /\ job.msg = cur.attempt + 1 /\ job.detail = cur.detail
    PROVE  StoreStep
<1> USE RecoveryAssumption DEF IInv
<1> DEFINE j == cur.job
<1>a. j \in Jobs /\ CircuitOf[j] \in Circuits
  BY DEF RunInv, Snapshots
<1>b. processed' = processed
  BY DEF Settle
<1>1. CASE ~Owned
  <2>1. jobs' = jobs /\ circuits' = circuits
    BY <1>1 DEF Settle
  <2> QED
    BY <1>b, <2>1 DEF StoreStep, StoreInv, JobStep, KnownInv, ActiveInv, ProbeInv, UnusedInv
<1>2. CASE Owned
  <2>1. jobs' = [jobs EXCEPT ![j] = job] /\ circuits' = [circuits EXCEPT ![CircuitOf[j]] = circuit]
    BY <1>2 DEF Settle
  <2>2. jobs[j].status = "claimed" /\ circuits[CircuitOf[j]].probe = j
    BY <1>2, <1>a DEF Owned, StoreInv, ProbeInv, InFlight
  <2> HIDE DEF j
  <2>3. jobs' \in [Jobs -> JobRecords] /\ circuits' \in [Circuits -> CircuitRecords]
    BY <1>2, <1>a, <2>1 DEF StoreInv
  <2>4. KnownInv' /\ UnusedInv'
    BY <1>2, <1>a, <1>b, <2>1, <2>2 DEF StoreInv, KnownInv, UnusedInv
  <2>5. ActiveInv'
    BY <1>2, <1>a, <2>1 DEF StoreInv, ActiveInv
  <2>6. ProbeInv'
    BY <1>2, <1>a, <2>1, <2>2 DEF StoreInv, ProbeInv, j
  <2>7. ASSUME NEW i \in Jobs PROVE JobStep(i)
    <3>1. CASE i # j
      BY <1>a, <2>1, <3>1 DEF JobStep, StoreInv
    <3>2. CASE i = j
      BY <1>2, <1>a, <2>1, <2>2, <3>2 DEF JobStep, StoreInv, Settled, j
    <3> QED
      BY <3>1, <3>2
  <2> QED
    BY <1>b, <2>3, <2>4, <2>5, <2>6, <2>7 DEF StoreStep, StoreInv
<1> QED
  BY <1>1, <1>2

\* A dispatch that ends its job.
LEMMA FinishStore ==
    ASSUME IInv, pc \in {"deliver", "relay"}, NEW status \in Settled, FinishTerminal(status)
    PROVE  StoreStep
<1>1. /\ Ended(status) \in JobRecords /\ Ended(status).status \notin Active
      /\ Ended(status).status # "none"
  BY EndedRecord
<1>2. Closed \in CircuitRecords /\ Closed.status = "closed"
  BY CircuitRecord
<1>3. Settle(Ended(status), Closed)
  BY DEF FinishTerminal
<1>4. "awaiting_outcome" \in Active /\ "claimed" \in Active /\ Waiting \subseteq Active
      /\ InFlight \subseteq Active
  BY DEF Active, InFlight
<1> QED
  BY <1>1, <1>2, <1>3, <1>4, SettleStore

\* A dispatch that gives its job back.
LEMMA DeferStore ==
    ASSUME IInv, pc \in {"deliver", "relay"}, Defer
    PROVE  StoreStep
<1> DEFINE job == [jobs[cur.job] EXCEPT !.status = "failed_retryable",
                                        !.claim = NoToken, !.elapsed = FALSE]
<1>1. Settle(job, Open(FALSE))
  BY DEF Defer
<1>2. Open(FALSE) \in CircuitRecords /\ Open(FALSE).status = "open"
  BY CircuitRecord
<1>3. cur.job \in Jobs /\ jobs[cur.job] \in JobRecords
  BY DEF IInv, RunInv, Snapshots, StoreInv
<1>4. /\ job \in JobRecords /\ job.status = "failed_retryable"
      /\ job.detail = jobs[cur.job].detail /\ job.attempt = jobs[cur.job].attempt
  BY <1>3 DEF JobRecords, Active, Waiting
<1>5. Owned => jobs[cur.job].detail \in Details /\ jobs[cur.job].attempt < MaxAttempts
  BY <1>3 DEF Owned, IInv, StoreInv, ActiveInv, Active, InFlight
<1> HIDE DEF job
<1> QED
  BY <1>1, <1>2, <1>4, <1>5, SettleStore DEF InFlight

\* A delivery that went through.
LEMMA DeliveredStore ==
    ASSUME IInv, NEW accepted \in BOOLEAN, NEW proven \in BOOLEAN, Delivered(accepted, proven)
    PROVE  StoreStep
<1>1. pc = "relay"
  BY DEF Delivered
<1>2. CASE proven
  <2>1. FinishTerminal("completed")
    BY <1>2 DEF Delivered
  <2> QED
    BY <1>1, <2>1, FinishStore DEF Settled
<1>3. CASE ~proven
  <2> DEFINE n == cur.attempt + (IF accepted THEN 1 ELSE 0)
             job == [AbsentJob EXCEPT !.status = "awaiting_outcome", !.detail = cur.detail,
                                      !.attempt = n, !.msg = Message[2]]
             circuit == circuits[CircuitOf[cur.job]]
  <2>1. Settle(job, circuit)
    BY <1>3 DEF Delivered
  <2>2. /\ cur.job \in Jobs /\ cur.detail \in Details /\ cur.attempt \in 0 .. MaxAttempts
        /\ cur.attempt < MaxAttempts
    BY <1>1 DEF IInv, RunInv, Snapshots
  <2>3. n \in 0 .. MaxAttempts /\ cur.attempt + 1 \in Numbers /\ cur.attempt + 1 \in 0 .. MaxAttempts + 1
    BY <2>2, Counting DEF Numbers
  <2>4. Message[2] = cur.attempt + 1
    BY DEF Message
  <2> HIDE DEF n
  <2>5. /\ job \in JobRecords /\ job.status = "awaiting_outcome" /\ job.detail = cur.detail
        /\ job.msg = cur.attempt + 1
    BY <2>2, <2>3, <2>4, AbsentRecord DEF JobRecords, Active, InFlight
  <2>6. circuit \in CircuitRecords /\ (circuit.status = "none" => circuit.probe = NoJob)
    BY <2>2, RecoveryAssumption DEF IInv, StoreInv, UnusedInv
  <2>7. Owned => circuit.probe = cur.job
    BY <2>2 DEF Owned, IInv, StoreInv, ProbeInv, InFlight
  <2> HIDE DEF job, circuit
  <2> QED
    BY <1>1, <2>1, <2>2, <2>3, <2>5, <2>6, <2>7, SettleStore DEF Waiting
<1> QED
  BY <1>2, <1>3


-----------------------------------------------------------------------------
(* The dispatcher's run and the inboxes.                                    *)

(* The types of what is not stored, and the two parts about it.             *)
RestInv ==
    /\ inbox \in [Messages -> Seq(Details)]
    /\ read \subseteq Messages
    /\ failed \subseteq Messages
    /\ pc \in {"idle", "claim", "next", "deliver", "relay"}
    /\ token \in Tokens \cup {NoToken}
    /\ batch \subseteq Snapshots
    /\ cur \in Snapshots \cup {NoJob}
    /\ seenRead \in BOOLEAN
    /\ verdict \in Messages \cup {NoMessage}
    /\ faults \in 0 .. MaxFaults
    /\ InboxInv /\ RunInv

(* What is in an inbox stays.                                               *)
InboxStays == \A m \in Messages : inbox[m] # <<>> => inbox'[m] = inbox[m]

RestStep == RestInv' /\ InboxStays

LEMMA RestOfInv == IInv => RestInv
BY DEF IInv, TypeOK, RestInv

\* Steps that leave the run and the inboxes alone.
LEMMA RestUnchanged ==
    ASSUME RestInv, UNCHANGED <<run, inbox>>, read' \subseteq Messages, failed' \subseteq Messages,
           verdict' \in Messages \cup {NoMessage}, faults' \in 0 .. MaxFaults
    PROVE  RestStep
BY DEF RestStep, RestInv, InboxInv, RunInv, Message, InboxStays, run

\* Steps that end the dispatch of a job, or the run.
LEMMA RestAside ==
    ASSUME RestInv, UNCHANGED <<inbox, read, failed>>, pc' \in {"idle", "claim", "next"},
           token' \in Tokens \cup {NoToken}, batch' \subseteq batch, cur' \in Snapshots \cup {NoJob},
           seenRead' \in BOOLEAN, verdict' \in Messages \cup {NoMessage}, faults' \in 0 .. MaxFaults
    PROVE  RestStep
BY DEF RestStep, RestInv, InboxInv, RunInv, InboxStays

LEMMA ClaimRest ==
    ASSUME IInv, NEW S \in Selections, Claim(S)
    PROVE  RestStep
<1> USE RecoveryAssumption
<1>1. RestInv
  BY RestOfInv
<1>2. FreshToken \in Tokens
  <2>1. [j \in Jobs |-> jobs[j].claim] \in [Jobs -> Tokens \cup {NoToken}]
    BY DEF IInv, StoreInv, JobRecords
  <2>2. \E t \in Tokens : \A j \in Jobs : jobs[j].claim # t
    BY <2>1
  <2> QED
    BY <2>2 DEF FreshToken
<1>3. ASSUME NEW j \in S
      PROVE  /\ [job |-> j, attempt |-> jobs[j].attempt, detail |-> jobs[j].detail] \in Snapshots
             /\ jobs[j].attempt < MaxAttempts
  <2>1. j \in Jobs /\ Due(j)
    BY DEF Selections
  <2>2. jobs[j].status \in Waiting \cup {"claimed"}
    BY <2>1 DEF Due, StaleClaim
  <2>3. jobs[j].detail \in Details /\ jobs[j].attempt < MaxAttempts /\ jobs[j].attempt \in 0 .. MaxAttempts
    BY <2>1, <2>2 DEF IInv, StoreInv, ActiveInv, JobRecords, Active, InFlight
  <2> QED
    BY <2>1, <2>3 DEF Snapshots
<1>4. /\ batch' \subseteq Snapshots
      /\ \A s \in batch' : s.attempt < MaxAttempts
  <2> SUFFICES ASSUME NEW s \in batch' PROVE s \in Snapshots /\ s.attempt < MaxAttempts
    OBVIOUS
  <2>1. PICK j \in S : s = [job |-> j, attempt |-> jobs[j].attempt, detail |-> jobs[j].detail]
    BY DEF Claim
  <2> QED
    BY <1>3, <2>1
<1>5. /\ pc' = "next" /\ token' \in Tokens
      /\ UNCHANGED <<inbox, read, failed, cur, seenRead, verdict, faults>>
  BY <1>2 DEF Claim, agents
<1> QED
  BY <1>1, <1>4, <1>5 DEF RestStep, RestInv, InboxInv, RunInv, InboxStays

LEMMA TakeJobRest ==
    ASSUME IInv, NEW s \in batch, TakeJob(s)
    PROVE  RestStep
<1>1. RestInv
  BY RestOfInv
<1>2. s \in Snapshots /\ s.attempt < MaxAttempts
  BY DEF IInv, TypeOK, RunInv
<1>3. /\ pc' = "deliver" /\ cur' = s /\ batch' \subseteq batch
      /\ UNCHANGED <<inbox, read, failed, token, seenRead, verdict, faults>>
  BY DEF TakeJob, agents
<1> QED
  BY <1>1, <1>2, <1>3 DEF RestStep, RestInv, InboxInv, RunInv, InboxStays

\* The message of the snapshot.
LEMMA CurrentMessage ==
    ASSUME IInv, pc \in {"deliver", "relay"}
    PROVE  /\ Message \in Messages /\ Message[2] <= MaxAttempts
           /\ cur \in Snapshots /\ cur.detail \in Details
<1>1. cur \in Snapshots /\ cur.attempt < MaxAttempts
  BY DEF IInv, RunInv
<1>2. cur.attempt + 1 \in Numbers /\ cur.attempt + 1 <= MaxAttempts
  BY <1>1, Counting DEF Snapshots, Numbers
<1> QED
  BY <1>1, <1>2 DEF Message, Messages, Snapshots

LEMMA FindRest ==
    ASSUME IInv, FindMessage
    PROVE  RestStep
<1>1. RestInv
  BY RestOfInv
<1>2. Message \in Messages /\ cur \in Snapshots
  BY CurrentMessage DEF FindMessage
<1>3. inbox[Message] = <<cur.detail>>
  <2>1. PICK d \in Details : inbox[Message] = <<d>>
    BY <1>2 DEF FindMessage, IInv, InboxInv
  <2>2. Head(<<d>>) = d
    OBVIOUS
  <2> QED
    BY <2>1, <2>2 DEF FindMessage
<1>4. /\ pc = "deliver" /\ pc' = "relay" /\ seenRead' \in BOOLEAN /\ Message' = Message
      /\ UNCHANGED <<inbox, read, failed, token, batch, cur, verdict, faults>>
  BY DEF FindMessage, agents, Message
<1> QED
  BY <1>1, <1>2, <1>3, <1>4 DEF RestStep, RestInv, InboxInv, RunInv, InboxStays

LEMMA WriteRest ==
    ASSUME IInv, WriteMessage
    PROVE  RestStep
<1>1. RestInv
  BY RestOfInv
<1>2. Message \in Messages /\ Message[2] <= MaxAttempts /\ cur.detail \in Details
  BY CurrentMessage DEF WriteMessage
<1>3. inbox[Message] = <<>> /\ inbox' = [inbox EXCEPT ![Message] = <<cur.detail>>]
  <2>1. Append(<<>>, cur.detail) = <<cur.detail>>
    BY <1>2
  <2> QED
    BY <2>1 DEF WriteMessage
<1>4. /\ pc = "deliver" /\ pc' = "relay" /\ Message' = Message
      /\ UNCHANGED <<read, failed, token, batch, cur, seenRead, verdict, faults>>
  BY DEF WriteMessage, Message
<1>5. inbox' \in [Messages -> Seq(Details)] /\ InboxInv' /\ InboxStays /\ inbox'[Message] = <<cur.detail>>
  <2>1. <<cur.detail>> \in Seq(Details)
    BY <1>2
  <2> QED
    BY <1>1, <1>2, <1>3, <2>1 DEF RestInv, InboxInv, InboxStays
<1>6. RunInv'
  BY <1>1, <1>4, <1>5 DEF RestInv, RunInv
<1> QED
  BY <1>1, <1>4, <1>5, <1>6 DEF RestStep, RestInv

-----------------------------------------------------------------------------
(* All steps.                                                               *)

\* A result of a dispatch: the job is stored, the run goes on with the next.
LEMMA SettleRest ==
    ASSUME IInv, NEW job, NEW circuit, Settle(job, circuit), UNCHANGED agents
    PROVE  RestStep
<1>1. RestInv
  BY RestOfInv
<1>2. /\ pc' = "next" /\ cur' = NoJob /\ seenRead' = FALSE
      /\ UNCHANGED <<inbox, read, failed, token, batch, verdict, faults>>
  BY DEF Settle, agents
<1> QED
  BY <1>1, <1>2, RestAside DEF RestInv

\* The steps of the dispatcher.
LEMMA DispatchSteps ==
    ASSUME IInv, DispatchStep
    PROVE  StoreStep /\ RestStep
<1>0. RestInv
  BY RestOfInv
<1>1. CASE StartRun
  <2>1. /\ pc' = "claim" /\ UNCHANGED <<inbox, read, failed, token, batch, cur, seenRead, verdict, faults>>
    BY <1>1 DEF StartRun, agents
  <2> QED
    BY <1>0, <1>1, <2>1, StartRunStore, RestAside DEF RestInv
<1>2. ASSUME NEW S \in Selections, Claim(S) PROVE StoreStep /\ RestStep
  BY <1>2, ClaimStore, ClaimRest
<1>3. ASSUME NEW s \in batch, TakeJob(s) PROVE StoreStep /\ RestStep
  <2>1. UNCHANGED store
    BY <1>3 DEF TakeJob
  <2> QED
    BY <1>3, <2>1, StoreUnchanged, TakeJobRest
<1>4. ASSUME NEW s \in batch, TakeExpiredJob(s) PROVE StoreStep /\ RestStep
  <2>1. /\ pc = "next" /\ pc' = pc /\ batch' \subseteq batch
        /\ UNCHANGED <<inbox, read, failed, token, cur, seenRead, verdict, faults>>
    BY <1>4 DEF TakeExpiredJob, agents
  <2> QED
    BY <1>0, <1>4, <2>1, TakeExpiredStore, RestAside DEF RestInv
<1>5. CASE EndRun
  <2>1. /\ pc' = "idle" /\ token' = NoToken /\ UNCHANGED store
        /\ UNCHANGED <<inbox, read, failed, batch, cur, seenRead, verdict, faults>>
    BY <1>5 DEF EndRun, agents
  <2> QED
    BY <1>0, <2>1, StoreUnchanged, RestAside DEF RestInv
<1>6. CASE NotNow \/ RelayUnconfirmed
  <2>1. pc \in {"deliver", "relay"} /\ Defer /\ UNCHANGED agents
    BY <1>6 DEF NotNow, RelayUnconfirmed
  <2>2. RestStep
    BY <2>1, SettleRest DEF Defer
  <2> QED
    BY <2>1, <2>2, DeferStore
<1>7. CASE NotAnyMore \/ InboxConflict \/ RelayIgnored
  <2>1. /\ pc \in {"deliver", "relay"} /\ UNCHANGED agents
        /\ FinishTerminal("superseded") \/ FinishTerminal("failed_terminal")
    BY <1>7 DEF NotAnyMore, InboxConflict, RelayIgnored
  <2>2. RestStep
    BY <2>1, SettleRest DEF FinishTerminal
  <2> QED
    BY <2>1, <2>2, FinishStore DEF Settled
<1>8. CASE FindMessage
  <2>1. UNCHANGED store
    BY <1>8 DEF FindMessage
  <2> QED
    BY <1>8, <2>1, StoreUnchanged, FindRest
<1>9. CASE WriteMessage
  <2>1. UNCHANGED store
    BY <1>9 DEF WriteMessage
  <2> QED
    BY <1>9, <2>1, StoreUnchanged, WriteRest
<1>10. ASSUME NEW accepted \in BOOLEAN, NEW proven \in BOOLEAN, Delivered(accepted, proven)
       PROVE  StoreStep /\ RestStep
  <2>1. UNCHANGED agents /\ \E job, circuit : Settle(job, circuit)
    BY <1>10 DEF Delivered, FinishTerminal
  <2> QED
    BY <1>10, <2>1, DeliveredStore, SettleRest
<1> QED
  BY <1>1, <1>2, <1>3, <1>4, <1>5, <1>6, <1>7, <1>8, <1>9, <1>10 DEF DispatchStep

\* The steps of the observers, of cancellations and of time.
LEMMA ObserverSteps ==
    ASSUME IInv, UNCHANGED <<agents, run>>,
           \/ \E j \in Jobs : ObserveManual(j) \/ TimerElapses(j) \/ JobExpires(j)
           \/ \E j \in Jobs, d \in Details : ObserveNew(j, d)
           \/ \E m \in Messages, r \in Reports, d \in Details : FailureReschedules(m, r, d)
           \/ \E m \in Messages, r \in Reports : FailureEnds(m, r) \/ FailureIsLate(m, r)
           \/ MarkCompleted
           \/ \E S \in CancelScopes : Cancel(S)
           \/ \E c \in Circuits : ProbeTimeComes(c)
    PROVE  StoreStep /\ RestStep
<1>1. StoreStep
  BY ObserveManualStore, TimerStore, ExpiryStore, ObserveNewStore, RescheduleStore,
     FailureEndsStore, LateStore, CompleteStore, CancelStore, ProbeTimeStore
<1>2. verdict' \in {verdict, NoMessage} /\ faults' = faults
  BY DEF ObserveManual, TimerElapses, JobExpires, ObserveNew, FailureReschedules, FailureEnds,
         FailureIsLate, Report, MarkCompleted, Cancel, ProbeTimeComes
<1>3. RestStep
  BY <1>2, RestOfInv, RestUnchanged DEF RestInv, agents
<1> QED
  BY <1>1, <1>3

\* The steps that leave the store alone: scans, faults, agents.
LEMMA OtherSteps ==
    ASSUME IInv,
           \/ \E m \in Messages : ScanFindsAnswer(m) \/ AgentReads(m) \/ TurnFails(m)
           \/ UpdateThrows \/ Crash \/ UNCHANGED vars
    PROVE  StoreStep /\ RestStep
<1>1. UNCHANGED store
  BY DEF ScanFindsAnswer, AgentReads, TurnFails, UpdateThrows, Crash, vars, store
<1>2. RestInv
  BY RestOfInv
<1>3. CASE UpdateThrows \/ Crash
  <2>1. /\ UNCHANGED <<inbox, read, failed>> /\ faults' \in 0 .. MaxFaults
        /\ verdict' \in Messages \cup {NoMessage}
    <3>1. /\ UNCHANGED <<inbox, read, failed>> /\ faults < MaxFaults /\ faults' = faults + 1
          /\ verdict' \in {verdict, NoMessage}
      BY <1>3 DEF UpdateThrows, Crash, agents
    <3> QED
      BY <1>2, <3>1, RecoveryAssumption DEF RestInv
  <2>2. CASE UNCHANGED run
    BY <1>1, <1>2, <2>1, <2>2, RestUnchanged, StoreUnchanged DEF RestInv
  <2>3. CASE /\ pc' \in {"next", "idle"} /\ token' \in {token, NoToken} /\ batch' \in {batch, {}}
             /\ cur' = NoJob /\ seenRead' = FALSE
    <3>1. token' \in Tokens \cup {NoToken} /\ batch' \subseteq batch
      BY <1>2, <2>3 DEF RestInv
    <3>2. RestStep
      BY <1>2, <2>1, <2>3, <3>1, RestAside
    <3> QED
      BY <1>1, <3>2, StoreUnchanged
  <2> QED
    BY <1>3, <2>2, <2>3 DEF UpdateThrows, Crash, run
<1>4. CASE \/ \E m \in Messages : ScanFindsAnswer(m) \/ AgentReads(m) \/ TurnFails(m)
           \/ UNCHANGED vars
  <2>1. /\ UNCHANGED <<run, inbox, faults>> /\ verdict' \in Messages \cup {NoMessage}
        /\ read' \subseteq Messages /\ failed' \subseteq Messages
    BY <1>2, <1>4 DEF ScanFindsAnswer, AgentReads, TurnFails, vars, run, agents, RestInv
  <2>2. faults' \in 0 .. MaxFaults
    BY <1>2, <2>1 DEF RestInv
  <2>3. RestStep
    BY <1>2, <2>1, <2>2, RestUnchanged
  <2> QED
    BY <1>1, <2>3, StoreUnchanged
<1> QED
  BY <1>3, <1>4

LEMMA NextStep ==
    ASSUME IInv, [Next]_vars
    PROVE  StoreStep /\ RestStep
<1>1. CASE UNCHANGED vars
  BY <1>1, OtherSteps
<1>2. CASE DispatchStep
  BY <1>2, DispatchSteps
<1>3. CASE UpdateThrows \/ Crash
  BY <1>3, OtherSteps
<1>4. CASE \E m \in Messages : ScanFindsAnswer(m) \/ AgentReads(m) \/ TurnFails(m)
  BY <1>4, OtherSteps
<1>5. CASE \/ \E j \in Jobs : ObserveManual(j) \/ TimerElapses(j) \/ JobExpires(j)
           \/ \E j \in Jobs, d \in Details : ObserveNew(j, d)
           \/ \E m \in Messages, r \in Reports, d \in Details : FailureReschedules(m, r, d)
           \/ \E m \in Messages, r \in Reports : FailureEnds(m, r) \/ FailureIsLate(m, r)
           \/ MarkCompleted
           \/ \E S \in CancelScopes : Cancel(S)
           \/ \E c \in Circuits : ProbeTimeComes(c)
  <2>1. UNCHANGED <<agents, run>>
    BY <1>5 DEF ObserveManual, TimerElapses, JobExpires, ObserveNew, FailureReschedules,
       FailureEnds, FailureIsLate, Report, MarkCompleted, Cancel, ProbeTimeComes
  <2> QED
    BY <1>5, <2>1, ObserverSteps
<1> QED
  BY <1>1, <1>2, <1>3, <1>4, <1>5 DEF Next

\* A job that awaits an outcome has its message: it was there when the delivery
\* was recorded, and messages stay.
LEMMA AwaitedStep ==
    ASSUME IInv, StoreStep, RestStep
    PROVE  AwaitedWasSent'
<1> SUFFICES ASSUME NEW j \in Jobs, jobs'[j].status = "awaiting_outcome"
             PROVE  inbox'[<<j, jobs'[j].msg>>] = <<jobs'[j].detail>>
  BY DEF AwaitedWasSent
<1>1. JobStep(j)
  BY DEF StoreStep
<1>2. CASE /\ jobs[j].status = "awaiting_outcome"
           /\ jobs'[j].msg = jobs[j].msg /\ jobs'[j].detail = jobs[j].detail
  <2>1. inbox[<<j, jobs[j].msg>>] = <<jobs[j].detail>> /\ <<j, jobs[j].msg>> \in Messages
    BY <1>2 DEF IInv, AwaitedWasSent, StoreInv, ActiveInv, Messages
  <2>2. <<jobs[j].detail>> # <<>>
    OBVIOUS
  <2>3. inbox'[<<j, jobs[j].msg>>] = inbox[<<j, jobs[j].msg>>]
    BY <2>1, <2>2 DEF RestStep, InboxStays
  <2> QED
    BY <1>2, <2>1, <2>3
<1>3. CASE /\ pc = "relay" /\ j = cur.job
           /\ jobs'[j].msg = cur.attempt + 1 /\ jobs'[j].detail = cur.detail
  <2>1. inbox[Message] = <<cur.detail>> /\ Message \in Messages
    BY <1>3, CurrentMessage DEF IInv, RunInv
  <2>2. Message = <<j, jobs'[j].msg>>
    BY <1>3 DEF Message
  <2> QED
    BY <1>3, <2>1, <2>2 DEF RestStep, InboxStays
<1> QED
  BY <1>1, <1>2, <1>3 DEF JobStep

LEMMA InvStep == IInv /\ [Next]_vars => IInv'
<1> SUFFICES ASSUME IInv, [Next]_vars PROVE IInv'
  OBVIOUS
<1>1. StoreStep /\ RestStep
  BY NextStep
<1>2. AwaitedWasSent'
  BY <1>1, AwaitedStep
<1> QED
  BY <1>1, <1>2 DEF StoreStep, StoreInv, RestStep, RestInv, IInv, TypeOK

LEMMA InitInv == Init => IInv
<1> SUFFICES ASSUME Init PROVE IInv
  OBVIOUS
<1> USE RecoveryAssumption
<1>1. jobs \in [Jobs -> JobRecords] /\ \A j \in Jobs : jobs[j].status = "none"
  BY AbsentRecord DEF Init
<1>2. /\ AbsentCircuit \in CircuitRecords /\ AbsentCircuit.probe = NoJob
      /\ circuits \in [Circuits -> CircuitRecords]
      /\ \A c \in Circuits : circuits[c].probe = NoJob
  BY DEF Init, AbsentCircuit, CircuitRecords
<1>3. StoreInv
  BY <1>1, <1>2 DEF StoreInv, KnownInv, ActiveInv, ProbeInv, UnusedInv, Init, Active, Waiting, InFlight
<1>4. /\ inbox \in [Messages -> Seq(Details)] /\ \A m \in Messages : inbox[m] = <<>>
      /\ read = {} /\ failed = {} /\ pc = "idle" /\ token = NoToken /\ batch = {} /\ cur = NoJob
      /\ seenRead = FALSE /\ verdict = NoMessage /\ faults = 0
  BY DEF Init
<1>5. 0 \in 0 .. MaxFaults
  OBVIOUS
<1>6. InboxInv /\ RunInv /\ AwaitedWasSent
  BY <1>1, <1>4 DEF InboxInv, RunInv, AwaitedWasSent
<1> QED
  BY <1>3, <1>4, <1>5, <1>6 DEF IInv, TypeOK, StoreInv

(* The invariant ties the jobs in flight to the probes of their circuits,   *)
(* the snapshots of the dispatcher to attempts left, and the jobs that wait *)
(* for an outcome to the messages in the inboxes.                           *)
THEOREM Inductive == Spec => []IInv
BY InitInv, InvStep, PTL DEF Spec

(* The stored state and the dispatcher's variables keep their types.        *)
THEOREM TypeCorrect == Spec => []TypeOK
<1>1. IInv => TypeOK
  BY DEF IInv
<1> QED
  BY <1>1, Inductive, PTL

(* A failing provider sees one recovery turn at a time (claimTeam and every *)
(* release of a circuit).                                                   *)
THEOREM OneProbe == Spec => []OneProbePerCircuit
<1>1. IInv => OneProbePerCircuit
  BY OneInFlight, RecoveryAssumption DEF IInv, StoreInv
<1> QED
  BY <1>1, Inductive, PTL

(* A job awaits the outcome of a message that is in the inbox with the      *)
(* job's text (deliver, and what dispatchJob stores of it).                 *)
THEOREM AwaitedSent == Spec => []AwaitedWasSent
<1>1. IInv => AwaitedWasSent
  BY DEF IInv
<1> QED
  BY <1>1, Inductive, PTL

(* No message is written twice, none beyond the configured attempts.        *)
THEOREM Bounded == Spec => []MessagesBounded
<1>1. ASSUME IInv PROVE MessagesBounded
  <2> SUFFICES ASSUME NEW j \in Jobs, NEW n \in Numbers
               PROVE  Len(inbox[<<j, n>>]) <= (IF n <= MaxAttempts THEN 1 ELSE 0)
    BY DEF MessagesBounded
  <2>1. <<j, n>> \in Messages /\ <<j, n>>[2] = n
    BY DEF Messages
  <2>2. CASE inbox[<<j, n>>] = <<>>
    <3>1. Len(<<>>) = 0
      OBVIOUS
    <3> QED
      BY <2>2, <3>1
  <2>3. ASSUME NEW d \in Details, inbox[<<j, n>>] = <<d>>, n <= MaxAttempts
        PROVE  Len(inbox[<<j, n>>]) <= (IF n <= MaxAttempts THEN 1 ELSE 0)
    <3>1. Len(<<d>>) = 1
      OBVIOUS
    <3> QED
      BY <2>3, <3>1
  <2> QED
    BY <1>1, <2>1, <2>2, <2>3 DEF IInv, InboxInv
<1> QED
  BY <1>1, Inductive, PTL

(* A job that came to an answer keeps it: no late delivery, report, scan or *)
(* restart changes it (the claim guard of dispatchJob, findActiveCausedJob, *)
(* the processed signals).                                                  *)
THEOREM SettledForGood == Spec => SettledStays
<1>1. IInv /\ [Next]_vars =>
         [\A j \in Jobs : jobs[j].status \in Settled => jobs'[j].status = jobs[j].status]_vars
  BY NextStep DEF StoreStep, JobStep
<1> QED
  BY <1>1, Inductive, PTL DEF Spec, SettledStays

-----------------------------------------------------------------------------
(* The order of the messages.                                               *)

(* The messages of the first a attempts are in the inbox, that of the next  *)
(* may be, and none after it.                                               *)
Within(j, a) ==
    \A n \in Numbers : /\ n <= a => inbox[<<j, n>>] # <<>>
                       /\ n > a + 1 => inbox[<<j, n>>] = <<>>

(* The snapshots of the run: those to come and the one being dispatched.    *)
Taken(s) == s \in batch \/ (pc \in {"deliver", "relay"} /\ s = cur)

(* One snapshot of a job, none while no run is under way.                   *)
BatchInv ==
    /\ pc \in {"idle", "claim"} => batch = {}
    /\ \A s, t \in batch : s.job = t.job => s = t
    /\ pc \in {"deliver", "relay"} => \A s \in batch : s.job # cur.job

(* A job's attempt counts its messages, and so does the attempt of a        *)
(* snapshot, which the stored job may have outrun but never falls behind.   *)
OrderInv ==
    /\ \A m \in failed : inbox[m] # <<>>
    /\ \A j \in Jobs :
          /\ jobs[j].status = "none" => Within(j, 0) /\ inbox[<<j, 1>>] = <<>>
          /\ jobs[j].status \in Active => Within(j, jobs[j].attempt)
    /\ \A s \in Snapshots : Taken(s) =>
          /\ jobs[s.job].status # "none"
          /\ Within(s.job, s.attempt)
          /\ jobs[s.job].status \in Active => jobs[s.job].attempt >= s.attempt

(* A new attempt counts messages that are in the inbox; only the delivery   *)
(* that is being recorded may take it back.                                 *)
Counted(j) ==
    \/ jobs'[j].attempt = jobs[j].attempt
    \/ /\ Within(j, jobs'[j].attempt)
       /\ \/ jobs'[j].attempt >= jobs[j].attempt
          \/ pc = "relay" /\ j = cur.job /\ pc' = "next"

(* What a step that takes no job up may do to one.                          *)
Move(j) ==
    \/ jobs'[j].status = jobs[j].status /\ jobs'[j].attempt = jobs[j].attempt
    \/ jobs[j].status \in Waiting /\ jobs'[j].status \in {"superseded", "cancelled"}
    \/ /\ jobs[j].status \in InFlight
       /\ \/ jobs'[j].status \in {"superseded", "cancelled", "failed_terminal"}
          \/ jobs'[j].status \in {"completed", "outcome_unknown"} /\ SentFor(j) # {}
          \/ jobs'[j].status \in Active /\ Counted(j)

LEMMA EndedStatus == \A status : Ended(status).status = status
BY DEF Ended, AbsentJob

LEMMA AttemptNat == ASSUME IInv, NEW j \in Jobs PROVE jobs[j].attempt \in Nat
BY Counting DEF IInv, StoreInv, JobRecords

\* A message that is in the inbox was sent.
LEMMA InInbox ==
    ASSUME NEW j \in Jobs, NEW n \in Numbers, inbox[<<j, n>>] # <<>> PROVE SentFor(j) # {}
BY DEF SentFor

LEMMA AwaitedSentFor ==
    ASSUME IInv, NEW j \in Jobs, jobs[j].status = "awaiting_outcome" PROVE SentFor(j) # {}
<1>1. jobs[j].msg \in Numbers /\ inbox[<<j, jobs[j].msg>>] = <<jobs[j].detail>>
  BY DEF IInv, StoreInv, ActiveInv, AwaitedWasSent
<1>2. inbox[<<j, jobs[j].msg>>] # <<>>
  BY <1>1
<1> QED
  BY <1>1, <1>2, InInbox

\* A failed recovery turn schedules the attempt after those with a message.
LEMMA RescheduleMoves ==
    ASSUME IInv, OrderInv, NEW m \in Messages, NEW r \in Reports, NEW d \in Details,
           FailureReschedules(m, r, d)
    PROVE  \A j \in Jobs : Move(j)
<1> DEFINE i == m[1]
           new == [AbsentJob EXCEPT !.status = "pending", !.detail = d,
                                    !.attempt = CountedAttempts(i)]
<1>1. i \in Jobs /\ m[2] \in Numbers /\ m = <<i, m[2]>>
  BY DEF Messages
<1>2. jobs \in [Jobs -> JobRecords] /\ jobs[i].attempt \in Nat
  BY <1>1 DEF IInv, StoreInv, JobRecords
<1>3. jobs' = [jobs EXCEPT ![i] = new]
  BY DEF FailureReschedules
<1>4. new.status = "pending" /\ new.attempt = CountedAttempts(i)
  BY DEF AbsentJob
<1>5. jobs'[i] = new /\ \A j \in Jobs : j # i => jobs'[j] = jobs[j]
  BY <1>1, <1>2, <1>3
<1> HIDE DEF new
<1>6. jobs[i].status \in InFlight /\ jobs[i].status \in Active
  BY DEF FailureReschedules, Caused, Active
<1>7. inbox[<<i, m[2]>>] # <<>>
  BY <1>1 DEF FailureReschedules, Report, OrderInv
<1>8. Within(i, jobs[i].attempt)
  BY <1>1, <1>6 DEF OrderInv
<1>9. Counted(i)
  <2>1. CASE jobs[i].attempt # 0
    BY <1>4, <1>5, <2>1 DEF CountedAttempts, Counted
  <2>2. CASE jobs[i].attempt = 0
    <3>1. jobs'[i].attempt = 1
      BY <1>4, <1>5, <2>2 DEF CountedAttempts
    <3>2. m[2] = 1
      BY <1>1, <1>7, <1>8, <2>2, Counting DEF Within, Numbers
    <3>3. Within(i, 1)
      BY <1>7, <1>8, <2>2, <3>2, Counting DEF Within, Numbers
    <3> QED
      BY <2>2, <3>1, <3>3 DEF Counted
  <2> QED
    BY <2>1, <2>2
<1> QED
  BY <1>4, <1>5, <1>6, <1>9 DEF Move, Active, Waiting

\* The observers' other steps, the cancellations, the sweep's start and time.
LEMMA ObserverMoves ==
    ASSUME IInv, OrderInv,
           \/ \E j \in Jobs : ObserveManual(j) \/ TimerElapses(j) \/ JobExpires(j)
           \/ \E m \in Messages, r \in Reports, d \in Details : FailureReschedules(m, r, d)
           \/ \E m \in Messages, r \in Reports : FailureEnds(m, r) \/ FailureIsLate(m, r)
           \/ MarkCompleted \/ StartRun
           \/ \E S \in CancelScopes : Cancel(S)
           \/ \E c \in Circuits : ProbeTimeComes(c)
    PROVE  \A j \in Jobs : Move(j)
<1>1. jobs \in [Jobs -> JobRecords]
  BY DEF IInv, StoreInv
<1>2. CASE \/ \E j \in Jobs : ObserveManual(j)
           \/ \E m \in Messages, r \in Reports : FailureIsLate(m, r)
           \/ \E c \in Circuits : ProbeTimeComes(c)
  BY <1>2 DEF ObserveManual, FailureIsLate, ProbeTimeComes, Move
<1>3. ASSUME NEW j \in Jobs, TimerElapses(j) \/ JobExpires(j) PROVE \A k \in Jobs : Move(k)
  <2>1. jobs' = [jobs EXCEPT ![j].elapsed = TRUE] \/ jobs' = [jobs EXCEPT ![j].expired = TRUE]
    BY <1>3 DEF TimerElapses, JobExpires
  <2>2. \A k \in Jobs : jobs'[k].status = jobs[k].status /\ jobs'[k].attempt = jobs[k].attempt
    BY <1>1, <2>1 DEF JobRecords
  <2> QED
    BY <2>2 DEF Move
<1>4. ASSUME NEW m \in Messages, NEW r \in Reports, FailureEnds(m, r) PROVE \A k \in Jobs : Move(k)
  <2>1. jobs[m[1]].status \in InFlight
    BY <1>4 DEF FailureEnds, Caused
  <2>2. \A k \in Jobs :
          \/ k = m[1] /\ jobs'[k] = Ended("failed_terminal")
          \/ jobs[k].status \in Waiting /\ jobs'[k] = Ended("superseded")
          \/ jobs'[k] = jobs[k]
    BY <1>4 DEF FailureEnds, WaitingIn
  <2> QED
    BY <2>1, <2>2, EndedStatus DEF Move
<1>5. CASE MarkCompleted
  <2>1. \A k \in Jobs :
          \/ jobs[k].status = "awaiting_outcome" /\ jobs'[k] = Ended("completed")
          \/ jobs'[k] = Postponed(jobs[k])
          \/ jobs'[k] = jobs[k]
    BY <1>5 DEF MarkCompleted
  <2>2. \A k \in Jobs : /\ Postponed(jobs[k]).status = jobs[k].status
                        /\ Postponed(jobs[k]).attempt = jobs[k].attempt
    BY <1>1 DEF Postponed, JobRecords
  <2> QED
    BY <2>1, <2>2, EndedStatus, AwaitedSentFor DEF Move, InFlight
<1>6. CASE StartRun
  <2>1. \A k \in Jobs :
          \/ jobs[k].status = "awaiting_outcome" /\ jobs'[k] = Ended("outcome_unknown")
          \/ jobs[k].status \in Waiting /\ jobs'[k] = Ended("superseded")
          \/ jobs'[k] = jobs[k]
    BY <1>6 DEF StartRun
  <2> QED
    BY <2>1, EndedStatus, AwaitedSentFor DEF Move, InFlight
<1>7. ASSUME NEW S \in CancelScopes, Cancel(S) PROVE \A k \in Jobs : Move(k)
  <2>1. \A k \in Jobs :
          \/ jobs[k].status \in Active /\ jobs'[k] = Ended("cancelled")
          \/ jobs'[k] = jobs[k]
    BY <1>7 DEF Cancel
  <2> QED
    BY <2>1, EndedStatus DEF Move, Active
<1> QED
  BY <1>2, <1>3, <1>4, <1>5, <1>6, <1>7, RescheduleMoves

(* A message that is being relayed is in the inbox.                         *)
LEMMA RelayedSent ==
    ASSUME IInv, OrderInv, pc = "relay"
    PROVE  /\ cur \in Snapshots /\ cur.job \in Jobs /\ cur.attempt \in Nat
           /\ SentFor(cur.job) # {}
           /\ Within(cur.job, cur.attempt) /\ Within(cur.job, cur.attempt + 1)
<1>1. cur \in Snapshots /\ Message \in Messages /\ inbox[Message] = <<cur.detail>>
  BY CurrentMessage DEF IInv, RunInv
<1>2. cur.job \in Jobs /\ cur.attempt \in Nat /\ cur.attempt + 1 \in Numbers
  BY <1>1 DEF Snapshots, Message, Messages
<1>3. inbox[<<cur.job, cur.attempt + 1>>] # <<>>
  BY <1>1 DEF Message
<1>4. Within(cur.job, cur.attempt)
  BY <1>1 DEF OrderInv, Taken
<1>5. Within(cur.job, cur.attempt + 1)
  <2>1. \A n \in Numbers : n \in Nat
    BY Counting DEF Numbers
  <2> QED
    BY <1>2, <1>3, <1>4, <2>1 DEF Within
<1> QED
  BY <1>1, <1>2, <1>3, <1>4, <1>5, InInbox

\* One guarded update of the job that is dispatched.
LEMMA SettleMoves ==
    ASSUME IInv, NEW job, NEW circuit, Settle(job, circuit), cur.job \in Jobs,
           \/ job.status \in {"superseded", "failed_terminal"}
           \/ job.status = "completed" /\ SentFor(cur.job) # {}
           \/ job.status \in Active /\ job.attempt = jobs[cur.job].attempt
           \/ job.status \in Active /\ pc = "relay" /\ Within(cur.job, job.attempt)
    PROVE  \A j \in Jobs : Move(j)
<1>1. jobs \in [Jobs -> JobRecords]
  BY DEF IInv, StoreInv
<1>2. CASE ~Owned
  BY <1>2 DEF Settle, Move
<1>3. CASE Owned
  <2>1. /\ jobs[cur.job].status \in InFlight
        /\ jobs'[cur.job] = job /\ pc' = "next"
        /\ \A j \in Jobs : j # cur.job => jobs'[j] = jobs[j]
    BY <1>1, <1>3 DEF Settle, Owned, InFlight
  <2> QED
    BY <2>1 DEF Move, Counted
<1> QED
  BY <1>2, <1>3

\* The results of a dispatch, and a job that expired before it.
LEMMA DispatchMoves ==
    ASSUME IInv, OrderInv,
           \/ NotNow \/ NotAnyMore \/ InboxConflict \/ RelayUnconfirmed \/ RelayIgnored
           \/ \E accepted, proven \in BOOLEAN : Delivered(accepted, proven)
           \/ \E s \in batch : TakeExpiredJob(s)
    PROVE  \A j \in Jobs : Move(j)
<1>1. jobs \in [Jobs -> JobRecords]
  BY DEF IInv, StoreInv
<1>2. pc \in {"deliver", "relay"} => cur.job \in Jobs
  BY CurrentMessage DEF Snapshots
<1>3. CASE NotNow \/ RelayUnconfirmed
  <2>1. Defer /\ pc \in {"deliver", "relay"}
    BY <1>3 DEF NotNow, RelayUnconfirmed
  <2> DEFINE job == [jobs[cur.job] EXCEPT !.status = "failed_retryable",
                                          !.claim = NoToken, !.elapsed = FALSE]
  <2>2. job.status = "failed_retryable" /\ job.attempt = jobs[cur.job].attempt
    BY <1>1, <1>2, <2>1 DEF JobRecords
  <2>3. Settle(job, Open(FALSE))
    BY <2>1 DEF Defer
  <2> HIDE DEF job
  <2> QED
    BY <1>2, <2>1, <2>2, <2>3, SettleMoves DEF Active, Waiting
<1>4. CASE NotAnyMore \/ InboxConflict \/ RelayIgnored
  <2>1. /\ FinishTerminal("superseded") \/ FinishTerminal("failed_terminal")
        /\ pc \in {"deliver", "relay"}
    BY <1>4 DEF NotAnyMore, InboxConflict, RelayIgnored
  <2> QED
    BY <1>2, <2>1, EndedStatus, SettleMoves DEF FinishTerminal
<1>5. ASSUME NEW accepted \in BOOLEAN, NEW proven \in BOOLEAN, Delivered(accepted, proven)
      PROVE  \A j \in Jobs : Move(j)
  <2>1. /\ pc = "relay" /\ cur.job \in Jobs /\ SentFor(cur.job) # {}
        /\ Within(cur.job, cur.attempt) /\ Within(cur.job, cur.attempt + 1)
        /\ cur.attempt \in Nat
    BY <1>5, RelayedSent DEF Delivered
  <2>2. CASE proven
    BY <1>5, <2>1, <2>2, EndedStatus, SettleMoves DEF Delivered, FinishTerminal
  <2>3. CASE ~proven
    <3> DEFINE job == [AbsentJob EXCEPT
                         !.status = "awaiting_outcome", !.detail = cur.detail,
                         !.attempt = cur.attempt + (IF accepted THEN 1 ELSE 0),
                         !.msg = Message[2]]
    <3>1. Settle(job, circuits[CircuitOf[cur.job]])
      BY <1>5, <2>3 DEF Delivered
    <3>2. job.status = "awaiting_outcome" /\ job.attempt \in {cur.attempt, cur.attempt + 1}
      BY <2>1 DEF AbsentJob
    <3> HIDE DEF job
    <3> QED
      BY <2>1, <3>1, <3>2, SettleMoves DEF Active, InFlight
  <2> QED
    BY <2>2, <2>3
<1>6. ASSUME NEW s \in batch, TakeExpiredJob(s) PROVE \A j \in Jobs : Move(j)
  <2>1. s.job \in Jobs
    BY DEF IInv, TypeOK, Snapshots
  <2>2. \A j \in Jobs :
          \/ jobs[j].status = "claimed" /\ jobs'[j] = Ended("superseded")
          \/ jobs'[j] = jobs[j]
    BY <1>1, <1>6, <2>1 DEF TakeExpiredJob
  <2> QED
    BY <2>2, EndedStatus DEF Move, InFlight
<1> QED
  BY <1>3, <1>4, <1>5, <1>6

\* A sweep claims what it selected, open jobs all, and keeps their attempts.
LEMMA ClaimMoves ==
    ASSUME IInv, NEW S \in Selections, Claim(S)
    PROVE  \A j \in Jobs :
             IF j \in S
             THEN /\ jobs[j].status \in Active
                  /\ jobs'[j].status = "claimed" /\ jobs'[j].attempt = jobs[j].attempt
             ELSE Move(j)
<1> SUFFICES ASSUME NEW j \in Jobs
             PROVE  IF j \in S
                    THEN /\ jobs[j].status \in Active
                         /\ jobs'[j].status = "claimed" /\ jobs'[j].attempt = jobs[j].attempt
                    ELSE Move(j)
  OBVIOUS
<1>1. jobs[j] \in JobRecords
  BY DEF IInv, StoreInv
<1>2. j \in S => Due(j)
  BY DEF Selections
<1>3. CASE j \in S
  <2>1. ~Overdue(j) /\ jobs[j].status \in Active
    BY <1>2, <1>3 DEF Due, Overdue, StaleClaim, Active, InFlight
  <2>2. jobs'[j] = [jobs[j] EXCEPT !.status = "claimed", !.claim = FreshToken, !.elapsed = FALSE]
    BY <1>3, <2>1 DEF Claim
  <2> QED
    BY <1>1, <1>3, <2>1, <2>2 DEF JobRecords
<1>4. CASE j \notin S /\ Overdue(j)
  <2>1. jobs'[j] = Ended("superseded")
    BY <1>4 DEF Claim
  <2>2. jobs[j].status \in Waiting \/ jobs[j].status = "claimed"
    BY <1>4 DEF Overdue, StaleClaim
  <2> QED
    BY <1>4, <2>1, <2>2, EndedStatus DEF Move, InFlight
<1>5. CASE j \notin S /\ ~Overdue(j) /\ StaleClaim(j)
  <2>1. jobs'[j] = [jobs[j] EXCEPT !.status = "failed_retryable", !.claim = NoToken,
                                   !.elapsed = TRUE]
    BY <1>5 DEF Claim
  <2>2. jobs'[j].status = "failed_retryable" /\ jobs'[j].attempt = jobs[j].attempt
    BY <1>1, <2>1 DEF JobRecords
  <2> QED
    BY <1>5, <2>2 DEF Move, Counted, StaleClaim, InFlight, Active, Waiting
<1>6. CASE j \notin S /\ ~Overdue(j) /\ ~StaleClaim(j)
  BY <1>6 DEF Claim, Move
<1> QED
  BY <1>3, <1>4, <1>5, <1>6

-----------------------------------------------------------------------------
(* The order is kept.                                                       *)

\* Steps that write no message and take no job up.
LEMMA OrderKept ==
    ASSUME IInv, StoreInv', OrderInv, BatchInv, inbox' = inbox,
           \A m \in failed' : inbox[m] # <<>>,
           \A j \in Jobs : Move(j), \A s \in Snapshots : Taken(s)' => Taken(s),
           pc = "relay" /\ pc' = "next" => batch' \subseteq batch
    PROVE  OrderInv'
<1>2. ASSUME NEW j \in Jobs
      PROVE  /\ jobs'[j].status = "none" => jobs[j].status = "none"
             /\ jobs'[j].status \in Active => jobs[j].status \in Active /\ Counted(j)
  BY DEF Move, Counted, Active, Waiting, InFlight
<1>3. ASSUME NEW j \in Jobs
      PROVE  /\ jobs'[j].status = "none" => Within(j, 0)' /\ inbox'[<<j, 1>>] = <<>>
             /\ jobs'[j].status \in Active => Within(j, jobs[j].attempt)'
  <2>1. jobs'[j].status = "none" => Within(j, 0) /\ inbox[<<j, 1>>] = <<>>
    BY <1>2 DEF OrderInv
  <2>2. jobs'[j].status \in Active => Within(j, jobs'[j].attempt)
    <3>1. CASE jobs'[j].attempt = jobs[j].attempt
      BY <1>2, <3>1 DEF OrderInv
    <3> QED
      BY <1>2, <3>1 DEF Counted
  <2> QED
    BY <2>1, <2>2 DEF Within
<1>4. ASSUME NEW s \in Snapshots, Taken(s)'
      PROVE  /\ jobs'[s.job].status # "none"
             /\ Within(s.job, s.attempt)'
             /\ jobs'[s.job].status \in Active => jobs'[s.job].attempt >= s.attempt
  <2>1. s.job \in Jobs /\ s.attempt \in Nat
    BY Counting DEF Snapshots
  <2>2. /\ jobs[s.job].status # "none" /\ Within(s.job, s.attempt)
        /\ jobs[s.job].status \in Active => jobs[s.job].attempt >= s.attempt
    BY <1>4 DEF OrderInv
  <2>3. ~(pc = "relay" /\ s.job = cur.job /\ pc' = "next")
    BY <1>4 DEF Taken, BatchInv
  <2>4. jobs[s.job].attempt \in Nat /\ jobs'[s.job].attempt \in Nat
    BY <2>1, Counting DEF IInv, StoreInv, JobRecords
  <2>5. jobs'[s.job].status \in Active =>
          /\ jobs[s.job].status \in Active
          /\ jobs'[s.job].attempt = jobs[s.job].attempt \/ jobs'[s.job].attempt >= jobs[s.job].attempt
    BY <1>2, <2>1, <2>3 DEF Counted
  <2>6. Within(s.job, s.attempt)'
    BY <2>2 DEF Within
  <2>7. jobs'[s.job].status # "none"
    BY <1>2, <2>1, <2>2
  <2>8. jobs'[s.job].status \in Active => jobs'[s.job].attempt >= s.attempt
    BY <2>1, <2>2, <2>4, <2>5
  <2> QED
    BY <2>6, <2>7, <2>8
<1> QED
  BY <1>3, <1>4 DEF OrderInv

\* A new job starts with no message.
LEMMA NewOrder ==
    ASSUME IInv, OrderInv, NEW i \in Jobs, NEW d \in Details, ObserveNew(i, d)
    PROVE  OrderInv'
<1>1. UNCHANGED <<inbox, failed, pc, batch, cur>> /\ jobs \in [Jobs -> JobRecords]
  BY DEF ObserveNew, agents, run, IInv, StoreInv
<1>2. jobs[i].status = "none" /\ Within(i, 0)
  BY DEF ObserveNew, IInv, StoreInv, KnownInv, OrderInv
<1>3. CASE jobs' = jobs
  BY <1>1, <1>3 DEF OrderInv, Within, Taken
<1>4. CASE jobs' # jobs
  <2> DEFINE new == [AbsentJob EXCEPT !.status = "pending", !.detail = d]
  <2>1. jobs' = [jobs EXCEPT ![i] = new]
    BY <1>4 DEF ObserveNew
  <2>2. new.status = "pending" /\ new.attempt = 0
    BY DEF AbsentJob
  <2> HIDE DEF new
  <2>3. /\ jobs'[i].status = "pending" /\ jobs'[i].attempt = 0
        /\ \A j \in Jobs : j # i => jobs'[j] = jobs[j]
    BY <1>1, <2>1, <2>2
  <2>4. ASSUME NEW j \in Jobs
        PROVE  /\ jobs'[j].status = "none" => Within(j, 0)' /\ inbox'[<<j, 1>>] = <<>>
               /\ jobs'[j].status \in Active => Within(j, jobs[j].attempt)'
    BY <1>1, <1>2, <2>3 DEF OrderInv, Within
  <2>5. ASSUME NEW s \in Snapshots, Taken(s)'
        PROVE  /\ jobs'[s.job].status # "none"
               /\ Within(s.job, s.attempt)'
               /\ jobs'[s.job].status \in Active => jobs'[s.job].attempt >= s.attempt
    <3>1. Taken(s) /\ s.job \in Jobs
      BY <1>1, <2>5 DEF Taken, Snapshots
    <3>2. s.job # i
      BY <1>2, <3>1 DEF OrderInv
    <3> QED
      BY <1>1, <2>3, <3>1, <3>2 DEF OrderInv, Within
  <2> QED
    BY <1>1, <2>4, <2>5 DEF OrderInv
<1> QED
  BY <1>3, <1>4

\* A claimed job's snapshot has its attempt.
LEMMA ClaimOrder ==
    ASSUME IInv, StoreInv', OrderInv, BatchInv, NEW S \in Selections, Claim(S)
    PROVE  OrderInv'
<1>1. /\ UNCHANGED <<inbox, failed>> /\ pc' = "next"
      /\ batch' = {[job |-> j, attempt |-> jobs[j].attempt, detail |-> jobs[j].detail] : j \in S}
      /\ S \subseteq Jobs
  BY DEF Claim, agents, Selections
<1>2. ASSUME NEW j \in Jobs
      PROVE  /\ jobs'[j].status = "none" => jobs[j].status = "none"
             /\ jobs'[j].status \in Active => jobs[j].status \in Active
             /\ jobs'[j].status \in Active /\ jobs'[j].attempt # jobs[j].attempt =>
                   Within(j, jobs'[j].attempt)
  BY ClaimMoves DEF Move, Counted, Active, Waiting, InFlight
<1>3. ASSUME NEW j \in Jobs
      PROVE  /\ jobs'[j].status = "none" => Within(j, 0)' /\ inbox'[<<j, 1>>] = <<>>
             /\ jobs'[j].status \in Active => Within(j, jobs[j].attempt)'
  <2>1. jobs'[j].status = "none" => Within(j, 0) /\ inbox[<<j, 1>>] = <<>>
    BY <1>2 DEF OrderInv
  <2>2. jobs'[j].status \in Active => Within(j, jobs'[j].attempt)
    <3>1. CASE jobs'[j].attempt = jobs[j].attempt
      BY <1>2, <3>1 DEF OrderInv
    <3> QED
      BY <1>2, <3>1
  <2> QED
    BY <1>1, <2>1, <2>2 DEF Within
<1>4. ASSUME NEW s \in Snapshots, Taken(s)'
      PROVE  /\ jobs'[s.job].status # "none"
             /\ Within(s.job, s.attempt)'
             /\ jobs'[s.job].status \in Active => jobs'[s.job].attempt >= s.attempt
  <2>1. PICK j \in S : s = [job |-> j, attempt |-> jobs[j].attempt, detail |-> jobs[j].detail]
    BY <1>1, <1>4 DEF Taken
  <2>2. s.job = j /\ s.attempt = jobs[j].attempt /\ j \in Jobs
    BY <1>1, <2>1
  <2>3. jobs[j].status \in Active /\ jobs'[j].status = "claimed" /\ jobs'[j].attempt = jobs[j].attempt
    BY <2>2, ClaimMoves
  <2>4. Within(j, jobs[j].attempt) /\ jobs[j].attempt \in Nat
    BY <2>2, <2>3, AttemptNat DEF OrderInv
  <2> QED
    BY <1>1, <2>2, <2>3, <2>4 DEF Within
<1> QED
  BY <1>1, <1>3, <1>4 DEF OrderInv

\* The message that is written is the one after those that are there.
LEMMA WriteOrder ==
    ASSUME IInv, OrderInv, BatchInv, WriteMessage
    PROVE  /\ OrderInv'
           /\ Within(cur.job, cur.attempt) /\ inbox[Message] = <<>> /\ inbox'[Message] # <<>>
           /\ \A m \in Messages : m # Message => inbox'[m] = inbox[m]
<1> DEFINE i == cur.job
           a == cur.attempt
<1>1. /\ pc = "deliver" /\ pc' = "relay" /\ inbox[Message] = <<>>
      /\ UNCHANGED <<jobs, failed, batch, cur>>
      /\ cur \in Snapshots /\ Message \in Messages /\ cur.detail \in Details
  BY CurrentMessage DEF WriteMessage, store
<1>2. i \in Jobs /\ a \in Nat /\ a + 1 \in Numbers /\ Message = <<i, a + 1>> /\ 1 \in Numbers
  BY <1>1, Counting DEF Snapshots, Message, Messages, Numbers
<1>3. /\ inbox'[Message] # <<>>
      /\ \A m \in Messages : m # Message => inbox'[m] = inbox[m]
  <2>1. inbox' = [inbox EXCEPT ![Message] = <<cur.detail>>]
    BY <1>1 DEF WriteMessage
  <2>2. inbox' = [inbox EXCEPT ![Message] = <<cur.detail>>] /\ inbox \in [Messages -> Seq(Details)]
    BY <2>1 DEF IInv, TypeOK
  <2> QED
    BY <1>1, <2>2
<1>4. Taken(cur) /\ \A s \in Snapshots : Taken(s)' => Taken(s)
  BY <1>1 DEF Taken
<1>5. Within(i, a) /\ jobs[i].status # "none" /\ (jobs[i].status \in Active => jobs[i].attempt >= a)
  BY <1>1, <1>4 DEF OrderInv
<1>6. \A n \in Numbers : inbox'[<<i, n>>] # <<>> <=> n = a + 1 \/ inbox[<<i, n>>] # <<>>
  BY <1>2, <1>3 DEF Messages
<1>7. \A j \in Jobs, n \in Numbers : j # i => inbox'[<<j, n>>] = inbox[<<j, n>>]
  BY <1>2, <1>3 DEF Messages
<1>8. \A n \in Numbers : n \in Nat
  BY Counting DEF Numbers
<1>9. Within(i, a)'
  BY <1>1, <1>2, <1>5, <1>6, <1>8 DEF Within
<1>10. ASSUME jobs[i].status \in Active PROVE jobs[i].attempt = a
  <2>1. Within(i, jobs[i].attempt) /\ jobs[i].attempt \in Nat
    BY <1>2, <1>10, AttemptNat DEF OrderInv
  <2>2. ~(a + 1 <= jobs[i].attempt)
    BY <1>1, <1>2, <2>1 DEF Within
  <2> QED
    BY <1>2, <1>5, <1>10, <2>1, <2>2
<1>11. ASSUME NEW j \in Jobs
       PROVE  /\ jobs'[j].status = "none" => Within(j, 0)' /\ inbox'[<<j, 1>>] = <<>>
              /\ jobs'[j].status \in Active => Within(j, jobs[j].attempt)'
  <2>1. CASE j = i
    BY <1>1, <1>5, <1>9, <1>10, <2>1 DEF Within
  <2>2. CASE j # i
    BY <1>1, <1>2, <1>7, <2>2 DEF OrderInv, Within
  <2> QED
    BY <2>1, <2>2
<1>12. ASSUME NEW s \in Snapshots, Taken(s)'
       PROVE  /\ jobs'[s.job].status # "none"
              /\ Within(s.job, s.attempt)'
              /\ jobs'[s.job].status \in Active => jobs'[s.job].attempt >= s.attempt
  <2>1. Taken(s) /\ s.job \in Jobs
    BY <1>4, <1>12 DEF Snapshots
  <2>2. s = cur \/ s.job # i
    BY <1>1, <2>1 DEF Taken, BatchInv
  <2>3. CASE s = cur
    BY <1>1, <1>5, <1>9, <2>3 DEF Within
  <2>4. CASE s.job # i
    BY <1>1, <1>7, <2>1, <2>4 DEF OrderInv, Within
  <2> QED
    BY <2>2, <2>3, <2>4
<1>13. \A m \in failed' : inbox'[m] # <<>>
  BY <1>1, <1>3 DEF OrderInv, IInv, TypeOK
<1> QED
  BY <1>1, <1>3, <1>5, <1>11, <1>12, <1>13 DEF OrderInv

-----------------------------------------------------------------------------
(* The run's batch.                                                         *)

LEMMA BatchKept ==
    ASSUME BatchInv, batch' \subseteq batch, pc' \in {"idle", "claim"} => batch' = {},
           pc' \in {"deliver", "relay"} => pc \in {"deliver", "relay"} /\ cur' = cur
    PROVE  BatchInv'
BY DEF BatchInv

LEMMA ClaimBatch ==
    ASSUME NEW S \in Selections, Claim(S) PROVE BatchInv'
<1>1. /\ pc' = "next"
      /\ batch' = {[job |-> j, attempt |-> jobs[j].attempt, detail |-> jobs[j].detail] : j \in S}
  BY DEF Claim
<1>2. ASSUME NEW s \in batch', NEW t \in batch', s.job = t.job PROVE s = t
  <2>1. PICK j \in S : s = [job |-> j, attempt |-> jobs[j].attempt, detail |-> jobs[j].detail]
    BY <1>1
  <2>2. PICK k \in S : t = [job |-> k, attempt |-> jobs[k].attempt, detail |-> jobs[k].detail]
    BY <1>1
  <2>3. j = k
    BY <1>2, <2>1, <2>2
  <2> QED
    BY <2>1, <2>2, <2>3
<1> QED
  BY <1>1, <1>2 DEF BatchInv

LEMMA TakeBatch ==
    ASSUME BatchInv, NEW s \in batch, TakeJob(s) PROVE BatchInv'
<1>1. pc' = "deliver" /\ cur' = s /\ batch' = batch \ {s}
  BY DEF TakeJob
<1>2. \A t \in batch' : t.job # cur'.job
  BY <1>1 DEF BatchInv
<1> QED
  BY <1>1, <1>2 DEF BatchInv

-----------------------------------------------------------------------------
(* The service.                                                             *)

(* What the abstract service sees of a step.                                *)
States == [j \in Jobs |-> StateOf(j)]
Sents == [j \in Jobs |-> SentFor(j)]
Seen == <<States, Sents, Held>>

\* A move of a job is one the service knows.
LEMMA StateMoves ==
    ASSUME NEW j \in Jobs, Move(j)
    PROVE  Service!Moves(j)
<1>1. /\ States[j] = StateOf(j) /\ States'[j] = StateOf(j)' /\ Sents[j] = SentFor(j)
  BY DEF States, Sents
<1>2. CASE jobs'[j].status = jobs[j].status
  BY <1>2 DEF StateOf, Service!Moves
<1>3. CASE jobs[j].status \in Waiting /\ jobs'[j].status \in {"superseded", "cancelled"}
  BY <1>3 DEF StateOf, Service!Moves, Service!After, Waiting, InFlight
<1>4. CASE jobs[j].status \in InFlight
           /\ jobs'[j].status \in {"superseded", "cancelled", "failed_terminal"}
  BY <1>4 DEF StateOf, Service!Moves, Service!After, Waiting, InFlight
<1>5. CASE jobs[j].status \in InFlight /\ SentFor(j) # {}
           /\ jobs'[j].status \in {"completed", "outcome_unknown"}
  BY <1>5 DEF StateOf, Service!Moves, Service!After, Waiting, InFlight
<1>6. CASE jobs[j].status \in InFlight /\ jobs'[j].status \in Active
  BY <1>6 DEF StateOf, Service!Moves, Service!After, Waiting, InFlight, Active
<1> QED
  BY <1>2, <1>3, <1>4, <1>5, <1>6 DEF Move

\* Steps that write no message and take no job up are the service's judgement.
LEMMA JudgeStep ==
    ASSUME inbox' = inbox, \A j \in Jobs : Move(j), Held' \subseteq Held
    PROVE  Service!Next
<1>1. \A j \in Jobs : Service!Moves(j)
  BY StateMoves
<1>2. Sents' = Sents
  BY DEF Sents, SentFor
<1>3. Service!Judge
  BY <1>1, <1>2 DEF Service!Judge, Sents
<1> QED
  BY <1>3 DEF Service!Next

(* Both parts of the invariant, and the step the service sees.              *)
ServiceStep == OrderInv' /\ BatchInv' /\ Service!Next

\* Steps that neither take up nor write: of the observers, of time, of agents, of
\* the run when it is done with a job.
LEMMA AsideStep ==
    ASSUME IInv, StoreInv', OrderInv, BatchInv, inbox' = inbox,
           \A m \in failed' : inbox[m] # <<>>, \A j \in Jobs : Move(j), batch' \subseteq batch,
           pc' \in {"idle", "claim"} => batch' = {},
           pc' \in {"deliver", "relay"} => pc \in {"deliver", "relay"} /\ cur' = cur,
           pc' = "deliver" => pc = "deliver"
    PROVE  ServiceStep
<1>1. \A s \in Snapshots : Taken(s)' => Taken(s)
  BY DEF Taken
<1>2. Held' \subseteq Held
  BY DEF Held
<1> QED
  BY <1>1, <1>2, OrderKept, BatchKept, JudgeStep DEF ServiceStep

\* A claimed job's turn: the run holds it still.
LEMMA TakeStep ==
    ASSUME IInv, StoreInv', OrderInv, BatchInv, NEW s \in batch, TakeJob(s)
    PROVE  ServiceStep
<1>1. /\ UNCHANGED <<jobs, inbox, failed>> /\ pc = "next" /\ pc' = "deliver" /\ cur' = s
      /\ batch' = batch \ {s}
  BY DEF TakeJob, store, agents
<1>2. \A t \in Snapshots : Taken(t)' => Taken(t)
  BY <1>1 DEF Taken
<1>3. Held' = Held
  BY <1>1 DEF Held
<1>4. \A j \in Jobs : Move(j)
  BY <1>1 DEF Move
<1>5. \A m \in failed' : inbox[m] # <<>>
  BY <1>1 DEF OrderInv
<1> QED
  BY <1>1, <1>2, <1>3, <1>4, <1>5, OrderKept, TakeBatch, JudgeStep DEF ServiceStep

\* A sweep takes up open jobs, and leaves one of a circuit in flight.
LEMMA ClaimStep ==
    ASSUME IInv, StoreInv', OrderInv, BatchInv, NEW S \in Selections, Claim(S)
    PROVE  ServiceStep
<1>1. /\ pc = "claim" /\ pc' = "next" /\ UNCHANGED inbox
      /\ batch' = {[job |-> j, attempt |-> jobs[j].attempt, detail |-> jobs[j].detail] : j \in S}
      /\ S \subseteq Jobs
  BY DEF Claim, agents, Selections
<1>2. Held = {} /\ Held' = S
  <2>1. {s.job : s \in batch'} = S
    <3>1. \A s \in batch' : s.job \in S
      BY <1>1
    <3>2. ASSUME NEW j \in S PROVE \E s \in batch' : s.job = j
      <4>1. [job |-> j, attempt |-> jobs[j].attempt, detail |-> jobs[j].detail] \in batch'
        BY <1>1
      <4>2. [job |-> j, attempt |-> jobs[j].attempt, detail |-> jobs[j].detail].job = j
        OBVIOUS
      <4> QED
        BY <4>1, <4>2
    <3> QED
      BY <3>1, <3>2
  <2> QED
    BY <1>1, <2>1 DEF Held, BatchInv
<1>3. \A j \in S : jobs[j].status \in Active /\ jobs'[j].status = "claimed"
  BY <1>1, ClaimMoves
<1>4. \A j \in Jobs : States[j] = StateOf(j) /\ States'[j] = StateOf(j)'
  BY DEF States
<1>5. S \subseteq {j \in Jobs : States[j] \in Service!Open}
  BY <1>1, <1>3, <1>4 DEF StateOf, Service!Open, Active
<1>6. ASSUME NEW j \in Jobs PROVE IF j \in S THEN States'[j] = "in_flight" ELSE Service!Moves(j)
  <2>1. CASE j \in S
    BY <1>3, <1>4, <2>1 DEF StateOf, Waiting, InFlight
  <2>2. CASE j \notin S
    BY <2>2, ClaimMoves, StateMoves
  <2> QED
    BY <2>1, <2>2
<1>7. ASSUME NEW j \in Jobs, NEW k \in Jobs, States'[j] = "in_flight", States'[k] = "in_flight",
             CircuitOf[j] = CircuitOf[k]
      PROVE  j = k
  <2>1. /\ jobs' \in [Jobs -> JobRecords]
        /\ jobs'[j].status \in {"none"} \cup Active \cup Settled
        /\ jobs'[k].status \in {"none"} \cup Active \cup Settled
    BY DEF StoreInv, JobRecords
  <2>2. jobs'[j].status \in InFlight /\ jobs'[k].status \in InFlight
    BY <1>4, <1>7, <2>1 DEF StateOf, Active, Settled
  <2> QED
    BY <1>7, <2>2 DEF StoreInv, ProbeInv
<1>8. Sents' = Sents
  BY <1>1 DEF Sents, SentFor
<1>9. Service!TakeUp
  BY <1>2, <1>5, <1>6, <1>7, <1>8 DEF Service!TakeUp, States, Sents
<1> QED
  BY <1>9, ClaimOrder, ClaimBatch DEF ServiceStep, Service!Next

\* The message of the snapshot's attempt goes out.
LEMMA SendStep ==
    ASSUME IInv, OrderInv, BatchInv, WriteMessage
    PROVE  ServiceStep
<1> DEFINE i == cur.job
           a == cur.attempt
<1>1. /\ pc = "deliver" /\ pc' = "relay" /\ UNCHANGED <<jobs, batch, cur>>
      /\ cur \in Snapshots /\ a < MaxAttempts
  BY CurrentMessage DEF WriteMessage, store, IInv, RunInv
<1>2. i \in Jobs /\ a \in Nat /\ a + 1 \in 1 .. MaxAttempts /\ a + 1 \in Numbers
      /\ Message = <<i, a + 1>>
  BY <1>1, Counting DEF Snapshots, Message, Numbers
<1>3. /\ OrderInv' /\ Within(i, a) /\ inbox[Message] = <<>> /\ inbox'[Message] # <<>>
      /\ \A m \in Messages : m # Message => inbox'[m] = inbox[m]
  BY WriteOrder
<1>4. \A j \in Jobs : Sents[j] = SentFor(j) /\ Sents'[j] = SentFor(j)'
  BY DEF Sents
<1>5. \A n \in Numbers : n \in Nat /\ n >= 1
  BY Counting DEF Numbers
<1>6. SentFor(i) = 1 .. (a + 1) - 1
  <2>1. \A n \in SentFor(i) : n \in 1 .. (a + 1) - 1
    BY <1>2, <1>3, <1>5 DEF SentFor, Within
  <2>2. \A n \in 1 .. (a + 1) - 1 : n \in SentFor(i)
    BY <1>1, <1>2, <1>3, Counting DEF SentFor, Within, Numbers
  <2> QED
    BY <2>1, <2>2
<1>7. SentFor(i)' = 1 .. a + 1
  <2>1. \A n \in Numbers : n \in SentFor(i)' <=> n = a + 1 \/ n \in SentFor(i)
    BY <1>1, <1>2, <1>3 DEF SentFor, Messages
  <2>2. \A n \in SentFor(i)' : n \in Numbers
    BY DEF SentFor
  <2>3. \A n \in 1 .. a + 1 : n \in Numbers
    BY <1>1, <1>2, Counting DEF Numbers
  <2>4. \A n \in 1 .. a + 1 : n = a + 1 \/ n \in 1 .. (a + 1) - 1
    BY <1>2
  <2>5. \A n : n \in 1 .. (a + 1) - 1 => n \in 1 .. a + 1
    BY <1>2
  <2>6. a + 1 \in 1 .. a + 1
    BY <1>2
  <2> QED
    BY <1>6, <2>1, <2>2, <2>3, <2>4, <2>5, <2>6
<1>8. \A j \in Jobs : j # i => SentFor(j)' = SentFor(j)
  BY <1>2, <1>3 DEF SentFor, Messages
<1>9. Sents' = [Sents EXCEPT ![i] = 1 .. a + 1]
  BY <1>1, <1>2, <1>7, <1>8 DEF Sents
<1>10. i \in Held /\ Held' = Held \ {i}
  BY <1>1 DEF Held, BatchInv
<1>11. States' = States
  BY <1>1 DEF States, StateOf
<1>12. Service!Send(i)
  BY <1>2, <1>4, <1>6, <1>9, <1>10, <1>11 DEF Service!Send, States, Sents
<1>13. BatchInv'
  BY <1>1 DEF BatchInv
<1> QED
  BY <1>2, <1>3, <1>12, <1>13 DEF ServiceStep, Service!Next

\* A failure becomes a job, or is folded into one.
LEMMA AcceptStep ==
    ASSUME IInv, OrderInv, BatchInv, NEW i \in Jobs, NEW d \in Details, ObserveNew(i, d)
    PROVE  ServiceStep
<1>1. UNCHANGED <<inbox, pc, batch, cur>> /\ jobs \in [Jobs -> JobRecords]
  BY DEF ObserveNew, agents, run, IInv, StoreInv
<1>2. BatchInv' /\ Held' = Held /\ Sents' = Sents
  BY <1>1 DEF BatchInv, Held, Sents, SentFor
<1>3. CASE jobs' = jobs
  <2>1. Service!Next
    BY <1>1, <1>2, <1>3, JudgeStep DEF Move
  <2> QED
    BY <1>2, <2>1, NewOrder DEF ServiceStep
<1>4. CASE jobs' # jobs
  <2>1. jobs' = [jobs EXCEPT ![i] = [AbsentJob EXCEPT !.status = "pending", !.detail = d]]
    BY <1>4 DEF ObserveNew
  <2>2. jobs'[i].status = "pending" /\ \A j \in Jobs : j # i => jobs'[j] = jobs[j]
    BY <1>1, <2>1 DEF AbsentJob
  <2>3. jobs[i].status = "none"
    BY DEF ObserveNew, IInv, StoreInv, KnownInv
  <2>4. States[i] = "none" /\ States' = [States EXCEPT ![i] = "waiting"]
    BY <2>2, <2>3 DEF States, StateOf, Waiting, InFlight
  <2>5. Service!Accept(i)
    BY <1>2, <2>4 DEF Service!Accept, States, Sents
  <2> QED
    BY <1>2, <2>5, NewOrder DEF ServiceStep, Service!Next
<1> QED
  BY <1>3, <1>4

\* Steps of the observers, of cancellations and of time, and a run's start.
LEMMA ObserversServe ==
    ASSUME IInv, StoreInv', OrderInv, BatchInv,
           \/ \E j \in Jobs : ObserveManual(j) \/ TimerElapses(j) \/ JobExpires(j)
           \/ \E m \in Messages, r \in Reports, d \in Details : FailureReschedules(m, r, d)
           \/ \E m \in Messages, r \in Reports : FailureEnds(m, r) \/ FailureIsLate(m, r)
           \/ MarkCompleted \/ StartRun
           \/ \E S \in CancelScopes : Cancel(S)
           \/ \E c \in Circuits : ProbeTimeComes(c)
    PROVE  ServiceStep
<1>1. /\ UNCHANGED <<inbox, failed, batch, cur>>
      /\ pc' = pc \/ (pc = "idle" /\ pc' = "claim")
  BY DEF ObserveManual, TimerElapses, JobExpires, FailureReschedules, FailureEnds, FailureIsLate,
     Report, MarkCompleted, StartRun, Cancel, ProbeTimeComes, agents, run
<1>2. \A m \in failed' : inbox[m] # <<>>
  BY <1>1 DEF OrderInv
<1>3. /\ inbox' = inbox /\ batch' \subseteq batch
      /\ pc' \in {"idle", "claim"} => batch' = {}
      /\ pc' \in {"deliver", "relay"} => pc \in {"deliver", "relay"} /\ cur' = cur
      /\ pc' = "deliver" => pc = "deliver"
  BY <1>1 DEF BatchInv
<1>4. \A j \in Jobs : Move(j)
  BY ObserverMoves
<1> QED
  BY <1>2, <1>3, <1>4, AsideStep

\* The results of a dispatch.
LEMMA DispatchServes ==
    ASSUME IInv, StoreInv', OrderInv, BatchInv,
           \/ NotNow \/ NotAnyMore \/ InboxConflict \/ RelayUnconfirmed \/ RelayIgnored
           \/ \E accepted, proven \in BOOLEAN : Delivered(accepted, proven)
           \/ \E s \in batch : TakeExpiredJob(s)
    PROVE  ServiceStep
<1>1. CASE \E s \in batch : TakeExpiredJob(s)
  <2>1. UNCHANGED <<inbox, failed, cur>> /\ pc' = "next" /\ batch' \subseteq batch
    BY <1>1 DEF TakeExpiredJob, agents
  <2>2. \A m \in failed' : inbox[m] # <<>>
    BY <2>1 DEF OrderInv
  <2> QED
    BY <2>1, <2>2, DispatchMoves, AsideStep
<1>2. CASE \/ NotNow \/ NotAnyMore \/ InboxConflict \/ RelayUnconfirmed \/ RelayIgnored
           \/ \E accepted, proven \in BOOLEAN : Delivered(accepted, proven)
  <2>1. UNCHANGED agents /\ \E job, circuit : Settle(job, circuit)
    BY <1>2, Zenon DEF NotNow, NotAnyMore, InboxConflict, RelayUnconfirmed, RelayIgnored, Delivered,
       Defer, FinishTerminal
  <2>2. UNCHANGED <<inbox, failed>> /\ pc' = "next" /\ batch' \subseteq batch
    BY <2>1 DEF Settle, agents
  <2>3. \A m \in failed' : inbox[m] # <<>>
    BY <2>2 DEF OrderInv
  <2> QED
    BY <2>2, <2>3, DispatchMoves, AsideStep
<1> QED
  BY <1>1, <1>2

\* Steps that leave the store and the inboxes alone.
LEMMA OthersServe ==
    ASSUME IInv, StoreInv', OrderInv, BatchInv,
           \/ \E m \in Messages : ScanFindsAnswer(m) \/ AgentReads(m) \/ TurnFails(m)
           \/ EndRun \/ FindMessage \/ UpdateThrows \/ Crash \/ UNCHANGED vars
    PROVE  ServiceStep
<1>1. UNCHANGED <<jobs, inbox>>
  BY DEF ScanFindsAnswer, AgentReads, TurnFails, EndRun, FindMessage, UpdateThrows, Crash, vars,
     store, agents
<1>2. \A j \in Jobs : Move(j)
  BY <1>1 DEF Move
<1>3. \A m \in failed' : inbox[m] # <<>>
  BY DEF OrderInv, ScanFindsAnswer, AgentReads, TurnFails, EndRun, FindMessage, UpdateThrows,
     Crash, vars, agents
<1>4. /\ batch' \subseteq batch
      /\ pc' \in {"idle", "claim"} => batch' = {}
      /\ pc' \in {"deliver", "relay"} => pc \in {"deliver", "relay"} /\ cur' = cur
      /\ pc' = "deliver" => pc = "deliver"
  BY DEF BatchInv, ScanFindsAnswer, AgentReads, TurnFails, EndRun, FindMessage, UpdateThrows,
     Crash, vars, run
<1> QED
  BY <1>1, <1>2, <1>3, <1>4, AsideStep

LEMMA EveryStepServes ==
    ASSUME IInv, OrderInv, BatchInv, [Next]_vars PROVE ServiceStep
<1>1. StoreInv'
  BY NextStep DEF StoreStep
<1>2. CASE DispatchStep
  BY <1>1, <1>2, ObserversServe, DispatchServes, OthersServe, TakeStep, ClaimStep, SendStep
     DEF DispatchStep
<1>3. CASE \E j \in Jobs, d \in Details : ObserveNew(j, d)
  BY <1>3, AcceptStep
<1>4. CASE UNCHANGED vars
  BY <1>1, <1>4, OthersServe
<1>5. CASE \/ \E j \in Jobs : ObserveManual(j) \/ TimerElapses(j) \/ JobExpires(j)
           \/ \E m \in Messages, r \in Reports, d \in Details : FailureReschedules(m, r, d)
           \/ \E m \in Messages, r \in Reports : FailureEnds(m, r) \/ FailureIsLate(m, r)
           \/ MarkCompleted
           \/ \E S \in CancelScopes : Cancel(S)
           \/ \E c \in Circuits : ProbeTimeComes(c)
  BY <1>1, <1>5, ObserversServe
<1>6. CASE \/ \E m \in Messages : ScanFindsAnswer(m) \/ AgentReads(m) \/ TurnFails(m)
           \/ UpdateThrows \/ Crash
  BY <1>1, <1>6, OthersServe
<1> QED
  BY <1>2, <1>3, <1>4, <1>5, <1>6 DEF Next

LEMMA OrderInit == Init => OrderInv /\ BatchInv
<1> SUFFICES ASSUME Init PROVE OrderInv /\ BatchInv
  OBVIOUS
<1>1. /\ \A j \in Jobs : jobs[j].status = "none"
      /\ \A m \in Messages : inbox[m] = <<>>
      /\ failed = {} /\ pc = "idle" /\ batch = {}
  BY AbsentRecord DEF Init
<1>2. \A j \in Jobs : Within(j, 0) /\ inbox[<<j, 1>>] = <<>>
  <2>1. 1 \in Numbers /\ \A n \in Numbers : n \in Nat /\ ~(n <= 0)
    BY Counting DEF Numbers
  <2> QED
    BY <1>1, <2>1 DEF Within, Messages
<1> QED
  BY <1>1, <1>2 DEF OrderInv, BatchInv, Taken, Active, Waiting, InFlight

\* The messages of a job go out one attempt after another, each to a job that was open
\* when a run claimed it, one job of a circuit at a time; an answer stays, and after it
\* at most the message a run was about to write goes out (claimTeam, dispatchJob).
THEOREM ServesRecovery == Spec => ImplementsService
<1>1. Init => Service!Init
  <2> SUFFICES ASSUME Init PROVE Service!Init
    OBVIOUS
  <2>1. /\ \A j \in Jobs : jobs[j].status = "none"
        /\ \A m \in Messages : inbox[m] = <<>> /\ pc = "idle" /\ batch = {}
    BY AbsentRecord DEF Init
  <2>2. \A j \in Jobs : StateOf(j) = "none" /\ SentFor(j) = {}
    BY <2>1 DEF StateOf, SentFor, Messages, Waiting, InFlight
  <2>3. Held = {}
    BY DEF Init, Held
  <2> QED
    BY <2>2, <2>3 DEF Service!Init
<1>2. IInv /\ OrderInv /\ BatchInv /\ [Next]_vars =>
         OrderInv' /\ BatchInv' /\ [Service!Next]_Seen
  BY EveryStepServes DEF ServiceStep
<1>3. Init => OrderInv /\ BatchInv
  BY OrderInit
<1> QED
  BY <1>1, <1>2, <1>3, Inductive, PTL DEF Spec, ImplementsService, Service!Spec, Seen, States, Sents
=============================================================================
