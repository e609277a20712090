--------------------------- MODULE RuntimeRecovery ---------------------------
(***************************************************************************)
(* Automatic recovery of agents whose turn failed                          *)
(* (src/features/team-runtime-recovery).  A failure signal becomes a job;  *)
(* a single-flight dispatcher claims due jobs, one probe per provider      *)
(* circuit, checks the target, writes a nudge into the agent's inbox and   *)
(* records the delivery; the outcome arrives as proof, as a further        *)
(* failure signal, or not at all.  Observers, cancellations and the        *)
(* dispatcher interleave between the awaits; every change of the stored    *)
(* state is one locked file update (JsonTeamRuntimeRecoveryRepository,     *)
(* under the lock of module FileLock), hence one step here.                *)
(*                                                                         *)
(* Time is two flags per job, raised by the environment: "elapsed" is the  *)
(* timer its status waits for (nextAttemptAt of a waiting job, the stale   *)
(* limit of a claim, the outcome deadline of a delivery), "expired" is     *)
(* expiresAt.  A job is named by the signal that created it.  A signal's   *)
(* detail stands for its text, its hash and the reason derived from it.    *)
(* History limits (500 jobs, 1000 signals, 10 claims a sweep) are beyond   *)
(* the instances.                                                          *)
(***************************************************************************)
EXTENDS Naturals, Sequences

CONSTANTS
    Jobs,           \* root failure signals, one possible job each
    Circuits,       \* run + provider backend + model
    CircuitOf,      \* [Jobs -> Circuits]
    SessionOf,      \* [Jobs -> a member and its runtime session]
    NativeMembers,  \* jobs whose agent reads its inbox file itself; the
                    \* others are reached through a live relay
    Details,        \* failure texts
    Reports,        \* independent reports of one failure (mailbox, outcome)
    Tokens,         \* identities of claims (claimedBy and claimedAt)
    MaxAttempts,    \* the setting maxAttempts
    MaxFaults,      \* bound on restarts and on state updates that throw
    NoJob, NoToken, NoDetail, NoMessage

ASSUME RecoveryAssumption ==
    /\ CircuitOf \in [Jobs -> Circuits]
    /\ NativeMembers \subseteq Jobs
    /\ MaxAttempts \in Nat \ {0}
    /\ MaxFaults \in Nat
    /\ NoJob \notin Jobs
    /\ NoToken \notin Tokens
    /\ NoDetail \notin Details
    /\ NoMessage \notin Jobs \X (1 .. MaxAttempts + 1)
    \* more claim identities than jobs that can hold one
    /\ \A held \in [Jobs -> Tokens \cup {NoToken}] :
          \E t \in Tokens : \A j \in Jobs : held[j] # t

VARIABLES
    jobs,       \* stored jobs, by root signal
    circuits,   \* stored circuits
    processed,  \* stored ids of the signals already observed
    inbox,      \* entries of the agents' inboxes, by message id
    read,       \* messages the agent has read or responded to
    failed,     \* messages whose turn ended in a terminal failure
    pc,         \* where the dispatcher's run stands
    token,      \* the claim identity of the running sweep
    batch,      \* snapshots of the claimed jobs still to be dispatched
    cur,        \* the snapshot being dispatched
    seenRead,   \* "existing?.read" of the inbox lookup
    verdict,    \* message the inbox scan has found answered
    faults

store == <<jobs, circuits, processed>>
agents == <<inbox, read, failed>>
run == <<pc, token, batch, cur, seenRead>>
vars == <<jobs, circuits, processed, inbox, read, failed, pc, token, batch,
          cur, seenRead, verdict, faults>>

Waiting == {"pending", "failed_retryable"}
InFlight == {"claimed", "awaiting_outcome"}
Active == Waiting \cup InFlight
Settled == {"completed", "superseded", "failed_terminal", "outcome_unknown",
            "cancelled"}

Numbers == 1 .. MaxAttempts + 1
Messages == Jobs \X Numbers
RootSignals == Jobs \X {0}
FailureSignals == Messages \X Reports
Snapshots == [job : Jobs, attempt : 0 .. MaxAttempts, detail : Details]

(* buildRuntimeRecoveryMessageId: the message a job's next delivery uses.   *)
NextNumber(j) == jobs[j].attempt + 1

Siblings(c) == {j \in Jobs : CircuitOf[j] = c}
WaitingIn(c) == {j \in Siblings(c) : jobs[j].status \in Waiting}

AbsentJob == [status |-> "none", attempt |-> 0, msg |-> 0,
              detail |-> NoDetail, claim |-> NoToken,
              elapsed |-> FALSE, expired |-> FALSE]
AbsentCircuit == [status |-> "none", probe |-> NoJob, elapsed |-> FALSE]
Closed == [status |-> "closed", probe |-> NoJob, elapsed |-> FALSE]
Open(due) == [status |-> "open", probe |-> NoJob, elapsed |-> due]

(* A job that ends: only its status is read again.                          *)
Ended(status) == [AbsentJob EXCEPT !.status = status]

Init ==
    /\ jobs = [j \in Jobs |-> AbsentJob]
    /\ circuits = [c \in Circuits |-> AbsentCircuit]
    /\ processed = {}
    /\ inbox = [m \in Messages |-> <<>>]
    /\ read = {}
    /\ failed = {}
    /\ pc = "idle"
    /\ token = NoToken
    /\ batch = {}
    /\ cur = NoJob
    /\ seenRead = FALSE
    /\ verdict = NoMessage
    /\ faults = 0

-----------------------------------------------------------------------------
(* ObserveRuntimeFailure: signals that no recovery message caused.          *)

ActiveTwin(j, d) ==
    \E k \in Jobs : /\ jobs[k].status \in Active
                    /\ SessionOf[k] = SessionOf[j]
                    /\ jobs[k].detail = d

(* A failure whose classification or plan leaves it to the user.            *)
ObserveManual(j) ==
    /\ <<j, 0>> \notin processed
    /\ processed' = processed \cup {<<j, 0>>}
    /\ UNCHANGED <<jobs, circuits, agents, run, verdict, faults>>

(* A schedulable failure: folded into an active job of the same session and *)
(* text, or stored as a new pending job with its circuit.                   *)
ObserveNew(j, d) ==
    /\ <<j, 0>> \notin processed
    /\ processed' = processed \cup {<<j, 0>>}
    /\ IF ActiveTwin(j, d)
         THEN UNCHANGED <<jobs, circuits>>
         ELSE /\ jobs' = [jobs EXCEPT ![j] = [AbsentJob EXCEPT
                                !.status = "pending", !.detail = d]]
              /\ circuits' = [circuits EXCEPT ![CircuitOf[j]] =
                                IF @.status = "none" THEN Open(FALSE) ELSE @]
    /\ UNCHANGED <<agents, run, verdict, faults>>

-----------------------------------------------------------------------------
(* ObserveRuntimeFailure: signals caused by a recovery message m.           *)

(* findActiveCausedJob: the job of m while m is its latest or next message. *)
Caused(m) ==
    /\ jobs[m[1]].status \in InFlight
    /\ m[2] \in {jobs[m[1]].msg, NextNumber(m[1])}

(* Math.max(causedJob.attempt, 1).                                          *)
CountedAttempts(j) == IF jobs[j].attempt = 0 THEN 1 ELSE jobs[j].attempt

Report(m, r) ==
    /\ m \in failed
    /\ <<m, r>> \notin processed
    /\ processed' = processed \cup {<<m, r>>}
    /\ UNCHANGED <<agents, run, verdict, faults>>

\* Mutant: the attempts are compared off by one.
FailureReschedules_OneMore(m, r, d) ==
    LET j == m[1] IN
    /\ Report(m, r)
    /\ Caused(m)
    /\ CountedAttempts(j) <= MaxAttempts
    /\ jobs' = [jobs EXCEPT ![j] = [AbsentJob EXCEPT
                  !.status = "pending", !.detail = d,
                  !.attempt = CountedAttempts(j)]]
    /\ circuits' = [circuits EXCEPT ![CircuitOf[j]] = Open(FALSE)]

(* The caused job gets its next attempt; its circuit opens and waits.       *)
FailureReschedules(m, r, d) ==
    LET j == m[1] IN
    /\ Report(m, r)
    /\ Caused(m)
    /\ CountedAttempts(j) < MaxAttempts
    /\ jobs' = [jobs EXCEPT ![j] = [AbsentJob EXCEPT
                  !.status = "pending", !.detail = d,
                  !.attempt = CountedAttempts(j)]]
    /\ circuits' = [circuits EXCEPT ![CircuitOf[j]] = Open(FALSE)]

(* No further attempt (exhausted, not retryable, too late): the job fails   *)
(* and takes the waiting jobs of its circuit with it.                       *)
FailureEnds(m, r) ==
    LET j == m[1] IN
    /\ Report(m, r)
    /\ Caused(m)
    /\ jobs' = [k \in Jobs |->
         CASE k = j -> Ended("failed_terminal")
           [] k \in WaitingIn(CircuitOf[j]) -> Ended("superseded")
           [] OTHER -> jobs[k]]
    /\ circuits' = [circuits EXCEPT ![CircuitOf[j]] = Closed]

(* A late report: its message is no longer the latest or next of the job.   *)
FailureIsLate(m, r) ==
    /\ Report(m, r)
    /\ ~Caused(m)
    /\ UNCHANGED <<jobs, circuits>>

-----------------------------------------------------------------------------
(* ObserveRecoveryOutcome and CancelRuntimeRecoveries.                      *)

Postponed(job) == [job EXCEPT !.elapsed = FALSE]

(* reconcileOutcomes: the scan of an awaited message finds it answered and  *)
(* no failure of it in the lead's inbox.                                    *)
ScanFindsAnswer(m) ==
    /\ verdict = NoMessage
    /\ jobs[m[1]].status = "awaiting_outcome"
    /\ jobs[m[1]].msg = m[2]
    /\ m \in read \ failed
    /\ verdict' = m
    /\ UNCHANGED <<store, agents, run, faults>>

(* markCompleted, after the awaits of the scan.                             *)
MarkCompleted ==
    LET j == verdict[1]  c == CircuitOf[j] IN
    /\ verdict # NoMessage
    /\ verdict' = NoMessage
    /\ IF jobs[j].status = "awaiting_outcome" /\ jobs[j].msg = verdict[2]
         THEN /\ jobs' = [k \in Jobs |->
                   CASE k = j -> Ended("completed")
                     [] k \in WaitingIn(c) -> Postponed(jobs[k])
                     [] OTHER -> jobs[k]]
              /\ circuits' = [circuits EXCEPT ![c] = Closed]
         ELSE UNCHANGED <<jobs, circuits>>
    /\ UNCHANGED <<processed, agents, run, faults>>

(* What one cancellation covers: a stopped team, a disabled kind of         *)
(* failure, or the one job whose target is gone (CancelStaleRecoveries).    *)
CancelScopes ==
    {Jobs} \cup {{j} : j \in Jobs}
           \cup {{j \in Jobs : jobs[j].detail = d} : d \in Details}

(* reconcileCircuitAfterCancellation.                                       *)
AfterCancel(c, waiting, live) ==
    IF circuits[c].probe \in live THEN circuits[c]
    ELSE IF waiting = {} THEN Closed
    ELSE Open(\E j \in waiting : jobs[j].elapsed)

Cancel(S) ==
    LET gone == {j \in S : jobs[j].status \in Active} IN
    /\ gone # {}
    /\ jobs' = [j \in Jobs |-> IF j \in gone THEN Ended("cancelled")
                                             ELSE jobs[j]]
    /\ circuits' = [c \in Circuits |->
         IF \E j \in gone : CircuitOf[j] = c
           THEN AfterCancel(c, WaitingIn(c) \ gone,
                    {j \in Jobs \ gone : jobs[j].status \in InFlight})
           ELSE circuits[c]]
    /\ UNCHANGED <<processed, agents, run, verdict, faults>>

-----------------------------------------------------------------------------
(* DispatchDueRecoveries and its scheduler: one run at a time.              *)

(* expireUnknownOutcomes, the first update of a run.                        *)
StartRun ==
    LET unknown == {j \in Jobs : /\ jobs[j].status = "awaiting_outcome"
                                 /\ jobs[j].elapsed}
        hit == {CircuitOf[j] : j \in unknown}
    IN
    /\ pc = "idle"
    /\ pc' = "claim"
    /\ jobs' = [j \in Jobs |->
         CASE j \in unknown -> Ended("outcome_unknown")
           [] jobs[j].status \in Waiting /\ CircuitOf[j] \in hit ->
                Ended("superseded")
           [] OTHER -> jobs[j]]
    /\ circuits' = [c \in Circuits |-> IF c \in hit THEN Closed ELSE circuits[c]]
    /\ UNCHANGED <<processed, agents, token, batch, cur, seenRead, verdict, faults>>

\* Mutant: a claim is never taken for stale.
StaleClaim_Never(j) == FALSE

StaleClaim(j) == jobs[j].status = "claimed" /\ jobs[j].elapsed

(* What a sweep drops: waiting jobs and stale claims past their expiry.     *)
Overdue(j) ==
    /\ jobs[j].expired
    /\ jobs[j].status \in Waiting \/ StaleClaim(j)

(* A stale claim in time is due at once.                                    *)
Due(j) ==
    /\ ~jobs[j].expired
    /\ StaleClaim(j) \/ (jobs[j].status \in Waiting /\ jobs[j].elapsed)

(* The circuit after the sweep has dropped its overdue jobs.                *)
Swept(c) ==
    IF /\ \E j \in Siblings(c) : Overdue(j)
       /\ circuits[c].probe = NoJob \/ Overdue(circuits[c].probe)
      THEN Closed
      ELSE circuits[c]

\* Mutant: only an open circuit holds probes back.
Admits_HalfOpen(c) == ~(Swept(c).status = "open" /\ ~Swept(c).elapsed)

Admits(c) ==
    /\ Swept(c).probe = NoJob
    /\ ~(Swept(c).status = "open" /\ ~Swept(c).elapsed)

(* One due job of every circuit that admits a probe.                        *)
Selections ==
    LET ready == {c \in Circuits : Admits(c) /\ \E j \in Siblings(c) : Due(j)}
    IN  {S \in SUBSET {j \in Jobs : Due(j)} :
           /\ \A j \in S : CircuitOf[j] \in ready
           /\ \A c \in ready : \E j \in S : S \cap Siblings(c) = {j}}

(* claimedBy and claimedAt of a new claim differ from those of any other.   *)
FreshToken == CHOOSE t \in Tokens : \A j \in Jobs : jobs[j].claim # t

(* claimTeam: drop the overdue, recover stale claims, claim the selection.  *)
Claim(S) ==
    /\ pc = "claim"
    /\ jobs' = [j \in Jobs |->
         CASE Overdue(j) -> Ended("superseded")
           [] j \in S -> [jobs[j] EXCEPT !.status = "claimed", !.claim = FreshToken,
                                         !.elapsed = FALSE]
           [] StaleClaim(j) /\ ~Overdue(j) /\ j \notin S ->
                [jobs[j] EXCEPT !.status = "failed_retryable",
                                !.claim = NoToken, !.elapsed = TRUE]
           [] OTHER -> jobs[j]]
    /\ circuits' = [c \in Circuits |->
         IF S \cap Siblings(c) = {}
           THEN Swept(c)
           ELSE [status |-> "half_open", elapsed |-> FALSE,
                 probe |-> CHOOSE j \in S : CircuitOf[j] = c]]
    /\ token' = FreshToken
    /\ batch' = {[job |-> j, attempt |-> jobs[j].attempt,
                  detail |-> jobs[j].detail] : j \in S}
    /\ pc' = "next"
    /\ UNCHANGED <<processed, agents, cur, seenRead, verdict, faults>>

\* Mutant: the result of a delivery is stored whatever the job has become.
Owned_Unchecked == TRUE

(* The claim the snapshot was taken under is still the stored one.          *)
Owned == /\ jobs[cur.job].status = "claimed"
         /\ jobs[cur.job].claim = token

Message == <<cur.job, cur.attempt + 1>>

(* One guarded update of the job being dispatched and of its circuit.       *)
Settle(job, circuit) ==
    /\ IF Owned
         THEN /\ jobs' = [jobs EXCEPT ![cur.job] = job]
              /\ circuits' = [circuits EXCEPT ![CircuitOf[cur.job]] = circuit]
         ELSE UNCHANGED <<jobs, circuits>>
    /\ pc' = "next"
    /\ cur' = NoJob
    /\ seenRead' = FALSE
    /\ UNCHANGED <<processed, token, batch, verdict, faults>>

(* finishTerminal.                                                          *)
FinishTerminal(status) == Settle(Ended(status), Closed)

(* defer: back to waiting, with the circuit open until the next attempt.    *)
Defer ==
    Settle([jobs[cur.job] EXCEPT !.status = "failed_retryable",
                                 !.claim = NoToken, !.elapsed = FALSE],
           Open(FALSE))

(* The next claimed job, unless its expiry has passed since.                *)
TakeJob(s) ==
    /\ pc = "next"
    /\ s \in batch
    /\ jobs[s.job].claim = token => ~jobs[s.job].expired
    /\ pc' = "deliver"
    /\ cur' = s
    /\ batch' = batch \ {s}
    /\ UNCHANGED <<store, agents, token, seenRead, verdict, faults>>

TakeExpiredJob(s) ==
    /\ pc = "next"
    /\ s \in batch
    /\ jobs[s.job].claim = token => jobs[s.job].expired
    /\ IF jobs[s.job].status = "claimed" /\ jobs[s.job].claim = token
         THEN /\ jobs' = [jobs EXCEPT ![s.job] = Ended("superseded")]
              /\ circuits' = [circuits EXCEPT ![CircuitOf[s.job]] = Closed]
         ELSE UNCHANGED <<jobs, circuits>>
    /\ batch' = batch \ {s}
    /\ UNCHANGED <<processed, agents, pc, token, cur, seenRead, verdict, faults>>

EndRun ==
    /\ pc = "next"
    /\ batch = {}
    /\ pc' = "idle"
    /\ token' = NoToken
    /\ UNCHANGED <<store, agents, batch, cur, seenRead, verdict, faults>>

(* RuntimeRecoveryTargetAdapter.preflight says later (as does an inbox that *)
(* cannot be read), or never.                                               *)
NotNow == pc = "deliver" /\ Defer /\ UNCHANGED agents
NotAnyMore ==
    pc = "deliver" /\ FinishTerminal("superseded") /\ UNCHANGED agents

(* It passes, and TeamInboxRuntimeRecoveryDeliveryAdapter.deliver looks the *)
(* message up, writes it if it is not there, then relays it.                *)
InboxConflict ==
    /\ pc = "deliver"
    /\ inbox[Message] # <<>>
    /\ Head(inbox[Message]) # cur.detail
    /\ FinishTerminal("failed_terminal")
    /\ UNCHANGED agents

\* Mutant: a message of the same id is taken for the one to send.
FindMessage_AnyText ==
    /\ pc = "deliver"
    /\ inbox[Message] # <<>>
    /\ seenRead' = (Message \in read)
    /\ pc' = "relay"
    /\ UNCHANGED <<store, agents, token, batch, cur, verdict, faults>>

FindMessage ==
    /\ pc = "deliver"
    /\ inbox[Message] # <<>>
    /\ Head(inbox[Message]) = cur.detail
    /\ seenRead' = (Message \in read)
    /\ pc' = "relay"
    /\ UNCHANGED <<store, agents, token, batch, cur, verdict, faults>>

\* Mutant: the message is written without looking for it.
WriteMessage_Again ==
    /\ pc = "deliver"
    /\ inbox' = [inbox EXCEPT ![Message] = Append(@, cur.detail)]
    /\ pc' = "relay"
    /\ UNCHANGED <<store, read, failed, token, batch, cur, seenRead, verdict, faults>>

WriteMessage ==
    /\ pc = "deliver"
    /\ inbox[Message] = <<>>
    /\ inbox' = [inbox EXCEPT ![Message] = Append(@, cur.detail)]
    /\ pc' = "relay"
    /\ UNCHANGED <<store, read, failed, token, batch, cur, seenRead, verdict, faults>>

(* Not confirmed, or an error anywhere in the relay.                        *)
RelayUnconfirmed == pc = "relay" /\ Defer /\ UNCHANGED agents
RelayIgnored ==
    pc = "relay" /\ FinishTerminal("failed_terminal") /\ UNCHANGED agents

(* A delivery that went through.  Of the relay kinds, native_member_noop    *)
(* accepts only a message it found read and never proves a response.        *)
Delivered(accepted, proven) ==
    /\ pc = "relay"
    /\ seenRead \/ proven => accepted
    /\ cur.job \in NativeMembers => ~proven /\ (accepted <=> seenRead)
    /\ IF proven
         THEN FinishTerminal("completed")
         ELSE Settle([AbsentJob EXCEPT
                         !.status = "awaiting_outcome", !.detail = cur.detail,
                         !.attempt = cur.attempt + (IF accepted THEN 1 ELSE 0),
                         !.msg = Message[2]],
                     circuits[CircuitOf[cur.job]])
    /\ UNCHANGED agents

(* A locked update throws, its rename not done.  dispatchJob's is logged by  *)
(* execute, which goes on with the next job and leaves this one claimed;    *)
(* claimTeam's ends the run; markCompleted's ends the scan.  Where an       *)
(* observer's, a cancellation's or a run's first update throws nothing has  *)
(* changed; an expired job's leaves what a throw at "deliver" does.         *)
UpdateThrows ==
    /\ faults < MaxFaults
    /\ faults' = faults + 1
    /\ \/ /\ \/ pc \in {"deliver", "relay"} /\ pc' = "next"
             \/ pc = "claim" /\ pc' = "idle"
          /\ cur' = NoJob
          /\ seenRead' = FALSE
          /\ UNCHANGED verdict
       \/ /\ verdict # NoMessage
          /\ verdict' = NoMessage
          /\ UNCHANGED <<pc, cur, seenRead>>
    /\ UNCHANGED <<store, agents, token, batch>>

DispatchStep ==
    \/ StartRun
    \/ \E S \in Selections : Claim(S)
    \/ \E s \in batch : TakeJob(s) \/ TakeExpiredJob(s)
    \/ EndRun
    \/ NotNow \/ NotAnyMore
    \/ InboxConflict \/ FindMessage \/ WriteMessage
    \/ RelayUnconfirmed \/ RelayIgnored
    \/ \E accepted, proven \in BOOLEAN : Delivered(accepted, proven)

(* The application stops and starts again: the run and the scan are gone,   *)
(* the stored state stays.                                                  *)
Crash ==
    /\ faults < MaxFaults
    /\ faults' = faults + 1
    /\ pc' = "idle"
    /\ token' = NoToken
    /\ batch' = {}
    /\ cur' = NoJob
    /\ seenRead' = FALSE
    /\ verdict' = NoMessage
    /\ UNCHANGED <<store, agents>>

-----------------------------------------------------------------------------
(* Agents and time.                                                         *)

AgentReads(m) ==
    /\ inbox[m] # <<>>
    /\ m \notin read
    /\ read' = read \cup {m}
    /\ UNCHANGED <<store, inbox, failed, run, verdict, faults>>

TurnFails(m) ==
    /\ inbox[m] # <<>>
    /\ m \notin failed
    /\ failed' = failed \cup {m}
    /\ UNCHANGED <<store, inbox, read, run, verdict, faults>>

(* The stale limit of a claim is read only by later runs.                   *)
TimerElapses(j) ==
    /\ jobs[j].status \in Active
    /\ jobs[j].status = "claimed" => jobs[j].claim # token
    /\ ~jobs[j].elapsed
    /\ jobs' = [jobs EXCEPT ![j].elapsed = TRUE]
    /\ UNCHANGED <<circuits, processed, agents, run, verdict, faults>>

(* The expiry of a job that awaits its outcome is not read.                 *)
JobExpires(j) ==
    /\ jobs[j].status \in Waiting \cup {"claimed"}
    /\ ~jobs[j].expired
    /\ jobs' = [jobs EXCEPT ![j].expired = TRUE]
    /\ UNCHANGED <<circuits, processed, agents, run, verdict, faults>>

ProbeTimeComes(c) ==
    /\ circuits[c].status = "open"
    /\ ~circuits[c].elapsed
    /\ circuits' = [circuits EXCEPT ![c].elapsed = TRUE]
    /\ UNCHANGED <<jobs, processed, agents, run, verdict, faults>>

Next ==
    \/ \E j \in Jobs : ObserveManual(j)
    \/ \E j \in Jobs, d \in Details : ObserveNew(j, d)
    \/ \E m \in Messages, r \in Reports, d \in Details :
          FailureReschedules(m, r, d)
    \/ \E m \in Messages, r \in Reports : FailureEnds(m, r) \/ FailureIsLate(m, r)
    \/ \E m \in Messages : ScanFindsAnswer(m)
    \/ MarkCompleted
    \/ \E S \in CancelScopes : Cancel(S)
    \/ DispatchStep
    \/ UpdateThrows
    \/ Crash
    \/ \E m \in Messages : AgentReads(m) \/ TurnFails(m)
    \/ \E j \in Jobs : TimerElapses(j) \/ JobExpires(j)
    \/ \E c \in Circuits : ProbeTimeComes(c)

Spec == Init /\ [][Next]_vars

(* The scheduler rearms itself after every run and on failure; clocks       *)
(* advance.  Nothing is assumed of signals, agents or cancellations.        *)
FairSpec ==
    /\ Spec
    /\ WF_vars(DispatchStep)
    /\ \A j \in Jobs : WF_vars(TimerElapses(j)) /\ WF_vars(JobExpires(j))
    /\ \A c \in Circuits : WF_vars(ProbeTimeComes(c))

-----------------------------------------------------------------------------
JobRecords ==
    [status : {"none"} \cup Active \cup Settled, attempt : 0 .. MaxAttempts,
     msg : 0 .. MaxAttempts + 1, detail : Details \cup {NoDetail},
     claim : Tokens \cup {NoToken}, elapsed : BOOLEAN, expired : BOOLEAN]

CircuitRecords ==
    [status : {"none", "open", "half_open", "closed"},
     probe : Jobs \cup {NoJob}, elapsed : BOOLEAN]

(* The values the stored state and the dispatcher's variables take.         *)
TypeOK ==
    /\ jobs \in [Jobs -> JobRecords]
    /\ circuits \in [Circuits -> CircuitRecords]
    /\ processed \subseteq RootSignals \cup FailureSignals
    /\ inbox \in [Messages -> Seq(Details)]
    /\ read \subseteq Messages
    /\ failed \subseteq Messages
    /\ pc \in {"idle", "claim", "next", "deliver", "relay"}
    /\ token \in Tokens \cup {NoToken}
    /\ batch \subseteq Snapshots
    /\ cur \in Snapshots \cup {NoJob}
    /\ seenRead \in BOOLEAN
    /\ verdict \in Messages \cup {NoMessage}
    /\ faults \in 0 .. MaxFaults

(* A provider that is failing sees one recovery turn at a time: of the jobs *)
(* of a circuit at most one is claimed or awaits its outcome, whatever is   *)
(* observed, cancelled, expired or restarted meanwhile (the probe logic of  *)
(* claimTeam and every release of a circuit).                               *)
OneProbePerCircuit ==
    \A j, k \in Jobs :
        /\ jobs[j].status \in InFlight
        /\ jobs[k].status \in InFlight
        /\ CircuitOf[j] = CircuitOf[k]
        => j = k

(* A job awaits the outcome of a message that is in the agent's inbox with  *)
(* the text of the job's latest failure (deliver's lookup and conflict      *)
(* check against the snapshot that dispatchJob persists).                   *)
AwaitedWasSent ==
    \A j \in Jobs :
        jobs[j].status = "awaiting_outcome" =>
            inbox[<<j, jobs[j].msg>>] = <<jobs[j].detail>>

(* No message number beyond the configured attempts is ever written, and no *)
(* message twice, however often deliveries are repeated after deferrals,    *)
(* restarts and thrown updates.                                             *)
MessagesBounded ==
    \A j \in Jobs, n \in Numbers :
        Len(inbox[<<j, n>>]) <= (IF n <= MaxAttempts THEN 1 ELSE 0)

(* A job that was completed, superseded, cancelled or given up keeps that   *)
(* answer: no late delivery, failure report or scan changes it (the claim   *)
(* guard of every update in dispatchJob, findActiveCausedJob).              *)
SettledStays ==
    [][\A j \in Jobs : jobs[j].status \in Settled =>
          jobs'[j].status = jobs[j].status]_vars

(* Every scheduled recovery comes to an answer: delivered and judged,       *)
(* superseded, failed or cancelled (the expiry, stale-claim and outcome     *)
(* deadlines of the sweeps), also after crashes and thrown updates.         *)
JobsSettle ==
    \A j \in Jobs : jobs[j].status = "pending" ~> jobs[j].status \in Settled

-----------------------------------------------------------------------------
(* The service the agents and the user may rely on.                         *)

(* What a job waits for is its own business; a run holds the jobs it has    *)
(* claimed until their message is in the inbox or they are let go.          *)
StateOf(j) ==
    IF jobs[j].status \in Waiting THEN "waiting"
    ELSE IF jobs[j].status \in InFlight THEN "in_flight"
    ELSE jobs[j].status
SentFor(j) == {n \in Numbers : inbox[<<j, n>>] # <<>>}
Held == {s.job : s \in batch} \cup (IF pc = "deliver" THEN {cur.job} ELSE {})

Service == INSTANCE RecoveryService
    WITH state <- [j \in Jobs |-> StateOf(j)], sent <- [j \in Jobs |-> SentFor(j)],
         held <- Held

(* The messages of a job go out one attempt after another, to jobs that     *)
(* were open when a run claimed them; once a job is settled and no run      *)
(* holds it nothing is sent for it again (claimTeam, dispatchJob).          *)
ImplementsService == Service!Spec

(* DispatchDueRecoveries.test.ts, "recovers a stale claim after process     *)
(* restart": a job that waits to be retried is not shut out by its own      *)
(* probe slot.                                                              *)
RetryNotShutOut ==
    \A j \in Jobs : jobs[j].status \in Waiting => circuits[CircuitOf[j]].probe # j

(* ObserveRuntimeFailure.test.ts, "turns a correlated terminal recovery     *)
(* failure into the next bounded attempt": the attempt scheduled after a    *)
(* failed recovery turn is a new one, its message not sent before.          *)
RetryIsNextAttempt ==
    [][\A j \in Jobs :
          jobs[j].status \in InFlight /\ jobs'[j].status = "pending" =>
              inbox[<<j, jobs'[j].attempt + 1>>] = <<>>]_vars
=============================================================================
