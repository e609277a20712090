-------------------------- MODULE RuntimeDelivery --------------------------
(***************************************************************************)
(* Delivery of the messages of an OpenCode runtime to their readers:       *)
(* src/main/services/team/opencode/delivery.                               *)
(*                                                                         *)
(* A runtime calls deliver with an idempotency key and may call again, from *)
(* the same session, from a later one, from a later run.  The journal of    *)
(* the lane remembers what each key became; the destination, an inbox or    *)
(* the file of sent messages, is a second store, written outside the        *)
(* journal's lock.  Every commit is therefore preceded and followed by a    *)
(* read of the destination, and undone when the second one misses.         *)
(*                                                                         *)
(* Left out: cross-team destinations, the canonical form of names and the   *)
(* records from before it, and the pruning of old records.                 *)
(***************************************************************************)
EXTENDS Naturals, FiniteSets

CONSTANTS Keys,         \* idempotency keys
          Calls,        \* calls of deliver
          KeyOf,        \* the key of each call
          Payloads,     \* what is sent and to whom
          Inbox,        \* the payloads that go to the inbox; the others to the user
          Runs,         \* run ids
          Sessions,     \* runtime sessions, in the order they check in: 1..n
          RunOf,        \* the run of each session
          Sweeper,      \* the reconciler, an actor beside the calls
          None,
          MaxMisreads,  \* bound on reads that miss a message that is there
          MaxTrims,     \* bound on messages pushed out of the sent file
          MaxCrashes    \* bound on restarts of the program

ASSUME DeliveryAssumption ==
    /\ KeyOf \in [Calls -> Keys]
    /\ Inbox \subseteq Payloads
    /\ Sessions \subseteq Nat /\ 1 \in Sessions
    /\ \A s \in Sessions : 1..s \subseteq Sessions
    /\ RunOf \in [Sessions -> Runs]
    /\ Sweeper \notin Calls
    /\ {MaxMisreads, MaxTrims, MaxCrashes} \subseteq Nat

VARIABLES session,   \* the latest session
          running,   \* the team has not been stopped since
          journal,   \* per key and run, a record or None
          receipts,  \* per key, the receipt of its commit, or None
          rows,      \* per message, how many rows of it the destination has
          call,      \* per call, where it stands
          sweep,     \* where the reconciler stands
          undo,      \* per actor, what its unconfirmed commit replaced, or None
          \* Ghosts, read by the properties only
          ack,       \* per call, the message it was told is delivered, or None
          made,      \* the messages that ever had a row
          blind,     \* keys a row of which was there and was not seen
          raced,     \* keys two commits of which overlapped
          misreads, trims, crashes

stores == <<journal, receipts, rows>>
vars == <<session, running, stores, call, sweep, undo,
          ack, made, blind, raced, misreads, trims, crashes>>

Ids == Keys \X Runs               \* buildRuntimeDestinationMessageId
Messages == Payloads \X Ids
Actors == Calls \union {Sweeper}

Statuses == {"pending", "failed_retryable", "failed_terminal", "committed"}
Proof == [at : Ids, by : Actors]  \* committedLocation, and the commit it is of
Record == [status : Statuses, payload : Payloads, id : Ids, proof : Proof \union {None}]
Receipt == [payload : Payloads, proof : Proof]

\* The await a call is at.  "checked": not stale so far.  "begun": the journal has
\* answered.  "looking": for the message of an earlier attempt.  "unseen": waits
\* for the team's lock.  "armed": about to write, under that lock.  "written":
\* about to read it back.  "committing", "confirming": before and after the commit.
Phases == {"idle", "queued", "checked", "begun", "looking", "unseen", "armed",
           "written", "committing", "confirming", "failing", "over"}

\* What begin answered, and, in "failing", the error that is being handled.
Verdicts == {"none", "go", "duplicate", "conflict", "taken", "unverified", "error"}

\* Where a call stands: with "wrote" it is the write that is to be committed.
Call == [phase : Phases, session : Sessions, payload : Payloads, verdict : Verdicts,
         ids : SUBSET Ids, id : Ids \union {None}, wrote : BOOLEAN]
Sweep == [phase : {"looking", "committing", "confirming"},
          key : Keys, run : Runs, payload : Payloads, id : Ids]
Undo == [records : [Runs -> Record \union {None}], became : [Runs -> Record \union {None}],
         receipt : Receipt \union {None}, receiptBecame : Receipt]

ASSUME NoneAssumption == None \notin Record \union Receipt \union Ids \union Messages \union Sweep \union Undo

TypeOK ==
    /\ session \in Sessions
    /\ running \in BOOLEAN
    /\ journal \in [Keys -> [Runs -> Record \union {None}]]
    /\ receipts \in [Keys -> Receipt \union {None}]
    /\ rows \in [Messages -> Nat]
    /\ call \in [Calls -> Call]
    /\ sweep \in Sweep \union {None}
    /\ undo \in [Actors -> Undo \union {None}]
    /\ ack \in [Calls -> Ids \union {None}]
    /\ made \subseteq Messages
    /\ blind \subseteq Keys
    /\ raced \subseteq Keys
    /\ misreads \in 0..MaxMisreads
    /\ trims \in 0..MaxTrims
    /\ crashes \in 0..MaxCrashes

Idle(p) == [phase |-> "idle", session |-> 1, payload |-> p, verdict |-> "none",
            ids |-> {}, id |-> None, wrote |-> FALSE]

Init ==
    /\ session = 1
    /\ running = TRUE
    /\ journal = [k \in Keys |-> [r \in Runs |-> None]]
    /\ receipts = [k \in Keys |-> None]
    /\ rows = [m \in Messages |-> 0]
    /\ call \in [Calls -> {Idle(p) : p \in Payloads}]
    /\ sweep = None
    /\ undo = [a \in Actors |-> None]
    /\ ack = [c \in Calls |-> None]
    /\ made = {}
    /\ blind = {}
    /\ raced = {}
    /\ misreads = 0
    /\ trims = 0
    /\ crashes = 0

-----------------------------------------------------------------------------
(* Calls. *)

Run(c) == RunOf[call[c].session]

\* What rejectIfRuntimeIdentityIsStale rejects, and what it and rejectIfRunIsStale do.
Superseded(c) == call[c].session # session
Stale(c) == ~running \/ Superseded(c)

\* A call that has its key's turn, and one that holds the team's lock.
HasTurn(c) == call[c].phase \notin {"idle", "queued", "over"}
Leased(c) == \/ call[c].phase \in {"armed", "written", "failing"}
             \/ call[c].phase \in {"committing", "confirming"} /\ call[c].wrote

\* The call moves to a phase; it ends, refused or with an error, or it ends with
\* the word that its message is delivered, by it or before.
To(c, phase) == call' = [call EXCEPT ![c].phase = phase]
Over(c) == call' = [call EXCEPT ![c] = [Idle(call[c].payload) EXCEPT !.phase = "over"]]
Refuse(c) == Over(c) /\ UNCHANGED ack
Answer(c, id) == Over(c) /\ ack' = [ack EXCEPT ![c] = id]

\* markFailed on the record of the call's own run; a committed one stays.
MarkFailed(c, status) ==
    LET record == journal[KeyOf[c]][Run(c)] IN
    journal' = IF record = None \/ record.status = "committed" THEN journal
               ELSE [journal EXCEPT ![KeyOf[c]][Run(c)].status = status]

\* The record ends, and the sender is refused; without a record markFailed throws.
Rejected(c) ==
    /\ MarkFailed(c, "failed_terminal")
    /\ Refuse(c)

-----------------------------------------------------------------------------
(* The destination. *)

\* A read of it finds the id, whatever the text.
Visible(p, i) == \E q \in Payloads : (q \in Inbox <=> p \in Inbox) /\ rows[<<q, i>>] > 0

\* A read that sees the message; a read that sees none of the ids, because they
\* are not there or because the file could not be read in time.
Sees(p, i) == Visible(p, i) /\ UNCHANGED <<misreads, blind>>
Misses(k, p, ids) ==
    IF \E i \in ids : Visible(p, i)
    THEN /\ misreads < MaxMisreads
         /\ misreads' = misreads + 1
         /\ blind' = blind \union {k}
    ELSE UNCHANGED <<misreads, blind>>

-----------------------------------------------------------------------------
(* The journal. *)

\* The records of k in other runs than r that a call of r may take over.
Lineage(k, r) == {q \in Runs \ {r} : journal[k][q] # None /\ journal[k][q].status # "committed"}

\* (As a mutant: a new run makes a message of its own.)
NewId_Own(k, r) == {<<k, r>>}

\* (As a mutant: the id is made without the key.)
NewId_NoKey(k, r) == {r}

\* The id of a record begun in run r: that of the records it takes over.
NewId(k, r) == IF Lineage(k, r) = {} THEN {<<k, r>>} ELSE {journal[k][q].id : q \in Lineage(k, r)}

\* (As a mutant: the key alone decides.)
Conflicts_Never(k, p) == FALSE

\* The record of a call once it has begun: a new one, or the one that is there.
Begun(record, p, i) ==
    IF record = None
    THEN [status |-> "pending", payload |-> p, id |-> i, proof |-> None]
    ELSE [record EXCEPT !.status = IF @ = "failed_terminal" THEN @ ELSE "pending"]

\* The key was used for another payload: the receipt tells, without one the records.
Conflicts(k, p) ==
    IF receipts[k] # None THEN receipts[k].payload # p
    ELSE \E r \in Runs : journal[k][r] # None /\ journal[k][r].payload # p

\* Whether what the key was used for is committed: the first such record tells.
Takers(k, p) ==
    IF receipts[k] # None THEN {"taken"}
    ELSE {IF journal[k][r].status = "committed" THEN "taken" ELSE "conflict" :
             r \in {q \in Runs : journal[k][q] # None /\ journal[k][q].payload # p}}

\* The key's commit is known: where its message is.
CommittedAt(k, r) ==
    IF receipts[k] # None THEN {receipts[k].proof.at}
    ELSE IF journal[k][r] # None /\ journal[k][r].status = "committed"
         THEN {journal[k][r].proof.at}
         ELSE {}

\* The commits of k that are still to be confirmed.
Unconfirmed(k) == {a \in Calls : undo[a] # None /\ KeyOf[a] = k}
                  \union {a \in {Sweeper} : undo[a] # None /\ sweep.key = k}

\* The records of k once r is committed with this proof: so are those it took over.
Became(k, r, proof) ==
    [q \in Runs |-> IF q = r \/ q \in Lineage(k, r)
                    THEN [journal[k][q] EXCEPT !.status = "committed", !.proof = proof]
                    ELSE journal[k][q]]

\* Two commits of a key overlap, or a call relies on one that may be undone.
Race(k) == raced' = IF Unconfirmed(k) = {} THEN raced ELSE raced \union {k}

\* (As a mutant: the commit leaves no receipt.)
Commit_NoReceipt(a, k, r, i) ==
    LET became == Became(k, r, [at |-> i, by |-> a])
        receipt == [payload |-> journal[k][r].payload, proof |-> [at |-> i, by |-> a]]
    IN  /\ journal' = [journal EXCEPT ![k] = became]
        /\ undo' = [undo EXCEPT ![a] = [records |-> journal[k], became |-> became,
                                        receipt |-> None, receiptBecame |-> receipt]]
        /\ Race(k)
        /\ UNCHANGED receipts

\* markCommitted: the record and those it took over, and the key's receipt; of
\* two receipts the earlier is kept, and a call dates its own from its start.
Commit(a, k, r, i) ==
    LET became == Became(k, r, [at |-> i, by |-> a])
        receipt == [payload |-> journal[k][r].payload, proof |-> [at |-> i, by |-> a]]
    IN  \E kept \in {receipt} \union ({receipts[k]} \ {None}) :
          /\ journal' = [journal EXCEPT ![k] = became]
          /\ receipts' = [receipts EXCEPT ![k] = kept]
          /\ undo' = [undo EXCEPT ![a] = [records |-> journal[k], became |-> became,
                                          receipt |-> receipts[k], receiptBecame |-> kept]]
          /\ Race(k)

\* The commit's rollback: what it changed and nobody changed since is put back.
Rollback(a, k) ==
    /\ journal' = [journal EXCEPT ![k] = [q \in Runs |->
           IF journal[k][q] = undo[a].became[q] THEN undo[a].records[q] ELSE journal[k][q]]]
    /\ receipts' = [receipts EXCEPT ![k] =
           IF receipts[k] = undo[a].receiptBecame THEN undo[a].receipt ELSE receipts[k]]

-----------------------------------------------------------------------------
(* deliver. *)

\* A runtime calls, from the session it has.
Deliver(c) ==
    /\ call[c].phase = "idle"
    /\ \E s \in 1..session :
         call' = [call EXCEPT ![c].phase = "queued", ![c].session = s]
    /\ UNCHANGED <<session, running, stores, sweep, undo,
                   ack, made, blind, raced, misreads, trims, crashes>>

\* The key's earlier call has returned: the first look at the sender.
TakeTurn(c) ==
    /\ call[c].phase = "queued"
    /\ \A b \in Calls : KeyOf[b] = KeyOf[c] => ~HasTurn(b)
    /\ \/ Stale(c) /\ Refuse(c)
       \/ ~Stale(c) /\ To(c, "checked") /\ UNCHANGED ack
    /\ UNCHANGED <<session, running, stores, sweep, undo,
                   made, blind, raced, misreads, trims, crashes>>

Answered(c, verdict, ids, i) ==
    call' = [call EXCEPT ![c] = [@ EXCEPT !.phase = "begun", !.verdict = verdict,
                                          !.ids = ids, !.id = i]]

\* The journal answers: the key's message is committed, or the key is taken by
\* another payload, or the record of this run is there again or new.
Begin(c) ==
    LET k == KeyOf[c]
        r == Run(c)
        p == call[c].payload
    IN
    /\ call[c].phase = "checked"
    /\ \/ /\ Conflicts(k, p)
          /\ \E verdict \in Takers(k, p) : Answered(c, verdict, {}, None)
          /\ UNCHANGED <<journal, raced>>
       \/ /\ ~Conflicts(k, p)
          /\ \E i \in CommittedAt(k, r) : Answered(c, "duplicate", {}, i)
          /\ Race(k)
          /\ UNCHANGED journal
       \/ /\ ~Conflicts(k, p) /\ CommittedAt(k, r) = {}
          /\ \E i \in (IF journal[k][r] = None THEN NewId(k, r) ELSE {journal[k][r].id}) :
               /\ Answered(c, "go", {i} \union {journal[k][q].id : q \in Lineage(k, r)}, i)
               /\ journal' = [journal EXCEPT ![k][r] = Begun(journal[k][r], p, i)]
          /\ UNCHANGED raced
    /\ UNCHANGED <<session, running, receipts, rows, sweep, undo,
                   ack, made, blind, misreads, trims, crashes>>

\* The second look at the sender, then the answers that need no destination.  A
\* record that is not committed ends with a stale sender, also in a conflict.
Recheck(c) ==
    /\ call[c].phase = "begun"
    /\ \/ call[c].verdict \in {"go", "conflict"} /\ Stale(c) /\ Rejected(c)
       \/ /\ call[c].verdict \in {"duplicate", "taken"} /\ Stale(c)
          /\ Refuse(c)
          /\ UNCHANGED journal
       \/ /\ ~Stale(c)
          /\ UNCHANGED journal
          /\ \/ call[c].verdict \in {"conflict", "taken"} /\ Refuse(c)
             \/ call[c].verdict = "duplicate" /\ Answer(c, call[c].id)
             \/ call[c].verdict = "go" /\ To(c, "looking") /\ UNCHANGED ack
    /\ UNCHANGED <<session, running, receipts, rows, sweep, undo,
                   made, blind, raced, misreads, trims, crashes>>

\* (As a mutant: no look for an earlier attempt.)
Look_Skipped(c) ==
    /\ call[c].phase = "looking"
    /\ call' = [call EXCEPT ![c].phase = "unseen", ![c].ids = {}]
    /\ UNCHANGED <<session, running, stores, sweep, undo,
                   ack, made, blind, raced, misreads, trims, crashes>>

\* Is the message of an earlier attempt there?  Found: a third look at the
\* sender, which does not ask whether the team was stopped, and the read before
\* the commit.  Not found by either read: it is written.
Look(c) ==
    LET k == KeyOf[c]
        p == call[c].payload
    IN
    /\ call[c].phase = "looking"
    /\ \/ \E i \in call[c].ids :
            /\ Sees(p, i)
            /\ \/ Superseded(c) /\ Rejected(c)
               \/ /\ ~Superseded(c)
                  /\ call' = [call EXCEPT ![c].phase = "committing", ![c].id = i,
                                          ![c].ids = @ \ {i}]
                  /\ UNCHANGED <<journal, ack>>
       \/ /\ Misses(k, p, call[c].ids)
          /\ call' = [call EXCEPT ![c].phase = "unseen", ![c].ids = {}]
          /\ UNCHANGED <<journal, ack>>
       \/ /\ p \in Inbox            \* the inbox cannot be read at all
          /\ misreads < MaxMisreads
          /\ misreads' = misreads + 1
          /\ Refuse(c)
          /\ UNCHANGED <<journal, blind>>
    /\ UNCHANGED <<session, running, receipts, rows, sweep, undo,
                   made, raced, trims, crashes>>

\* The team's lock is taken and the sender looked at under it.
Arm(c) ==
    /\ call[c].phase = "unseen"
    /\ \A b \in Calls : ~Leased(b)
    /\ \/ Stale(c) /\ Rejected(c)
       \/ /\ ~Stale(c)
          /\ call' = [call EXCEPT ![c].phase = "armed", ![c].id = journal[KeyOf[c]][Run(c)].id]
          /\ UNCHANGED <<journal, ack>>
    /\ UNCHANGED <<session, running, receipts, rows, sweep, undo,
                   made, blind, raced, misreads, trims, crashes>>

\* The write.  An inbox takes an id once and reports what went wrong, before the
\* row is there or after; the sent file takes any row and reports nothing.
Write(c) ==
    LET m == <<call[c].payload, call[c].id>>
        inbox == call[c].payload \in Inbox
    IN
    /\ call[c].phase = "armed"
    /\ \/ /\ rows' = IF inbox /\ Visible(m[1], m[2]) THEN rows ELSE [rows EXCEPT ![m] = @ + 1]
          /\ made' = IF rows' = rows THEN made ELSE made \union {m}
       \/ UNCHANGED <<rows, made>>
    /\ \/ To(c, "written") /\ (inbox => Visible(m[1], m[2])')
       \/ inbox /\ call' = [call EXCEPT ![c].phase = "failing", ![c].verdict = "error"]
    /\ UNCHANGED <<session, running, journal, receipts, sweep, undo,
                   ack, blind, raced, misreads, trims, crashes>>

\* (As a mutant: what was written is taken to be there.)
ReadBack_Trusting(c) ==
    /\ call[c].phase = "written"
    /\ call' = [call EXCEPT ![c].phase = "committing", ![c].wrote = TRUE]
    /\ UNCHANGED <<session, running, stores, sweep, undo,
                   ack, made, blind, raced, misreads, trims, crashes>>

\* The two reads after the write.  When the first misses that is an error; when
\* the second does, the delivery is unverified.
ReadBack(c) ==
    LET p == call[c].payload IN
    /\ call[c].phase = "written"
    /\ \/ /\ Sees(p, call[c].id)
          /\ call' = [call EXCEPT ![c].phase = "committing", ![c].wrote = TRUE]
       \/ /\ Misses(KeyOf[c], p, {call[c].id})
          /\ \E verdict \in {"error", "unverified"} :
               call' = [call EXCEPT ![c].phase = "failing", ![c].verdict = verdict]
    /\ UNCHANGED <<session, running, stores, sweep, undo,
                   ack, made, raced, trims, crashes>>

CommitDelivery(c) ==
    /\ call[c].phase = "committing"
    /\ Commit(c, KeyOf[c], Run(c), call[c].id)
    /\ To(c, "confirming")
    /\ UNCHANGED <<session, running, rows, sweep, ack, made, blind, misreads, trims, crashes>>

\* The journal cannot be locked or written, or a look at the sender throws.  After
\* the commit it is the rollback that throws: the commit stands.
JournalFails(c) ==
    /\ \/ call[c].phase \in {"committing", "confirming"} /\ call[c].wrote
          /\ call' = [call EXCEPT ![c].phase = "failing", ![c].verdict = "error"]
          /\ UNCHANGED ack
       \/ call[c].phase \in {"committing", "confirming"} /\ ~call[c].wrote
          /\ Refuse(c)
       \/ call[c].phase \in {"checked", "begun", "looking", "unseen", "failing"}
          /\ Refuse(c)
    /\ undo' = [undo EXCEPT ![c] = None]
    /\ UNCHANGED <<session, running, stores, sweep,
                   made, blind, raced, misreads, trims, crashes>>

\* The read after the commit.  When it misses, the commit is undone: a message
\* that was written is unverified, one that was found is looked for under the
\* other ids, if the records have others, and else written after all.
Confirm(c) ==
    LET k == KeyOf[c]
        p == call[c].payload
    IN
    /\ call[c].phase = "confirming"
    /\ undo' = [undo EXCEPT ![c] = None]
    /\ \/ /\ Sees(p, call[c].id)
          /\ Answer(c, call[c].id)
          /\ UNCHANGED <<journal, receipts>>
       \/ /\ Misses(k, p, {call[c].id})
          /\ Rollback(c, k)
          /\ IF call[c].wrote
             THEN call' = [call EXCEPT ![c].phase = "failing", ![c].verdict = "unverified"]
             ELSE To(c, IF call[c].ids = {} THEN "unseen" ELSE "looking")
          /\ UNCHANGED ack
    /\ UNCHANGED <<session, running, rows, sweep, made, raced, trims, crashes>>

\* The handler of what went wrong under the lock: the sender once more, the
\* status of the record, and the error goes to the caller.
Fail(c) ==
    /\ call[c].phase = "failing"
    /\ \/ Stale(c) /\ Rejected(c)
       \/ /\ ~Stale(c)
          /\ IF call[c].verdict = "error" THEN MarkFailed(c, "failed_retryable")
                                          ELSE UNCHANGED journal
          /\ Refuse(c)
    /\ UNCHANGED <<session, running, receipts, rows, sweep, undo,
                   made, blind, raced, misreads, trims, crashes>>

-----------------------------------------------------------------------------
(* The reconciler: it takes no turn and no lock, and never writes a message. *)

Reconcile(k, r) ==
    /\ sweep = None
    /\ journal[k][r] # None
    /\ journal[k][r].status \in {"pending", "failed_retryable"}
    /\ sweep' = [phase |-> "looking", key |-> k, run |-> r,
                 payload |-> journal[k][r].payload, id |-> journal[k][r].id]
    /\ UNCHANGED <<session, running, stores, call, undo,
                   ack, made, blind, raced, misreads, trims, crashes>>

\* The two reads before its commit; a message that is not there is only logged.
ReconcileLook ==
    /\ sweep # None /\ sweep.phase = "looking"
    /\ \/ Sees(sweep.payload, sweep.id) /\ sweep' = [sweep EXCEPT !.phase = "committing"]
       \/ Misses(sweep.key, sweep.payload, {sweep.id}) /\ sweep' = None
    /\ UNCHANGED <<session, running, stores, call, undo, ack, made, raced, trims, crashes>>

ReconcileCommit ==
    /\ sweep # None /\ sweep.phase = "committing"
    /\ Commit(Sweeper, sweep.key, sweep.run, sweep.id)
    /\ sweep' = [sweep EXCEPT !.phase = "confirming"]
    /\ UNCHANGED <<session, running, rows, call, ack, made, blind, misreads, trims, crashes>>

ReconcileConfirm ==
    /\ sweep # None /\ sweep.phase = "confirming"
    /\ \/ Sees(sweep.payload, sweep.id) /\ UNCHANGED <<journal, receipts>>
       \/ Misses(sweep.key, sweep.payload, {sweep.id}) /\ Rollback(Sweeper, sweep.key)
    /\ sweep' = None
    /\ undo' = [undo EXCEPT ![Sweeper] = None]
    /\ UNCHANGED <<session, running, rows, call, ack, made, raced, trims, crashes>>

\* The journal throws, at the commit or at its rollback: that ends the sweep.
ReconcileFails ==
    /\ sweep # None
    /\ sweep' = None
    /\ undo' = [undo EXCEPT ![Sweeper] = None]
    /\ UNCHANGED <<session, running, stores, call,
                   ack, made, blind, raced, misreads, trims, crashes>>

-----------------------------------------------------------------------------
(* The surroundings. *)

\* (As a mutant: a session checks in without the team's lock.)
CheckIn_AnyTime ==
    /\ session + 1 \in Sessions
    /\ session' = session + 1
    /\ running' = TRUE
    /\ UNCHANGED <<stores, call, sweep, undo, ack, made, blind, raced, misreads, trims, crashes>>

\* A new session of the run, or the first of the next run, is accepted: both
\* under the team's lock.  A stopped team is started by a new run.
CheckIn ==
    /\ session + 1 \in Sessions
    /\ running \/ RunOf[session + 1] # RunOf[session]
    /\ \A c \in Calls : ~Leased(c)
    /\ session' = session + 1
    /\ running' = TRUE
    /\ UNCHANGED <<stores, call, sweep, undo, ack, made, blind, raced, misreads, trims, crashes>>

\* Stop forgets the run at once, whoever holds the team's lock.
StopTeam ==
    /\ running
    /\ running' = FALSE
    /\ UNCHANGED <<session, stores, call, sweep, undo,
                   ack, made, blind, raced, misreads, trims, crashes>>

\* 200 later messages push a row out of the sent file.
Trim(m) ==
    /\ m[1] \notin Inbox
    /\ rows[m] > 0
    /\ trims < MaxTrims
    /\ trims' = trims + 1
    /\ rows' = [rows EXCEPT ![m] = @ - 1]
    /\ UNCHANGED <<session, running, journal, receipts, call, sweep, undo,
                   ack, made, blind, raced, misreads, crashes>>

\* The program is restarted: what its calls knew is gone, the files stay.
Crash ==
    /\ crashes < MaxCrashes
    /\ crashes' = crashes + 1
    /\ call' = [c \in Calls |-> IF call[c].phase = "idle" THEN call[c]
                                ELSE [Idle(call[c].payload) EXCEPT !.phase = "over"]]
    /\ sweep' = None
    /\ undo' = [a \in Actors |-> None]
    /\ UNCHANGED <<session, running, stores, ack, made, blind, raced, misreads, trims>>

Next ==
    \/ \E c \in Calls :
         \/ Deliver(c) \/ TakeTurn(c) \/ Begin(c) \/ Recheck(c) \/ Look(c) \/ Arm(c)
         \/ Write(c) \/ ReadBack(c) \/ CommitDelivery(c) \/ JournalFails(c)
         \/ Confirm(c) \/ Fail(c)
    \/ \E k \in Keys, r \in Runs : Reconcile(k, r)
    \/ ReconcileLook \/ ReconcileCommit \/ ReconcileConfirm \/ ReconcileFails
    \/ CheckIn \/ StopTeam \/ Crash
    \/ \E m \in Messages : Trim(m)

Spec == Init /\ [][Next]_vars

-----------------------------------------------------------------------------
(* Properties. *)

MessagesOf(k) == {m \in made : m[2][1] = k}

\* Whatever the retries, the sessions, the runs and the crashes, a key becomes
\* one message with one id: a later run carries the id of the earlier attempt on
\* (RuntimeDeliveryJournal.ts:268).  Excepted are keys whose commits raced.
OneMessageUnlessRaced ==
    \A k \in Keys \ raced : Cardinality(MessagesOf(k)) <= 1

\* The reader sees it once.  Excepted is the sent file after a read that missed a
\* row which was there: appendMessage does not look for the id.
OneRowUnlessUnseen ==
    \A m \in Messages :
        m[1] \in Inbox \/ m[2][1] \notin blind => rows[m] <= 1

\* A call that is told its message is delivered is told the truth: a row with its
\* own payload was at the destination, under the id it is given.
AnswersAreTrue ==
    \A c \in Calls : ack[c] # None => <<call[c].payload, ack[c]>> \in made

\* Nothing is committed on the word of a write alone: what the journal calls
\* committed, and every receipt, was seen at the destination.
CommitsWereSeen ==
    \A k \in Keys :
        /\ receipts[k] # None => <<receipts[k].payload, receipts[k].proof.at>> \in made
        /\ \A r \in Runs :
             journal[k][r] # None /\ journal[k][r].status = "committed"
                => <<journal[k][r].payload, journal[k][r].proof.at>> \in made

Writes(c) == call[c].phase = "armed" /\ call'[c].phase # "armed" /\ rows' # rows

\* Only the latest session writes: one that was superseded between the look at
\* the sender and the write cannot, for the lock keeps the new one out.
SupersededNeverWrites ==
    [][\A c \in Calls : Writes(c) => call[c].session = session]_vars

\* Once a call was told its message is delivered, no call of the key writes
\* again, not even when the rows cannot be read or are no longer there.
AnsweredNeverRewritten ==
    [][\A c \in Calls : Writes(c) /\ KeyOf[c] \notin raced =>
           \A b \in Calls : KeyOf[b] = KeyOf[c] => ack[b] = None]_vars
-----------------------------------------------------------------------------
(* The service a key's calls may rely on. *)

CallsOf(k) == {c \in Calls : KeyOf[c] = k}

\* The message a key became, and the message a call was told of.
MessageOf(k) == IF MessagesOf(k) = {} THEN None ELSE CHOOSE m \in MessagesOf(k) : TRUE
Told(c) == IF ack[c] = None THEN None ELSE <<call[c].payload, ack[c]>>
ToldOf(k) == [c \in CallsOf(k) |-> Told(c)]

Service(k) == INSTANCE OnceOnly
    WITH Keys <- {k}, Ids <- Messages, Calls <- CallsOf(k),
         made <- [q \in {k} |-> MessageOf(q)], answered <- ToldOf(k)

\* Until commits of it overlap, a key is served by OnceOnly: every step makes its
\* first message, answers a call of it with that message, or is invisible to it.
ImplementsOnceOnlyUnlessRaced ==
    /\ \A k \in Keys : Service(k)!Init
    /\ [][\A k \in Keys \ raced' : [Service(k)!Next]_<<MessageOf(k), ToldOf(k)>>]_vars
=============================================================================
