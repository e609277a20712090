----------------------- MODULE RuntimeDeliveryProofs -----------------------
(***************************************************************************)
(* Proofs about RuntimeDelivery, for any keys, calls, payloads, runs and   *)
(* sessions, and any number of unseen rows, trimmed rows and restarts.     *)
(***************************************************************************)
EXTENDS RuntimeDelivery, FiniteSetTheorems, TLAPS

\* What a record that says committed relies on: its message was at the destination.
Proven(record) ==
    record.status = "committed" => <<record.payload, record.proof.at>> \in made

\* The records of a key are about one payload, carry ids of the key, and are true.
RecordsInv ==
    \A k \in Keys : \A r \in Runs : journal[k][r] # None =>
        /\ journal[k][r].id[1] = k
        /\ Proven(journal[k][r])
        /\ \A q \in Runs : journal[k][q] # None => journal[k][q].payload = journal[k][r].payload

ReceiptsInv ==
    \A k \in Keys : receipts[k] # None => <<receipts[k].payload, receipts[k].proof.at>> \in made

\* Every row is a message that was made; every message made is that of a record.
RowsInv == \A m \in Messages : rows[m] > 0 => m \in made
MadeInv ==
    \A m \in made : \E r \in Runs :
        LET record == journal[m[2][1]][r] IN
        record # None /\ record.payload = m[1] /\ record.id = m[2]

\* The record a call or the reconciler works for.
Owns(k, r, p) == journal[k][r] # None /\ journal[k][r].payload = p

Going(c) == \/ call[c].phase \in {"looking", "unseen", "armed", "written", "committing", "confirming"}
            \/ call[c].phase = "begun" /\ call[c].verdict = "go"
Known(c) == \/ call[c].phase \in {"committing", "confirming"}
            \/ call[c].phase = "begun" /\ call[c].verdict = "duplicate"

CallOK(c) ==
    /\ Going(c) => Owns(KeyOf[c], Run(c), call[c].payload)
    /\ Known(c) => <<call[c].payload, call[c].id>> \in made
    /\ call[c].phase \in {"armed", "written"} => call[c].id = journal[KeyOf[c]][Run(c)].id
    /\ \A i \in call[c].ids : i[1] = KeyOf[c]
    /\ call[c].phase = "armed" => call[c].session = session

SweepOK ==
    sweep # None =>
        /\ Owns(sweep.key, sweep.run, sweep.payload)
        /\ sweep.id[1] = sweep.key
        /\ sweep.phase # "looking" => <<sweep.payload, sweep.id>> \in made

\* What a rollback puts back is the record it found, with the same payload and id.
UndoOK(a) ==
    undo[a] # None =>
        /\ \A q \in Runs :
             /\ undo[a].records[q] = None <=> undo[a].became[q] = None
             /\ undo[a].records[q] # None =>
                  /\ undo[a].became[q].payload = undo[a].records[q].payload
                  /\ undo[a].became[q].id = undo[a].records[q].id
                  /\ Proven(undo[a].records[q])
        /\ undo[a].receipt # None =>
             <<undo[a].receipt.payload, undo[a].receipt.proof.at>> \in made

TruthInv ==
    /\ RecordsInv
    /\ ReceiptsInv
    /\ RowsInv
    /\ MadeInv
    /\ \A c \in Calls : CallOK(c)
    /\ SweepOK
    /\ \A a \in Actors : UndoOK(a)
    /\ AnswersAreTrue

-----------------------------------------------------------------------------
(* Part 1: what a commit, an answer and a write rely on is true. *)

\* A step that loses no record, and changes neither its payload nor its id.
Kept ==
    \A k \in Keys, r \in Runs : journal[k][r] # None =>
        /\ journal'[k][r] # None
        /\ journal'[k][r].payload = journal[k][r].payload
        /\ journal'[k][r].id = journal[k][r].id

\* The journal after a step: of its type, nothing lost, still true.
JournalOK == journal' \in [Keys -> [Runs -> Record \union {None}]] /\ Kept /\ RecordsInv'

\* The types of a record, from the type of the journal.
LEMMA RecordType ==
    ASSUME TypeOK, NEW k \in Keys, NEW r \in Runs, journal[k][r] # None
    PROVE  /\ journal[k][r] \in Record
           /\ journal[k][r].status \in Statuses /\ journal[k][r].payload \in Payloads
           /\ journal[k][r].id \in Ids /\ journal[k][r].proof \in Proof \union {None}
<1>1. journal[k][r] \in Record
  BY DEF TypeOK
<1> QED
  BY <1>1 DEF Record

\* The run of a call is a run.
LEMMA RunType == ASSUME TypeOK, NEW c \in Calls PROVE Run(c) \in Runs /\ KeyOf[c] \in Keys
<1>1. call[c] \in Call
  BY DEF TypeOK
<1>2. call[c].session \in Sessions
  BY <1>1 DEF Call
<1> QED
  BY <1>2, DeliveryAssumption DEF Run

\* A journal that is not touched, or a message more at the destination.
LEMMA JournalStill ==
    ASSUME TypeOK, RecordsInv, journal' = journal, made \subseteq made'
    PROVE  JournalOK
BY DEF JournalOK, TypeOK, Kept, RecordsInv, Proven

\* markFailed changes no payload and no id, and makes no record committed.
LEMMA MarkFailedOK ==
    ASSUME TypeOK, RecordsInv, NEW c \in Calls,
           NEW status \in {"failed_retryable", "failed_terminal"},
           MarkFailed(c, status), made' = made
    PROVE  JournalOK
<1> DEFINE k == KeyOf[c]
           r == Run(c)
<1>1. k \in Keys /\ r \in Runs
  BY RunType
<1>2. CASE journal' = journal
  BY <1>2, JournalStill
<1>3. CASE journal[k][r] # None /\ journal' = [journal EXCEPT ![k][r].status = status]
  <2>1. journal[k][r] \in Record
    BY <1>1, <1>3, RecordType
  <2>2. journal'[k][r] = [journal[k][r] EXCEPT !.status = status]
    BY <1>1, <1>3 DEF TypeOK
  <2>3. /\ journal'[k][r] \in Record /\ journal'[k][r].status = status
        /\ journal'[k][r].payload = journal[k][r].payload
        /\ journal'[k][r].id = journal[k][r].id
    BY <2>1, <2>2 DEF Record, Statuses
  <2>4. journal'[k][r] # None
    BY <2>3, NoneAssumption
  <2>5. \A j \in Keys, q \in Runs : ~(j = k /\ q = r) => journal'[j][q] = journal[j][q]
    BY <1>1, <1>3 DEF TypeOK
  <2>6. journal' \in [Keys -> [Runs -> Record \union {None}]]
    BY <1>1, <1>3, <2>1, <2>2, <2>3 DEF TypeOK
  <2>7. Kept
    BY <2>3, <2>4, <2>5 DEF Kept
  <2>8. RecordsInv'
    <3> SUFFICES ASSUME NEW j \in Keys, NEW q \in Runs, journal'[j][q] # None
                 PROVE  /\ journal'[j][q].id[1] = j
                        /\ Proven(journal[j][q])'
                        /\ \A p \in Runs : journal'[j][p] # None =>
                               journal'[j][p].payload = journal'[j][q].payload
      BY DEF RecordsInv
    <3>1. \A p \in Runs : journal'[j][p] # None =>
            /\ journal[j][p] # None
            /\ journal'[j][p].payload = journal[j][p].payload
            /\ journal'[j][p].id = journal[j][p].id
      BY <1>3, <2>3, <2>5
    <3>2. Proven(journal[j][q])'
      <4>1. CASE j = k /\ q = r
        BY <4>1, <2>3 DEF Proven
      <4>2. CASE ~(j = k /\ q = r)
        BY <4>2, <2>5 DEF Proven, RecordsInv
      <4> QED
        BY <4>1, <4>2
    <3> QED
      BY <3>1, <3>2 DEF RecordsInv
  <2> QED
    BY <2>6, <2>7, <2>8 DEF JournalOK
<1> QED
  BY <1>2, <1>3 DEF MarkFailed

\* A commit of a message that was made, for a record of its payload.
LEMMA CommitOK ==
    ASSUME TypeOK, RecordsInv, ReceiptsInv, \A a \in Actors : UndoOK(a),
           NEW a \in Actors, NEW k \in Keys, NEW r \in Runs, NEW i \in Ids,
           journal[k][r] # None, <<journal[k][r].payload, i>> \in made,
           Commit(a, k, r, i), made' = made
    PROVE  /\ JournalOK
           /\ ReceiptsInv' /\ receipts' \in [Keys -> Receipt \union {None}]
           /\ receipts'[k] # None
           /\ \A b \in Actors : UndoOK(b)'
           /\ undo' \in [Actors -> Undo \union {None}]
           /\ undo'[a] # None /\ \A b \in Actors : b # a => undo'[b] = undo[b]
           /\ raced' \subseteq raced \union {k}
<1> DEFINE proof == [at |-> i, by |-> a]
           new == [q \in Runs |-> IF q = r \/ q \in Lineage(k, r)
                    THEN [journal[k][q] EXCEPT !.status = "committed", !.proof = proof]
                    ELSE journal[k][q]]
           receipt == [payload |-> journal[k][r].payload, proof |-> proof]
<1>1. PICK kept \in {receipt} \union ({receipts[k]} \ {None}) :
         /\ journal' = [journal EXCEPT ![k] = new]
         /\ receipts' = [receipts EXCEPT ![k] = kept]
         /\ undo' = [undo EXCEPT ![a] = [records |-> journal[k], became |-> new,
                                         receipt |-> receipts[k], receiptBecame |-> kept]]
  BY Zenon DEF Commit, Became
<1>2. proof \in Proof
  BY DEF Proof
<1>3. \A q \in Runs : q = r \/ q \in Lineage(k, r) => journal[k][q] # None
  BY DEF Lineage
<1>4. \A q \in Runs : journal[k][q] # None =>
        /\ new[q] \in Record /\ new[q] # None
        /\ new[q].payload = journal[k][q].payload /\ new[q].id = journal[k][q].id
        /\ new[q].proof.at = i \/ new[q] = journal[k][q]
  <2> TAKE q \in Runs
  <2> HAVE journal[k][q] # None
  <2>1. journal[k][q] \in Record
    BY RecordType
  <2>2. CASE q = r \/ q \in Lineage(k, r)
    <3>1. new[q] = [journal[k][q] EXCEPT !.status = "committed", !.proof = proof]
      BY <2>2
    <3>2. /\ new[q] \in Record /\ new[q].payload = journal[k][q].payload
          /\ new[q].id = journal[k][q].id /\ new[q].proof = proof
      BY <2>1, <3>1, <1>2 DEF Record, Statuses
    <3> QED
      BY <3>2, NoneAssumption
  <2>3. CASE ~(q = r \/ q \in Lineage(k, r))
    BY <2>3, <2>1
  <2> QED
    BY <2>2, <2>3
<1>5. \A q \in Runs : journal[k][q] = None => new[q] = None
  BY <1>3
<1>6. new \in [Runs -> Record \union {None}]
  BY <1>4, <1>5
<1>7. /\ journal' \in [Keys -> [Runs -> Record \union {None}]]
      /\ journal'[k] = new
      /\ \A j \in Keys : j # k => journal'[j] = journal[j]
  BY <1>1, <1>6 DEF TypeOK
<1> HIDE DEF new
<1>8. Kept
  BY <1>4, <1>7 DEF Kept
<1>9. \A q \in Runs : journal[k][q] # None => journal[k][q].payload = journal[k][r].payload
  BY DEF RecordsInv
<1>10. \A q \in Runs : new[q] # None => Proven(new[q])
  <2> TAKE q \in Runs
  <2> HAVE new[q] # None
  <2>1. journal[k][q] # None
    BY <1>5
  <2>2. new[q].payload = journal[k][r].payload
    BY <1>4, <1>9, <2>1
  <2>3. CASE new[q].proof.at = i
    BY <2>2, <2>3 DEF Proven
  <2>4. CASE new[q] = journal[k][q]
    BY <2>1, <2>4 DEF RecordsInv
  <2> QED
    BY <1>4, <2>1, <2>3, <2>4
<1>11. RecordsInv'
  <2> SUFFICES ASSUME NEW j \in Keys, NEW q \in Runs, journal'[j][q] # None
               PROVE  /\ journal'[j][q].id[1] = j
                      /\ Proven(journal[j][q])'
                      /\ \A p \in Runs : journal'[j][p] # None =>
                             journal'[j][p].payload = journal'[j][q].payload
    BY DEF RecordsInv
  <2>1. CASE j = k
    <3>1. \A p \in Runs : new[p] # None => journal[k][p] # None
      BY <1>5
    <3>2. journal'[j][q].id[1] = j
      <4>1. journal[k][q] # None /\ journal'[k][q].id = journal[k][q].id
        BY <2>1, <1>7, <1>4, <3>1
      <4> QED
        BY <2>1, <4>1 DEF RecordsInv
    <3>3. Proven(journal[j][q])'
      BY <2>1, <1>7, <1>10 DEF Proven
    <3>4. \A p \in Runs : journal'[j][p] # None =>
              journal'[j][p].payload = journal'[j][q].payload
      BY <2>1, <1>7, <1>4, <1>9, <3>1
    <3> QED
      BY <3>2, <3>3, <3>4
  <2>2. CASE j # k
    <3>1. journal'[j] = journal[j]
      BY <2>2, <1>7
    <3> QED
      BY <3>1 DEF RecordsInv, Proven
  <2> QED
    BY <2>1, <2>2
<1>12. kept \in Receipt /\ <<kept.payload, kept.proof.at>> \in made
  <2>1. CASE kept = receipt
    <3>1. journal[k][r].payload \in Payloads
      BY RecordType
    <3> QED
      BY <2>1, <3>1, <1>2 DEF Receipt
  <2>2. CASE kept = receipts[k] /\ receipts[k] # None
    BY <2>2 DEF TypeOK, ReceiptsInv
  <2> QED
    BY <2>1, <2>2
<1>13. /\ ReceiptsInv' /\ receipts' \in [Keys -> Receipt \union {None}]
       /\ receipts'[k] # None
  BY <1>1, <1>12, NoneAssumption DEF ReceiptsInv, TypeOK
<1>14. /\ undo' \in [Actors -> Undo \union {None}]
       /\ undo'[a] # None /\ \A b \in Actors : b # a => undo'[b] = undo[b]
  <2>1. [records |-> journal[k], became |-> new,
         receipt |-> receipts[k], receiptBecame |-> kept] \in Undo
    BY <1>6, <1>12 DEF TypeOK, Undo
  <2> QED
    BY <1>1, <2>1, NoneAssumption DEF TypeOK
<1>15. ASSUME NEW b \in Actors PROVE UndoOK(b)'
  <2>1. CASE b # a
    BY <2>1, <1>1 DEF UndoOK, Proven, TypeOK
  <2>2. CASE b = a
    <3>1. undo'[b] = [records |-> journal[k], became |-> new,
                      receipt |-> receipts[k], receiptBecame |-> kept]
      BY <2>2, <1>1 DEF TypeOK
    <3>2. \A q \in Runs : journal[k][q] = None <=> new[q] = None
      BY <1>4, <1>5
    <3>3. \A q \in Runs : journal[k][q] # None => Proven(journal[k][q])
      BY DEF RecordsInv
    <3>4. receipts[k] # None => <<receipts[k].payload, receipts[k].proof.at>> \in made
      BY DEF ReceiptsInv
    <3>5. /\ undo'[b].records = journal[k] /\ undo'[b].became = new
          /\ undo'[b].receipt = receipts[k]
      BY <3>1
    <3> QED
      BY <3>2, <3>3, <3>4, <3>5, <1>4 DEF UndoOK, Proven
  <2> QED
    BY <2>1, <2>2
<1>16. raced' \subseteq raced \union {k}
  BY DEF Commit, Race
<1> QED
  BY <1>7, <1>8, <1>11, <1>13, <1>14, <1>15, <1>16 DEF JournalOK

\* A rollback puts back records of the same payload and id, and proven receipts.
LEMMA RollbackOK ==
    ASSUME TypeOK, RecordsInv, ReceiptsInv,
           NEW a \in Actors, NEW k \in Keys, undo[a] # None, UndoOK(a),
           Rollback(a, k), made' = made
    PROVE  JournalOK /\ ReceiptsInv' /\ receipts' \in [Keys -> Receipt \union {None}]
<1> DEFINE u == undo[a]
           old == [q \in Runs |-> IF journal[k][q] = u.became[q] THEN u.records[q]
                                                                 ELSE journal[k][q]]
<1>1. u \in Undo
  BY DEF TypeOK
<1>2. /\ u.records \in [Runs -> Record \union {None}]
      /\ u.receipt \in Receipt \union {None}
  BY <1>1 DEF Undo
<1>3. /\ journal' = [journal EXCEPT ![k] = old]
      /\ receipts' = [receipts EXCEPT ![k] =
             IF receipts[k] = u.receiptBecame THEN u.receipt ELSE receipts[k]]
  BY DEF Rollback
<1>4. \A q \in Runs : journal[k][q] # None =>
        /\ old[q] # None /\ old[q].payload = journal[k][q].payload
        /\ old[q].id = journal[k][q].id /\ Proven(old[q])
  BY DEF UndoOK, RecordsInv
<1>5. \A q \in Runs : journal[k][q] = None => old[q] = None
  BY DEF UndoOK
<1>6. old \in [Runs -> Record \union {None}]
  BY <1>2 DEF TypeOK
<1>7. /\ journal' \in [Keys -> [Runs -> Record \union {None}]]
      /\ journal'[k] = old
      /\ \A j \in Keys : j # k => journal'[j] = journal[j]
  BY <1>3, <1>6 DEF TypeOK
<1> HIDE DEF old
<1>8. Kept
  BY <1>4, <1>7 DEF Kept
<1>9. RecordsInv'
  <2> SUFFICES ASSUME NEW j \in Keys, NEW q \in Runs, journal'[j][q] # None
               PROVE  /\ journal'[j][q].id[1] = j
                      /\ Proven(journal[j][q])'
                      /\ \A p \in Runs : journal'[j][p] # None =>
                             journal'[j][p].payload = journal'[j][q].payload
    BY DEF RecordsInv
  <2>1. CASE j = k
    <3>1. \A p \in Runs : journal'[k][p] # None =>
            /\ journal[k][p] # None /\ journal'[k][p].payload = journal[k][p].payload
            /\ journal'[k][p].id = journal[k][p].id
      BY <1>4, <1>5, <1>7
    <3>2. journal'[j][q].id[1] = j
      BY <2>1, <3>1 DEF RecordsInv
    <3>3. Proven(journal[j][q])'
      BY <2>1, <3>1, <1>4, <1>7 DEF Proven
    <3>4. \A p \in Runs : journal'[j][p] # None =>
              journal'[j][p].payload = journal'[j][q].payload
      BY <2>1, <3>1 DEF RecordsInv
    <3> QED
      BY <3>2, <3>3, <3>4
  <2>2. CASE j # k
    <3>1. journal'[j] = journal[j]
      BY <2>2, <1>7
    <3> QED
      BY <3>1 DEF RecordsInv, Proven
  <2> QED
    BY <2>1, <2>2
<1>10. receipts' \in [Keys -> Receipt \union {None}]
  BY <1>3, <1>2 DEF TypeOK
<1>11. ReceiptsInv'
  <2>1. u.receipt # None => <<u.receipt.payload, u.receipt.proof.at>> \in made
    BY DEF UndoOK
  <2> QED
    BY <1>3, <2>1 DEF ReceiptsInv, TypeOK
<1> QED
  BY <1>7, <1>8, <1>9, <1>10, <1>11 DEF JournalOK

\* The ids a call may begin with are ids of its key.
LEMMA NewIdType ==
    ASSUME TypeOK, RecordsInv, NEW k \in Keys, NEW r \in Runs, NEW i \in NewId(k, r)
    PROVE  i \in Ids /\ i[1] = k
<1>1. CASE Lineage(k, r) = {} /\ i = <<k, r>>
  BY <1>1 DEF Ids
<1>2. CASE \E q \in Lineage(k, r) : i = journal[k][q].id
  BY <1>2, RecordType DEF Lineage, RecordsInv
<1> QED
  BY <1>1, <1>2 DEF NewId

\* The step begin takes in the journal.
Recorded(k, r, p, i) == journal' = [journal EXCEPT ![k][r] = Begun(journal[k][r], p, i)]

\* begin: the record of the call is there afterwards, with its payload.
LEMMA BeginOK ==
    ASSUME TypeOK, RecordsInv, made' = made,
           NEW k \in Keys, NEW r \in Runs, NEW p \in Payloads, NEW i \in Ids,
           ~Conflicts(k, p), receipts[k] = None, i[1] = k, Recorded(k, r, p, i)
    PROVE  JournalOK /\ journal'[k][r] # None /\ journal'[k][r].payload = p
<1> USE DEF Recorded
<1>1. \A q \in Runs : journal[k][q] # None => journal[k][q].payload = p
  BY DEF Conflicts
<1>2. \A j \in Keys, q \in Runs : ~(j = k /\ q = r) => journal'[j][q] = journal[j][q]
  BY DEF TypeOK
<1>3. /\ journal'[k][r] \in Record /\ journal'[k][r].payload = p
      /\ journal'[k][r].status # "committed" /\ journal'[k][r].id[1] = k
      /\ journal[k][r] # None => journal'[k][r].id = journal[k][r].id
  <2>1. CASE journal[k][r] = None
    <3>1. journal'[k][r] = [status |-> "pending", payload |-> p, id |-> i, proof |-> None]
      BY <2>1 DEF TypeOK, Begun
    <3> QED
      BY <3>1, <2>1 DEF Record, Statuses
  <2>2. CASE journal[k][r] # None
    <3>1. journal[k][r] \in Record
      BY <2>2, RecordType
    <3>2. journal'[k][r] = [journal[k][r] EXCEPT !.status =
                              IF @ = "failed_terminal" THEN @ ELSE "pending"]
      BY <2>2 DEF TypeOK, Begun
    <3>3. journal[k][r].id[1] = k
      BY <2>2 DEF RecordsInv
    <3>4. /\ journal'[k][r].status \in {"failed_terminal", "pending"}
          /\ journal'[k][r].payload = journal[k][r].payload
          /\ journal'[k][r].id = journal[k][r].id
          /\ journal'[k][r] \in Record
      BY <3>1, <3>2 DEF Record, Statuses
    <3> QED
      BY <3>3, <3>4, <1>1, <2>2
  <2> QED
    BY <2>1, <2>2
<1>4. journal'[k][r] # None
  BY <1>3, NoneAssumption
<1>5. journal' \in [Keys -> [Runs -> Record \union {None}]]
  <2>1. Begun(journal[k][r], p, i) = journal'[k][r]
    BY DEF TypeOK
  <2>2. journal' = [journal EXCEPT ![k][r] = journal'[k][r]]
    BY <2>1
  <2> QED
    BY <2>2, <1>3 DEF TypeOK
<1>6. Kept
  BY <1>1, <1>2, <1>3, <1>4 DEF Kept
<1>7. RecordsInv'
  <2> SUFFICES ASSUME NEW j \in Keys, NEW q \in Runs, journal'[j][q] # None
               PROVE  /\ journal'[j][q].id[1] = j
                      /\ Proven(journal[j][q])'
                      /\ \A o \in Runs : journal'[j][o] # None =>
                             journal'[j][o].payload = journal'[j][q].payload
    BY DEF RecordsInv
  <2>1. CASE j = k
    <3>1. \A o \in Runs : journal'[k][o] # None => journal'[k][o].payload = p
      BY <1>1, <1>2, <1>3
    <3>2. Proven(journal[k][q])' /\ journal'[k][q].id[1] = k
      BY <2>1, <1>2, <1>3 DEF Proven, RecordsInv
    <3> QED
      BY <2>1, <3>1, <3>2
  <2>2. CASE j # k
    <3>1. \A o \in Runs : journal'[j][o] = journal[j][o]
      BY <2>2, <1>2
    <3> QED
      BY <3>1 DEF RecordsInv, Proven
  <2> QED
    BY <2>1, <2>2
<1> QED
  BY <1>3, <1>4, <1>5, <1>6, <1>7 DEF JournalOK

-----------------------------------------------------------------------------
\* What stays true for those a step does not move.

\* A call that stays where it is.
LEMMA CallStill ==
    ASSUME TypeOK, Kept, made \subseteq made', NEW b \in Calls, CallOK(b),
           call'[b] = call[b], call[b].phase = "armed" => session' = session
    PROVE  CallOK(b)'
<1>1. Run(b) \in Runs /\ KeyOf[b] \in Keys
  BY RunType
<1>2. Run(b)' = Run(b) /\ Going(b)' = Going(b) /\ Known(b)' = Known(b)
  BY DEF Run, Going, Known
<1>3. Going(b) => Owns(KeyOf[b], Run(b), call[b].payload)
  BY DEF CallOK
<1>4. Going(b)' => Owns(KeyOf[b], Run(b), call[b].payload)'
  BY <1>1, <1>2, <1>3 DEF Owns, Kept
<1>5. call[b].phase \in {"armed", "written"} => Going(b)
  BY DEF Going
<1>6. call'[b].phase \in {"armed", "written"} =>
        call'[b].id = journal'[KeyOf[b]][Run(b)'].id
  BY <1>1, <1>2, <1>3, <1>5 DEF CallOK, Owns, Kept
<1> QED
  BY <1>2, <1>4, <1>6 DEF CallOK

\* The reconciler that stays where it is.
LEMMA SweepStill ==
    ASSUME TypeOK, Kept, made \subseteq made', SweepOK, sweep' = sweep
    PROVE  SweepOK'
<1>1. CASE sweep = None
  BY <1>1 DEF SweepOK
<1>2. CASE sweep # None
  <2>1. sweep \in Sweep
    BY <1>2 DEF TypeOK
  <2>2. sweep.key \in Keys /\ sweep.run \in Runs
    BY <2>1 DEF Sweep
  <2> QED
    BY <2>2 DEF SweepOK, Owns, Kept
<1> QED
  BY <1>1, <1>2

\* An unconfirmed commit that stays so.
LEMMA UndoStill ==
    ASSUME made \subseteq made', NEW a \in Actors, UndoOK(a), undo'[a] = undo[a]
    PROVE  UndoOK(a)'
BY DEF UndoOK, Proven

\* The messages made before still have their records.
LEMMA MadeStill ==
    ASSUME TypeOK, Kept, MadeInv, NEW m \in made
    PROVE  \E r \in Runs : LET record == journal'[m[2][1]][r] IN
               record # None /\ record.payload = m[1] /\ record.id = m[2]
<1>1. m[2][1] \in Keys
  BY DEF TypeOK, Messages, Ids
<1> QED
  BY <1>1 DEF MadeInv, Kept

\* The step of one call, in parts: the rest of the invariant follows.
LEMMA CallStep ==
    ASSUME TypeOK, TruthInv, NEW c \in Calls, JournalOK, ReceiptsInv',
           \A b \in Calls : b # c => call'[b] = call[b],
           call'[c].payload = call[c].payload, CallOK(c)',
           rows' = rows, made' = made, session' = session, sweep' = sweep,
           \A a \in Actors : UndoOK(a)',
           ack' = ack \/ \E i \in Ids : /\ ack' = [ack EXCEPT ![c] = i]
                                        /\ <<call[c].payload, i>> \in made
    PROVE  TruthInv'
<1>1. Kept /\ RecordsInv'
  BY DEF JournalOK
<1>2. RowsInv'
  BY DEF RowsInv, TruthInv
<1>3. MadeInv'
  BY <1>1, MadeStill DEF MadeInv, TruthInv
<1>4. \A b \in Calls : CallOK(b)'
  BY <1>1, CallStill DEF TruthInv
<1>5. SweepOK'
  BY <1>1, SweepStill DEF TruthInv
<1>6. AnswersAreTrue'
  BY DEF AnswersAreTrue, TruthInv, TypeOK
<1> QED
  BY <1>1, <1>2, <1>3, <1>4, <1>5, <1>6 DEF TruthInv

-----------------------------------------------------------------------------
\* The steps of a call.

\* A call that moves to another phase.
LEMMA ToType ==
    ASSUME TypeOK, NEW c \in Calls, NEW phase \in Phases, To(c, phase)
    PROVE  /\ call' \in [Calls -> Call]
           /\ call'[c] = [call[c] EXCEPT !.phase = phase]
           /\ call'[c].phase = phase
           /\ call'[c].session = call[c].session /\ call'[c].payload = call[c].payload
           /\ call'[c].verdict = call[c].verdict /\ call'[c].ids = call[c].ids
           /\ call'[c].id = call[c].id /\ call'[c].wrote = call[c].wrote
           /\ \A b \in Calls : b # c => call'[b] = call[b]
<1>1. call[c] \in Call
  BY DEF TypeOK
<1>2. call'[c] = [call[c] EXCEPT !.phase = phase]
  BY DEF TypeOK, To
<1>3. call'[c] \in Call
  BY <1>1, <1>2 DEF Call
<1>4. call' \in [Calls -> Call] /\ \A b \in Calls : b # c => call'[b] = call[b]
  BY <1>2, <1>3 DEF TypeOK, To
<1> QED
  BY <1>1, <1>2, <1>4 DEF Call

\* A call that ends.
LEMMA OverType ==
    ASSUME TypeOK, NEW c \in Calls, Over(c)
    PROVE  /\ call' \in [Calls -> Call]
           /\ call'[c].phase = "over" /\ call'[c].payload = call[c].payload
           /\ call'[c].ids = {} /\ call'[c].verdict = "none"
           /\ \A b \in Calls : b # c => call'[b] = call[b]
           /\ CallOK(c)'
<1>1. call[c] \in Call
  BY DEF TypeOK
<1>2. call'[c] = [phase |-> "over", session |-> 1, payload |-> call[c].payload,
                  verdict |-> "none", ids |-> {}, id |-> None, wrote |-> FALSE]
  BY DEF TypeOK, Over, Idle
<1>3. call'[c] \in Call
  BY <1>1, <1>2, DeliveryAssumption DEF Call, Phases, Verdicts
<1>4. call' \in [Calls -> Call] /\ \A b \in Calls : b # c => call'[b] = call[b]
  BY <1>3 DEF TypeOK, Over, Idle
<1>5. CallOK(c)'
  BY <1>2 DEF CallOK, Going, Known
<1> QED
  BY <1>2, <1>4, <1>5

\* A refused call.
LEMMA RejectedOK ==
    ASSUME TypeOK, RecordsInv, NEW c \in Calls, Rejected(c), made' = made
    PROVE  /\ JournalOK /\ call' \in [Calls -> Call] /\ CallOK(c)'
           /\ call'[c].phase = "over" /\ call'[c].payload = call[c].payload
           /\ call'[c].ids = {} /\ call'[c].verdict = "none"
           /\ \A b \in Calls : b # c => call'[b] = call[b]
           /\ ack' = ack
<1>1. JournalOK
  BY MarkFailedOK DEF Rejected
<1> QED
  BY <1>1, OverType DEF Rejected, Refuse

\* The commits that are not touched.
LEMMA UndosStill ==
    ASSUME TruthInv, made' = made, \A a \in Actors : undo'[a] = undo[a] \/ undo'[a] = None
    PROVE  \A a \in Actors : UndoOK(a)'
<1> SUFFICES ASSUME NEW a \in Actors PROVE UndoOK(a)'
  OBVIOUS
<1>1. CASE undo'[a] = undo[a]
  BY <1>1, UndoStill DEF TruthInv
<1>2. CASE undo'[a] = None
  BY <1>2 DEF UndoOK
<1> QED
  BY <1>1, <1>2

\* A receipt is true as long as it and its message are there.
LEMMA ReceiptsStill ==
    ASSUME TruthInv, receipts' = receipts, made' = made PROVE ReceiptsInv'
BY DEF TruthInv, ReceiptsInv

\* The invariant of a call whose step leaves the stores alone.
LEMMA QuietStep ==
    ASSUME TypeOK, TruthInv, NEW c \in Calls, UNCHANGED <<journal, receipts, rows, made, sweep>>,
           \A a \in Actors : undo'[a] = undo[a] \/ undo'[a] = None, session' = session,
           \A b \in Calls : b # c => call'[b] = call[b],
           call'[c].payload = call[c].payload, CallOK(c)',
           ack' = ack \/ \E i \in Ids : /\ ack' = [ack EXCEPT ![c] = i]
                                        /\ <<call[c].payload, i>> \in made
    PROVE  TruthInv'
<1>1. JournalOK
  BY JournalStill DEF TruthInv
<1> QED
  BY <1>1, UndosStill, ReceiptsStill, CallStep

\* A call that is made knows nothing yet.
LEMMA DeliverOK ==
    ASSUME TypeOK, TruthInv, NEW c \in Calls, Deliver(c) PROVE TypeOK' /\ TruthInv'
<1>1. PICK s \in 1..session :
         call' = [call EXCEPT ![c].phase = "queued", ![c].session = s]
  BY DEF Deliver
<1>2. s \in Sessions
  BY DeliveryAssumption DEF TypeOK
<1>3. call[c] \in Call
  BY DEF TypeOK
<1>4. call'[c] = [call[c] EXCEPT !.phase = "queued", !.session = s]
  BY <1>1 DEF TypeOK
<1>5. call'[c] \in Call
  BY <1>2, <1>3, <1>4 DEF Call, Phases
<1>6. call' \in [Calls -> Call] /\ \A b \in Calls : b # c => call'[b] = call[b]
  BY <1>1, <1>4, <1>5 DEF TypeOK
<1>7. TypeOK'
  BY <1>6 DEF TypeOK, Deliver, stores
<1>8. call'[c].phase = "queued" /\ call'[c].payload = call[c].payload /\ call'[c].ids = call[c].ids
  BY <1>3, <1>4 DEF Call
<1>9. CallOK(c)'
  BY <1>8 DEF TruthInv, CallOK, Going, Known
<1> QED
  BY <1>6, <1>7, <1>8, <1>9, QuietStep DEF Deliver, stores

\* A call that takes its turn, or is refused, knows nothing either.
LEMMA TakeTurnOK ==
    ASSUME TypeOK, TruthInv, NEW c \in Calls, TakeTurn(c) PROVE TypeOK' /\ TruthInv'
<1>1. CASE Refuse(c)
  <2>1. ack' = ack /\ Over(c)
    BY <1>1 DEF Refuse
  <2>2. TypeOK'
    BY <2>1, OverType DEF TypeOK, TakeTurn, stores
  <2> QED
    BY <2>1, <2>2, OverType, QuietStep DEF TakeTurn, stores
<1>2. CASE To(c, "checked") /\ ack' = ack
  <2>1. "checked" \in Phases
    BY DEF Phases
  <2>2. TypeOK'
    BY <1>2, <2>1, ToType DEF TypeOK, TakeTurn, stores
  <2>3. call'[c].phase = "checked" /\ call'[c].payload = call[c].payload /\ call'[c].ids = call[c].ids
    BY <1>2, <2>1, ToType
  <2>4. CallOK(c)'
    BY <2>3 DEF TruthInv, CallOK, Going, Known
  <2> QED
    BY <1>2, <2>1, <2>2, <2>3, <2>4, ToType, QuietStep DEF TakeTurn, stores
<1> QED
  BY <1>1, <1>2 DEF TakeTurn

\* What begin answers, whatever it is.
LEMMA VerdictType ==
    ASSUME TypeOK, NEW c \in Calls, NEW verdict \in Verdicts, NEW ids \in SUBSET Ids,
           NEW i \in Ids \union {None},
           Answered(c, verdict, ids, i)
    PROVE  /\ call' \in [Calls -> Call]
           /\ call'[c].phase = "begun" /\ call'[c].verdict = verdict
           /\ call'[c].ids = ids /\ call'[c].id = i
           /\ call'[c].session = call[c].session /\ call'[c].payload = call[c].payload
           /\ call'[c].wrote = call[c].wrote
           /\ \A b \in Calls : b # c => call'[b] = call[b]
<1>1. call[c] \in Call
  BY DEF TypeOK
<1>2. call'[c] = [call[c] EXCEPT !.phase = "begun", !.verdict = verdict,
                                 !.ids = ids, !.id = i]
  BY DEF TypeOK, Answered
<1>3. call'[c] = [phase |-> "begun", session |-> call[c].session, payload |-> call[c].payload,
                  verdict |-> verdict, ids |-> ids, id |-> i, wrote |-> call[c].wrote]
  BY <1>1, <1>2 DEF Call
<1>4. call'[c] \in Call
  BY <1>1, <1>3 DEF Call, Phases
<1>5. call' \in [Calls -> Call] /\ \A b \in Calls : b # c => call'[b] = call[b]
  BY <1>4 DEF TypeOK, Answered
<1> QED
  BY <1>3, <1>5

\* Where a key's commit is known to be, its message was.
LEMMA CommittedAtTrue ==
    ASSUME TypeOK, TruthInv, NEW k \in Keys, NEW r \in Runs, NEW p \in Payloads,
           ~Conflicts(k, p), NEW i \in CommittedAt(k, r)
    PROVE  i \in Ids /\ <<p, i>> \in made
<1>1. CASE receipts[k] # None /\ i = receipts[k].proof.at
  <2>1. receipts[k].payload = p
    BY <1>1 DEF Conflicts
  <2> QED
    BY <1>1, <2>1 DEF TruthInv, ReceiptsInv, TypeOK, Messages
<1>2. CASE /\ receipts[k] = None /\ journal[k][r] # None
           /\ journal[k][r].status = "committed" /\ i = journal[k][r].proof.at
  <2>1. journal[k][r].payload = p
    BY <1>2 DEF Conflicts
  <2> QED
    BY <1>2, <2>1 DEF TruthInv, RecordsInv, Proven, TypeOK, Messages
<1> QED
  BY <1>1, <1>2 DEF CommittedAt

\* begin: a call that goes on has a record, one that is a duplicate a true location.
LEMMA BeginStepOK ==
    ASSUME TypeOK, TruthInv, NEW c \in Calls, Begin(c) PROVE TypeOK' /\ TruthInv'
<1> DEFINE k == KeyOf[c]
           r == Run(c)
           p == call[c].payload
<1>1. k \in Keys /\ r \in Runs /\ p \in Payloads
  BY RunType DEF TypeOK, Call
<1>2. CASE /\ Conflicts(k, p) /\ journal' = journal /\ raced' = raced
           /\ \E verdict \in Takers(k, p) : Answered(c, verdict, {}, None)
  <2>1. PICK verdict \in Takers(k, p) : Answered(c, verdict, {}, None)
    BY <1>2
  <2>2. verdict \in {"taken", "conflict"}
    BY DEF Takers
  <2>3. verdict \in Verdicts
    BY <2>2 DEF Verdicts
  <2>4. /\ call' \in [Calls -> Call]
        /\ call'[c].phase = "begun" /\ call'[c].verdict = verdict /\ call'[c].ids = {}
        /\ call'[c].payload = call[c].payload
        /\ \A b \in Calls : b # c => call'[b] = call[b]
    <3> DEFINE ids == {}
    <3>1. ids \in SUBSET Ids /\ None \in Ids \union {None}
      OBVIOUS
    <3>2. Answered(c, verdict, ids, None)
      BY <2>1
    <3> HIDE DEF ids
    <3>3. /\ call' \in [Calls -> Call]
          /\ call'[c].phase = "begun" /\ call'[c].verdict = verdict /\ call'[c].ids = ids
          /\ call'[c].payload = call[c].payload
          /\ \A b \in Calls : b # c => call'[b] = call[b]
      BY <2>3, <3>1, <3>2, VerdictType, SMT
    <3> QED
      BY <3>3 DEF ids
  <2>5. TypeOK'
    BY <1>2, <2>4 DEF TypeOK, Begin
  <2>6. CallOK(c)'
    BY <2>2, <2>4 DEF CallOK, Going, Known
  <2> QED
    BY <1>2, <2>4, <2>5, <2>6, QuietStep DEF Begin
<1>3. CASE /\ ~Conflicts(k, p) /\ journal' = journal /\ Race(k)
           /\ \E i \in CommittedAt(k, r) : Answered(c, "duplicate", {}, i)
  <2>1. PICK i \in CommittedAt(k, r) : Answered(c, "duplicate", {}, i)
    BY <1>3
  <2>2. i \in Ids /\ <<p, i>> \in made
    BY <1>1, <1>3, CommittedAtTrue
  <2>3. "duplicate" \in Verdicts
    BY DEF Verdicts
  <2>4. /\ call' \in [Calls -> Call]
        /\ call'[c].phase = "begun" /\ call'[c].verdict = "duplicate" /\ call'[c].ids = {}
        /\ call'[c].payload = call[c].payload /\ call'[c].id = i
        /\ \A b \in Calls : b # c => call'[b] = call[b]
    <3> DEFINE ids == {}
    <3>1. ids \in SUBSET Ids /\ i \in Ids \union {None}
      BY <2>2
    <3>2. Answered(c, "duplicate", ids, i)
      BY <2>1
    <3> HIDE DEF ids
    <3>3. /\ call' \in [Calls -> Call]
          /\ call'[c].phase = "begun" /\ call'[c].verdict = "duplicate" /\ call'[c].ids = ids
          /\ call'[c].payload = call[c].payload /\ call'[c].id = i
          /\ \A b \in Calls : b # c => call'[b] = call[b]
      BY <2>3, <3>1, <3>2, VerdictType, SMT
    <3> QED
      BY <3>3 DEF ids
  <2>5. TypeOK'
    BY <1>1, <1>3, <2>4 DEF TypeOK, Begin, Race
  <2>6. CallOK(c)'
    BY <2>2, <2>4 DEF CallOK, Going, Known, Begin
  <2> QED
    BY <1>3, <2>4, <2>5, <2>6, QuietStep DEF Begin
<1>4. CASE /\ ~Conflicts(k, p) /\ CommittedAt(k, r) = {} /\ raced' = raced
           /\ \E i \in (IF journal[k][r] = None THEN NewId(k, r) ELSE {journal[k][r].id}) :
                /\ Answered(c, "go", {i} \union {journal[k][q].id : q \in Lineage(k, r)}, i)
                /\ journal' = [journal EXCEPT ![k][r] = Begun(journal[k][r], p, i)]
  <2>1. PICK i \in (IF journal[k][r] = None THEN NewId(k, r) ELSE {journal[k][r].id}) :
                /\ Answered(c, "go", {i} \union {journal[k][q].id : q \in Lineage(k, r)}, i)
                /\ journal' = [journal EXCEPT ![k][r] = Begun(journal[k][r], p, i)]
    BY <1>4
  <2>2. RecordsInv
    BY DEF TruthInv
  <2>3. i \in Ids /\ i[1] = k
    <3>1. CASE journal[k][r] = None
      BY <1>1, <2>1, <2>2, <3>1, NewIdType
    <3>2. CASE journal[k][r] # None
      <4>1. i = journal[k][r].id
        BY <2>1, <3>2
      <4>2. journal[k][r].id[1] = k
        BY <1>1, <2>2, <3>2 DEF RecordsInv
      <4> QED
        BY <1>1, <4>1, <4>2, <3>2, RecordType
    <3> QED
      BY <3>1, <3>2
  <2> DEFINE ids == {i} \union {journal[k][q].id : q \in Lineage(k, r)}
  <2>4. \A j \in ids : j \in Ids /\ j[1] = k
    <3>1. \A q \in Lineage(k, r) : journal[k][q].id \in Ids /\ journal[k][q].id[1] = k
      BY <1>1, <2>2, RecordType DEF Lineage, RecordsInv
    <3> QED
      BY <2>3, <3>1
  <2>5. receipts[k] = None
    BY <1>4 DEF CommittedAt
  <2>6. JournalOK /\ journal'[k][r] # None /\ journal'[k][r].payload = p
    <3>1. made' = made
      BY DEF Begin
    <3>2. ~Conflicts(k, p)
      BY <1>4
    <3>3. Recorded(k, r, p, i)
      BY <2>1 DEF Recorded
    <3>4. i \in Ids /\ i[1] = k
      BY <2>3
    <3> HIDE DEF k, r, p
    <3>5. JournalOK /\ journal'[k][r] # None /\ journal'[k][r].payload = p
      BY <1>1, <2>2, <2>5, <3>1, <3>2, <3>3, <3>4, BeginOK, Zenon
    <3> QED
      BY <3>5
  <2>7. "go" \in Verdicts
    BY DEF Verdicts
  <2>8. /\ call' \in [Calls -> Call]
        /\ call'[c].phase = "begun" /\ call'[c].verdict = "go" /\ call'[c].ids = ids
        /\ call'[c].payload = p /\ call'[c].session = call[c].session
        /\ \A b \in Calls : b # c => call'[b] = call[b]
    <3>1. ids \in SUBSET Ids /\ i \in Ids \union {None}
      BY <2>3, <2>4
    <3>2. Answered(c, "go", ids, i)
      BY <2>1
    <3> HIDE DEF ids
    <3> QED
      BY <2>7, <3>1, <3>2, VerdictType, Zenon
  <2> HIDE DEF ids
  <2>9. TypeOK'
    BY <1>4, <2>6, <2>8 DEF TypeOK, Begin, JournalOK
  <2>10. CallOK(c)'
    <3>1. Run(c)' = r
      BY <2>8 DEF Run
    <3> QED
      BY <2>4, <2>6, <2>8, <3>1 DEF CallOK, Going, Known, Owns
  <2>11. /\ rows' = rows /\ made' = made /\ receipts' = receipts /\ session' = session
         /\ sweep' = sweep /\ undo' = undo /\ ack' = ack
    BY DEF Begin
  <2>12. ReceiptsInv' /\ \A a \in Actors : UndoOK(a)'
    BY <2>11, ReceiptsStill, UndosStill
  <2> QED
    BY <2>6, <2>8, <2>9, <2>10, <2>11, <2>12, CallStep
<1> QED
  BY <1>2, <1>3, <1>4 DEF Begin

-----------------------------------------------------------------------------
\* A message that is seen under an id of the call's key is the call's message.
LEMMA SeenIsMade ==
    ASSUME TypeOK, TruthInv, NEW k \in Keys, NEW r \in Runs, NEW p \in Payloads, NEW i \in Ids,
           Owns(k, r, p), i[1] = k, Visible(p, i)
    PROVE  <<p, i>> \in made
<1>1. PICK q \in Payloads : rows[<<q, i>>] > 0
  BY DEF Visible
<1>2. <<q, i>> \in made
  BY <1>1 DEF TruthInv, RowsInv, Messages
<1>3. PICK s \in Runs : journal[k][s] # None /\ journal[k][s].payload = q
  BY <1>2 DEF TruthInv, MadeInv
<1>4. q = p
  BY <1>3 DEF TruthInv, RecordsInv, Owns
<1> QED
  BY <1>2, <1>4

\* A read changes what it says it changes.
LEMMA ReadType ==
    ASSUME TypeOK, NEW k \in Keys, NEW p, NEW ids, NEW i,
           Sees(p, i) \/ Misses(k, p, ids)
    PROVE  misreads' \in 0..MaxMisreads /\ blind' \subseteq Keys
BY DeliveryAssumption DEF TypeOK, Sees, Misses

\* The step of a call that is refused for its sender.
LEMMA RejectedStep ==
    ASSUME TypeOK, TruthInv, NEW c \in Calls, Rejected(c),
           UNCHANGED <<receipts, rows, made, session, sweep>>,
           \A a \in Actors : undo'[a] = undo[a] \/ undo'[a] = None
    PROVE  TruthInv' /\ call' \in [Calls -> Call] /\ ack' = ack
           /\ journal' \in [Keys -> [Runs -> Record \union {None}]]
<1>1. RecordsInv
  BY DEF TruthInv
<1>2. /\ JournalOK /\ call' \in [Calls -> Call] /\ CallOK(c)'
      /\ call'[c].payload = call[c].payload /\ ack' = ack
      /\ \A b \in Calls : b # c => call'[b] = call[b]
  BY <1>1, RejectedOK
<1>3. TruthInv'
  BY <1>2, UndosStill, ReceiptsStill, CallStep
<1> QED
  BY <1>2, <1>3 DEF JournalOK

\* The step of a call that ends without touching the stores.
LEMMA RefuseStep ==
    ASSUME TypeOK, TruthInv, NEW c \in Calls, Refuse(c),
           UNCHANGED <<journal, receipts, rows, made, session, sweep>>,
           \A a \in Actors : undo'[a] = undo[a] \/ undo'[a] = None
    PROVE  TruthInv' /\ call' \in [Calls -> Call] /\ ack' = ack
<1>1. ack' = ack /\ Over(c)
  BY DEF Refuse
<1> QED
  BY <1>1, OverType, QuietStep

\* The step of a call that is told its message is delivered.
LEMMA AnswerStep ==
    ASSUME TypeOK, TruthInv, NEW c \in Calls, Answer(c, call[c].id), Known(c),
           UNCHANGED <<journal, receipts, rows, made, session, sweep>>,
           \A a \in Actors : undo'[a] = undo[a] \/ undo'[a] = None
    PROVE  /\ TruthInv' /\ call' \in [Calls -> Call] /\ call[c].id \in Ids
           /\ ack' \in [Calls -> Ids \union {None}]
<1> DEFINE i == call[c].id
<1>1. <<call[c].payload, i>> \in made
  BY DEF TruthInv, CallOK
<1>2. i \in Ids
  BY <1>1 DEF TypeOK, Messages
<1>3. Over(c) /\ ack' = [ack EXCEPT ![c] = i]
  BY DEF Answer
<1>4. ack' \in [Calls -> Ids \union {None}]
  BY <1>2, <1>3 DEF TypeOK
<1> HIDE DEF i
<1>5. TruthInv'
  <2>1. \E j \in Ids : ack' = [ack EXCEPT ![c] = j] /\ <<call[c].payload, j>> \in made
    BY <1>1, <1>2, <1>3
  <2> QED
    BY <1>3, <2>1, OverType, QuietStep
<1>6. call' \in [Calls -> Call]
  BY <1>3, OverType
<1> QED
  BY <1>2, <1>4, <1>5, <1>6 DEF i

\* Recheck keeps the invariant.
LEMMA RecheckOK ==
    ASSUME TypeOK, TruthInv, NEW c \in Calls, Recheck(c) PROVE TypeOK' /\ TruthInv'
<1>1. CASE Rejected(c)
  <2>1. UNCHANGED <<receipts, rows, made, session, sweep, undo>>
    BY DEF Recheck
  <2>2. /\ TruthInv' /\ call' \in [Calls -> Call] /\ ack' = ack
        /\ journal' \in [Keys -> [Runs -> Record \union {None}]]
    BY <1>1, <2>1, RejectedStep
  <2> QED
    BY <2>2 DEF TypeOK, Recheck
<1>2. CASE Refuse(c) /\ journal' = journal
  <2>1. UNCHANGED <<journal, receipts, rows, made, session, sweep, undo>>
    BY <1>2 DEF Recheck
  <2>2. TruthInv' /\ call' \in [Calls -> Call] /\ ack' = ack
    BY <1>2, <2>1, RefuseStep
  <2> QED
    BY <2>1, <2>2 DEF TypeOK, Recheck
<1>3. CASE journal' = journal /\ call[c].verdict = "duplicate" /\ Answer(c, call[c].id)
  <2>1. UNCHANGED <<journal, receipts, rows, made, session, sweep, undo>>
    BY <1>3 DEF Recheck
  <2>2. Known(c)
    BY <1>3 DEF Recheck, Known
  <2>3. TruthInv' /\ call' \in [Calls -> Call] /\ ack' \in [Calls -> Ids \union {None}]
    BY <1>3, <2>1, <2>2, AnswerStep
  <2> QED
    BY <2>1, <2>3 DEF TypeOK, Recheck
<1>4. CASE journal' = journal /\ call[c].verdict = "go" /\ To(c, "looking") /\ ack' = ack
  <2>1. UNCHANGED <<journal, receipts, rows, made, session, sweep, undo>>
    BY <1>4 DEF Recheck
  <2>2. "looking" \in Phases
    BY DEF Phases
  <2>3. /\ call' \in [Calls -> Call]
        /\ call'[c].phase = "looking" /\ call'[c].session = call[c].session
        /\ call'[c].payload = call[c].payload /\ call'[c].ids = call[c].ids
        /\ \A b \in Calls : b # c => call'[b] = call[b]
    BY <1>4, <2>2, ToType
  <2>4. CallOK(c)'
    <3>1. Going(c) /\ CallOK(c)
      BY <1>4 DEF Recheck, Going, TruthInv
    <3> QED
      BY <2>1, <2>3, <3>1 DEF CallOK, Going, Known, Owns, Run
  <2>5. TypeOK'
    BY <1>4, <2>1, <2>3 DEF TypeOK, Recheck
  <2> QED
    BY <1>4, <2>1, <2>3, <2>4, <2>5, QuietStep
<1> QED
  BY <1>1, <1>2, <1>3, <1>4 DEF Recheck

\* A call that is about to commit what a read has seen.
LEMMA LookOK ==
    ASSUME TypeOK, TruthInv, NEW c \in Calls, Look(c) PROVE TypeOK' /\ TruthInv'
<1> DEFINE k == KeyOf[c]
           p == call[c].payload
<1>1. k \in Keys /\ Run(c) \in Runs /\ call[c] \in Call /\ p \in Payloads
  BY RunType DEF TypeOK, Call
<1>2. CallOK(c) /\ Going(c) /\ Owns(k, Run(c), p)
  BY DEF TruthInv, Look, Going, CallOK
<1>3. UNCHANGED <<receipts, rows, made, session, sweep, undo>>
  BY DEF Look
<1>4. /\ misreads' \in 0..MaxMisreads /\ blind' \subseteq Keys
  <2>1. CASE \E i \in call[c].ids : Sees(p, i)
    BY <2>1 DEF TypeOK, Sees
  <2>2. CASE Misses(k, p, call[c].ids)
    BY <1>1, <2>2, ReadType
  <2>3. CASE misreads < MaxMisreads /\ misreads' = misreads + 1 /\ blind' = blind
    BY <2>3, DeliveryAssumption DEF TypeOK
  <2> QED
    BY <2>1, <2>2, <2>3 DEF Look
<1>5. CASE Rejected(c)
  <2>1. /\ TruthInv' /\ call' \in [Calls -> Call] /\ ack' = ack
        /\ journal' \in [Keys -> [Runs -> Record \union {None}]]
    BY <1>3, <1>5, RejectedStep
  <2> QED
    BY <1>4, <2>1 DEF TypeOK, Look
<1>6. CASE Refuse(c) /\ journal' = journal
  <2>1. TruthInv' /\ call' \in [Calls -> Call] /\ ack' = ack
    BY <1>3, <1>6, RefuseStep
  <2> QED
    BY <1>4, <1>6, <2>1 DEF TypeOK, Look
<1>7. CASE /\ UNCHANGED <<journal, ack>>
           /\ \E i \in call[c].ids :
                /\ Sees(p, i)
                /\ call' = [call EXCEPT ![c].phase = "committing", ![c].id = i,
                                        ![c].ids = @ \ {i}]
  <2>1. PICK i \in call[c].ids :
           /\ Sees(p, i)
           /\ call' = [call EXCEPT ![c].phase = "committing", ![c].id = i, ![c].ids = @ \ {i}]
    BY <1>7
  <2>2. i \in Ids /\ i[1] = k
    BY <1>1, <1>2 DEF Call, CallOK
  <2>3. <<p, i>> \in made
    <3>1. Visible(p, i)
      BY <2>1 DEF Sees
    <3> HIDE DEF k, p
    <3> QED
      BY <1>1, <1>2, <2>2, <3>1, SeenIsMade
  <2>4. /\ call'[c] \in Call /\ call'[c].phase = "committing" /\ call'[c].id = i
        /\ call'[c].ids = call[c].ids \ {i} /\ call'[c].payload = p
        /\ call'[c].session = call[c].session
    BY <1>1, <2>1, <2>2 DEF Call, Phases, TypeOK
  <2>5. call' \in [Calls -> Call] /\ \A b \in Calls : b # c => call'[b] = call[b]
    <3>1. call' = [call EXCEPT ![c] = call'[c]]
      BY <2>1 DEF TypeOK
    <3> QED
      BY <3>1, <2>4 DEF TypeOK
  <2>6. CallOK(c)'
    BY <1>2, <1>3, <1>7, <2>2, <2>3, <2>4 DEF CallOK, Going, Known, Owns, Run
  <2>7. TypeOK'
    BY <1>4, <1>7, <2>5 DEF TypeOK, Look
  <2> QED
    BY <1>3, <1>7, <2>4, <2>5, <2>6, <2>7, QuietStep
<1>8. CASE /\ UNCHANGED <<journal, ack>>
           /\ call' = [call EXCEPT ![c].phase = "unseen", ![c].ids = {}]
  <2>1. /\ call'[c] \in Call /\ call'[c].phase = "unseen"
        /\ call'[c].ids = {} /\ call'[c].payload = p
        /\ call'[c].session = call[c].session
    BY <1>1, <1>8 DEF Call, Phases, TypeOK
  <2>2. call' \in [Calls -> Call] /\ \A b \in Calls : b # c => call'[b] = call[b]
    BY <1>8, <2>1 DEF TypeOK
  <2>3. CallOK(c)'
    BY <1>2, <1>3, <1>8, <2>1 DEF CallOK, Going, Known, Owns, Run
  <2>4. TypeOK'
    BY <1>4, <1>8, <2>2 DEF TypeOK, Look
  <2> QED
    BY <1>3, <1>8, <2>1, <2>2, <2>3, <2>4, QuietStep
<1> QED
  BY <1>5, <1>6, <1>7, <1>8 DEF Look

\* A call that is about to write: the session was looked at just now.
LEMMA ArmOK ==
    ASSUME TypeOK, TruthInv, NEW c \in Calls, Arm(c) PROVE TypeOK' /\ TruthInv'
<1> DEFINE i == journal[KeyOf[c]][Run(c)].id
<1>1. KeyOf[c] \in Keys /\ Run(c) \in Runs /\ call[c] \in Call
  BY RunType DEF TypeOK
<1>2. CallOK(c) /\ Going(c) /\ Owns(KeyOf[c], Run(c), call[c].payload)
  BY DEF TruthInv, Arm, Going, CallOK
<1>3. UNCHANGED <<receipts, rows, made, session, sweep, undo>>
  BY DEF Arm
<1>4. CASE Rejected(c)
  <2>1. /\ TruthInv' /\ call' \in [Calls -> Call] /\ ack' = ack
        /\ journal' \in [Keys -> [Runs -> Record \union {None}]]
    BY <1>3, <1>4, RejectedStep
  <2> QED
    BY <2>1 DEF TypeOK, Arm
<1>5. CASE /\ ~Stale(c) /\ UNCHANGED <<journal, ack>>
           /\ call' = [call EXCEPT ![c].phase = "armed", ![c].id = i]
  <2>1. i \in Ids
    BY <1>1, <1>2, RecordType DEF Owns
  <2> HIDE DEF i
  <2>2. /\ call'[c] \in Call /\ call'[c].phase = "armed" /\ call'[c].id = i
        /\ call'[c].ids = call[c].ids /\ call'[c].payload = call[c].payload
        /\ call'[c].session = call[c].session
    BY <1>1, <1>5, <2>1 DEF Call, Phases, TypeOK
  <2>3. call' \in [Calls -> Call] /\ \A b \in Calls : b # c => call'[b] = call[b]
    BY <1>5, <2>2 DEF TypeOK
  <2>4. call[c].session = session
    BY <1>5 DEF Stale, Superseded
  <2>5. CallOK(c)'
    BY <1>2, <1>3, <1>5, <2>2, <2>4 DEF CallOK, Going, Known, Owns, Run, i
  <2>6. TypeOK'
    BY <1>5, <2>3 DEF TypeOK, Arm
  <2> QED
    BY <1>3, <1>5, <2>2, <2>3, <2>5, <2>6, QuietStep
<1> QED
  BY <1>4, <1>5 DEF Arm

\* The row a write makes is that of the call's own record.
LEMMA WriteOK ==
    ASSUME TypeOK, TruthInv, NEW c \in Calls, Write(c) PROVE TypeOK' /\ TruthInv'
<1> DEFINE k == KeyOf[c]
           p == call[c].payload
           m == <<p, call[c].id>>
<1>1. k \in Keys /\ Run(c) \in Runs /\ call[c] \in Call /\ p \in Payloads
  BY RunType DEF TypeOK, Call
<1>2. CallOK(c) /\ Owns(k, Run(c), p) /\ call[c].id = journal[k][Run(c)].id
  BY DEF TruthInv, Write, Going, CallOK
<1>3. call[c].id \in Ids /\ m \in Messages
  BY <1>1, <1>2, RecordType DEF Owns, Messages
<1>4. UNCHANGED <<journal, receipts, ack, session, sweep, undo>>
  BY DEF Write
<1>5. \/ rows' = rows /\ made' = made
      \/ rows' = [rows EXCEPT ![m] = @ + 1] /\ made' = made \union {m}
  BY DEF Write
<1>6. rows' \in [Messages -> Nat] /\ made' \subseteq Messages /\ made \subseteq made'
  BY <1>3, <1>5 DEF TypeOK
<1>7. RowsInv'
  BY <1>3, <1>5 DEF RowsInv, TruthInv, TypeOK
<1>8. /\ call'[c] \in Call /\ call'[c].phase \in {"written", "failing"}
      /\ call'[c].ids = call[c].ids /\ call'[c].payload = p
      /\ call'[c].session = call[c].session /\ call'[c].id = call[c].id
  BY <1>1 DEF Call, Phases, Verdicts, TypeOK, Write, To
<1>9. \A b \in Calls : b # c => call'[b] = call[b]
  BY DEF TypeOK, Write, To
<1>10. call' \in [Calls -> Call]
  <2>1. call' = [call EXCEPT ![c] = call'[c]]
    BY DEF TypeOK, Write, To
  <2> QED
    BY <2>1, <1>8 DEF TypeOK
<1>11. TypeOK'
  BY <1>4, <1>6, <1>10 DEF TypeOK, Write
<1>12. JournalOK /\ Kept
  BY <1>4, <1>6, JournalStill DEF TruthInv, JournalOK
<1>13. MadeInv'
  <2> SUFFICES ASSUME NEW n \in made'
               PROVE  \E r \in Runs : LET record == journal'[n[2][1]][r] IN
                          record # None /\ record.payload = n[1] /\ record.id = n[2]
    BY DEF MadeInv
  <2>1. CASE n \in made
    BY <2>1, <1>12, MadeStill DEF TruthInv
  <2>2. CASE n = m
    <3>1. call[c].id[1] = k
      BY <1>1, <1>2 DEF TruthInv, RecordsInv, Owns
    <3> QED
      BY <2>2, <3>1, <1>1, <1>2, <1>4 DEF Owns
  <2> QED
    BY <2>1, <2>2, <1>5
<1>14. CallOK(c)'
  BY <1>2, <1>4, <1>8 DEF CallOK, Going, Known, Owns, Run
<1>15. \A b \in Calls : CallOK(b)'
  BY <1>4, <1>6, <1>9, <1>12, <1>14, CallStill DEF TruthInv
<1>16. SweepOK'
  BY <1>4, <1>6, <1>12, SweepStill DEF TruthInv
<1>17. \A a \in Actors : UndoOK(a)'
  BY <1>4, <1>6, UndoStill DEF TruthInv
<1>18. ReceiptsInv' /\ RecordsInv'
  BY <1>4, <1>6, <1>12 DEF TruthInv, ReceiptsInv, JournalOK
<1>19. AnswersAreTrue'
  <2> SUFFICES ASSUME NEW b \in Calls, ack'[b] # None
               PROVE  <<call'[b].payload, ack'[b]>> \in made'
    BY DEF AnswersAreTrue
  <2>1. call'[b].payload = call[b].payload
    BY <1>8, <1>9
  <2>2. <<call[b].payload, ack[b]>> \in made
    BY <1>4 DEF TruthInv, AnswersAreTrue
  <2> QED
    BY <2>1, <2>2, <1>4, <1>6
<1> QED
  BY <1>7, <1>11, <1>13, <1>15, <1>16, <1>17, <1>18, <1>19 DEF TruthInv

\* What is read back under the record's id is the message of the call.
LEMMA ReadBackOK ==
    ASSUME TypeOK, TruthInv, NEW c \in Calls, ReadBack(c) PROVE TypeOK' /\ TruthInv'
<1> DEFINE k == KeyOf[c]
           p == call[c].payload
           i == call[c].id
<1>1. k \in Keys /\ Run(c) \in Runs /\ call[c] \in Call /\ p \in Payloads
  BY RunType DEF TypeOK, Call
<1>2. CallOK(c) /\ Owns(k, Run(c), p) /\ i = journal[k][Run(c)].id
  BY DEF TruthInv, ReadBack, Going, CallOK
<1>3. i \in Ids /\ i[1] = k
  BY <1>1, <1>2, RecordType DEF Owns, TruthInv, RecordsInv
<1>4. UNCHANGED <<journal, receipts, rows, ack, made, session, sweep, undo>>
  BY DEF ReadBack, stores
<1>5. misreads' \in 0..MaxMisreads /\ blind' \subseteq Keys
  BY <1>1, DeliveryAssumption DEF ReadBack, TypeOK, Sees, Misses
<1>6. CASE Sees(p, i) /\ call' = [call EXCEPT ![c].phase = "committing", ![c].wrote = TRUE]
  <2>1. <<p, i>> \in made
    <3>1. Visible(p, i)
      BY <1>6 DEF Sees
    <3> HIDE DEF k, p, i
    <3> QED
      BY <1>1, <1>2, <1>3, <3>1, SeenIsMade
  <2>2. /\ call'[c] \in Call /\ call'[c].phase = "committing" /\ call'[c].id = i
        /\ call'[c].ids = call[c].ids /\ call'[c].payload = p
        /\ call'[c].session = call[c].session
    BY <1>1, <1>6 DEF Call, Phases, TypeOK
  <2>3. call' \in [Calls -> Call] /\ \A b \in Calls : b # c => call'[b] = call[b]
    BY <1>6, <2>2 DEF TypeOK
  <2>4. CallOK(c)'
    BY <1>2, <1>4, <2>1, <2>2 DEF CallOK, Going, Known, Owns, Run
  <2>5. TypeOK'
    BY <1>4, <1>5, <2>3 DEF TypeOK, ReadBack
  <2> QED
    BY <1>4, <2>2, <2>3, <2>4, <2>5, QuietStep
<1>7. CASE \E verdict \in {"error", "unverified"} :
             call' = [call EXCEPT ![c].phase = "failing", ![c].verdict = verdict]
  <2> PICK verdict \in {"error", "unverified"} :
             call' = [call EXCEPT ![c].phase = "failing", ![c].verdict = verdict]
    BY <1>7
  <2>1. /\ call'[c] \in Call /\ call'[c].phase = "failing"
        /\ call'[c].ids = call[c].ids /\ call'[c].payload = p
    BY <1>1 DEF Call, Phases, Verdicts, TypeOK
  <2>2. call' \in [Calls -> Call] /\ \A b \in Calls : b # c => call'[b] = call[b]
    BY <2>1 DEF TypeOK
  <2>3. CallOK(c)'
    BY <1>2, <2>1 DEF CallOK, Going, Known
  <2>4. TypeOK'
    BY <1>4, <1>5, <2>2 DEF TypeOK, ReadBack
  <2> QED
    BY <1>4, <2>1, <2>2, <2>3, <2>4, QuietStep
<1> QED
  BY <1>6, <1>7 DEF ReadBack

\* The commit of a call is that of a message that was seen.
LEMMA CommitDeliveryOK ==
    ASSUME TypeOK, TruthInv, NEW c \in Calls, CommitDelivery(c)
    PROVE  /\ TypeOK' /\ TruthInv'
           /\ undo'[c] # None /\ \A b \in Actors : b # c => undo'[b] = undo[b]
           /\ receipts'[KeyOf[c]] # None
<1> DEFINE k == KeyOf[c]
           r == Run(c)
           p == call[c].payload
           i == call[c].id
<1>1. k \in Keys /\ r \in Runs /\ call[c] \in Call /\ p \in Payloads /\ c \in Actors
  BY RunType DEF TypeOK, Call, Actors
<1>2. CallOK(c) /\ Owns(k, r, p) /\ <<p, i>> \in made
  BY DEF TruthInv, CommitDelivery, Going, Known, CallOK
<1>3. i \in Ids
  BY <1>2 DEF TypeOK, Messages
<1>4. UNCHANGED <<session, running, rows, sweep, ack, made, blind, misreads, trims, crashes>>
  BY DEF CommitDelivery
<1>5. /\ JournalOK
      /\ ReceiptsInv' /\ receipts' \in [Keys -> Receipt \union {None}]
      /\ \A b \in Actors : UndoOK(b)'
      /\ undo' \in [Actors -> Undo \union {None}]
      /\ undo'[c] # None /\ \A b \in Actors : b # c => undo'[b] = undo[b]
      /\ receipts'[k] # None
      /\ raced' \subseteq raced \union {k}
  <2>1. journal[k][r] # None /\ <<journal[k][r].payload, i>> \in made
    BY <1>2 DEF Owns
  <2>2. Commit(c, k, r, i) /\ made' = made
    BY DEF CommitDelivery
  <2>3. RecordsInv /\ ReceiptsInv /\ \A a \in Actors : UndoOK(a)
    BY DEF TruthInv
  <2> HIDE DEF k, r, i
  <2> QED
    BY <1>1, <1>3, <2>1, <2>2, <2>3, CommitOK
<1>6. /\ call' \in [Calls -> Call] /\ call'[c].phase = "confirming"
      /\ call'[c].session = call[c].session /\ call'[c].payload = p
      /\ call'[c].ids = call[c].ids /\ call'[c].id = i
      /\ \A b \in Calls : b # c => call'[b] = call[b]
  <2>1. "confirming" \in Phases /\ To(c, "confirming")
    BY DEF Phases, CommitDelivery
  <2> QED
    BY <2>1, ToType
<1>7. CallOK(c)'
  <2>1. Owns(k, r, p)'
    BY <1>1, <1>2, <1>5, <1>6 DEF JournalOK, Kept, Owns, Run
  <2> QED
    BY <1>2, <1>4, <1>6, <2>1 DEF CallOK, Going, Known, Run
<1>8. TypeOK'
  BY <1>1, <1>4, <1>5, <1>6 DEF TypeOK, JournalOK
<1> QED
  BY <1>4, <1>5, <1>6, <1>7, <1>8, CallStep

\* A journal that fails changes the call, and drops what is to be confirmed of it.
LEMMA JournalFailsOK ==
    ASSUME TypeOK, TruthInv, NEW c \in Calls, JournalFails(c) PROVE TypeOK' /\ TruthInv'
<1>1. /\ UNCHANGED <<session, running, journal, receipts, rows, sweep,
                     made, blind, raced, misreads, trims, crashes>>
      /\ undo' \in [Actors -> Undo \union {None}]
      /\ \A a \in Actors : undo'[a] = undo[a] \/ undo'[a] = None
  BY DEF JournalFails, stores, TypeOK
<1>2. CASE Refuse(c)
  <2>1. TruthInv' /\ call' \in [Calls -> Call] /\ ack' = ack
    BY <1>1, <1>2, RefuseStep
  <2> QED
    BY <1>1, <2>1 DEF TypeOK
<1>3. CASE ack' = ack /\ call' = [call EXCEPT ![c].phase = "failing", ![c].verdict = "error"]
  <2>1. call[c] \in Call /\ CallOK(c)
    BY DEF TypeOK, TruthInv
  <2>2. /\ call'[c] \in Call /\ call'[c].phase = "failing"
        /\ call'[c].ids = call[c].ids /\ call'[c].payload = call[c].payload
    BY <1>3, <2>1 DEF Call, Phases, Verdicts, TypeOK
  <2>3. call' \in [Calls -> Call] /\ \A b \in Calls : b # c => call'[b] = call[b]
    BY <1>3, <2>2 DEF TypeOK
  <2>4. CallOK(c)'
    BY <2>1, <2>2 DEF CallOK, Going, Known
  <2>5. TypeOK'
    BY <1>1, <1>3, <2>3 DEF TypeOK
  <2> QED
    BY <1>1, <1>3, <2>2, <2>3, <2>4, <2>5, QuietStep
<1> QED
  BY <1>2, <1>3 DEF JournalFails

-----------------------------------------------------------------------------
\* Unconfirmed commits are those of the calls, and of the reconciler, in "confirming".
Pending ==
    /\ \A c \in Calls : undo[c] # None <=> call[c].phase = "confirming"
    /\ undo[Sweeper] # None <=> (sweep # None /\ sweep.phase = "confirming")

\* Confirm answers with a message that was made, or puts the records back.
LEMMA ConfirmOK ==
    ASSUME TypeOK, TruthInv, Pending, NEW c \in Calls, Confirm(c) PROVE TypeOK' /\ TruthInv'
<1> DEFINE k == KeyOf[c]
           p == call[c].payload
<1>1. /\ k \in Keys /\ Run(c) \in Runs /\ call[c] \in Call /\ p \in Payloads /\ c \in Actors
      /\ undo[c] # None
  BY RunType DEF TypeOK, Call, Actors, Pending, Confirm
<1>2. CallOK(c) /\ Owns(k, Run(c), p) /\ Known(c)
  BY DEF TruthInv, Confirm, Going, Known, CallOK
<1>3. UNCHANGED <<session, running, rows, sweep, made, raced, trims, crashes>>
  BY DEF Confirm
<1>4. misreads' \in 0..MaxMisreads /\ blind' \subseteq Keys
  BY <1>1, ReadType DEF Confirm
<1>5. /\ undo' \in [Actors -> Undo \union {None}]
      /\ \A a \in Actors : undo'[a] = undo[a] \/ undo'[a] = None
  BY DEF TypeOK, Confirm
<1>6. CASE Answer(c, call[c].id) /\ UNCHANGED <<journal, receipts>>
  <2>1. /\ TruthInv' /\ call' \in [Calls -> Call]
        /\ ack' \in [Calls -> Ids \union {None}]
    BY <1>2, <1>3, <1>5, <1>6, AnswerStep
  <2> QED
    BY <1>3, <1>4, <1>5, <1>6, <2>1 DEF TypeOK
<1>7. CASE /\ Rollback(c, k) /\ ack' = ack
           /\ IF call[c].wrote
              THEN call' = [call EXCEPT ![c].phase = "failing", ![c].verdict = "unverified"]
              ELSE To(c, IF call[c].ids = {} THEN "unseen" ELSE "looking")
  <2>1. JournalOK /\ ReceiptsInv' /\ receipts' \in [Keys -> Receipt \union {None}]
    <3>1. RecordsInv /\ ReceiptsInv /\ UndoOK(c) /\ made' = made /\ Rollback(c, k)
      BY <1>1, <1>3, <1>7 DEF TruthInv
    <3> HIDE DEF k
    <3> QED
      BY <1>1, <3>1, RollbackOK
  <2>2. /\ call'[c] \in Call /\ call'[c].phase \in {"failing", "unseen", "looking"}
        /\ call'[c].ids = call[c].ids /\ call'[c].payload = p
        /\ call'[c].session = call[c].session
    BY <1>1, <1>7 DEF Call, Phases, Verdicts, TypeOK, To
  <2>3. call' \in [Calls -> Call] /\ \A b \in Calls : b # c => call'[b] = call[b]
    <3>1. CASE call[c].wrote
      BY <1>7, <2>2, <3>1 DEF TypeOK
    <3>2. CASE ~call[c].wrote
      BY <1>7, <2>2, <3>2 DEF TypeOK, To
    <3> QED
      BY <3>1, <3>2
  <2>4. CallOK(c)'
    <3>1. Owns(k, Run(c), p)'
      BY <1>1, <1>2, <2>1, <2>2 DEF JournalOK, Kept, Owns, Run
    <3> QED
      BY <1>2, <2>2, <3>1 DEF CallOK, Going, Known, Run
  <2>5. \A a \in Actors : UndoOK(a)'
    BY <1>3, <1>5, UndosStill
  <2>6. TypeOK'
    BY <1>3, <1>4, <1>5, <1>7, <2>1, <2>3 DEF TypeOK, JournalOK
  <2> QED
    BY <1>3, <1>7, <2>1, <2>2, <2>3, <2>4, <2>5, <2>6, CallStep
<1> QED
  BY <1>6, <1>7 DEF Confirm

\* The handler of what went wrong changes the status of the record only.
LEMMA FailOK ==
    ASSUME TypeOK, TruthInv, NEW c \in Calls, Fail(c) PROVE TypeOK' /\ TruthInv'
<1>1. UNCHANGED <<session, running, receipts, rows, sweep, undo,
                  made, blind, raced, misreads, trims, crashes>>
  BY DEF Fail
<1>2. CASE Rejected(c)
  <2>1. /\ TruthInv' /\ call' \in [Calls -> Call] /\ ack' = ack
        /\ journal' \in [Keys -> [Runs -> Record \union {None}]]
    BY <1>1, <1>2, RejectedStep
  <2> QED
    BY <1>1, <2>1 DEF TypeOK
<1>3. CASE Refuse(c) /\ journal' = journal
  <2>1. TruthInv' /\ call' \in [Calls -> Call] /\ ack' = ack
    BY <1>1, <1>3, RefuseStep
  <2> QED
    BY <1>1, <1>3, <2>1 DEF TypeOK
<1>4. CASE Refuse(c) /\ MarkFailed(c, "failed_retryable")
  <2>1. JournalOK
    BY <1>1, <1>4, MarkFailedOK DEF TruthInv
  <2>2. /\ call' \in [Calls -> Call] /\ call'[c].payload = call[c].payload /\ CallOK(c)'
        /\ \A b \in Calls : b # c => call'[b] = call[b]
        /\ ack' = ack
    BY <1>4, OverType DEF Refuse
  <2>3. ReceiptsInv' /\ \A a \in Actors : UndoOK(a)'
    BY <1>1, ReceiptsStill, UndosStill
  <2>4. TypeOK'
    BY <1>1, <2>1, <2>2 DEF TypeOK, JournalOK
  <2> QED
    BY <1>1, <2>1, <2>2, <2>3, <2>4, CallStep
<1> QED
  BY <1>2, <1>3, <1>4 DEF Fail

-----------------------------------------------------------------------------
\* The steps of the reconciler.

\* The step of the reconciler, in parts: the rest of the invariant follows.
LEMMA SweepStep ==
    ASSUME TypeOK, TruthInv, JournalOK, ReceiptsInv', SweepOK',
           UNCHANGED <<call, rows, made, session, ack>>, \A a \in Actors : UndoOK(a)'
    PROVE  TruthInv'
<1>1. Kept /\ RecordsInv'
  BY DEF JournalOK
<1>2. RowsInv'
  BY DEF RowsInv, TruthInv
<1>3. MadeInv'
  BY <1>1, MadeStill DEF MadeInv, TruthInv
<1>4. \A b \in Calls : CallOK(b)'
  BY <1>1, CallStill DEF TruthInv
<1>5. AnswersAreTrue'
  BY DEF AnswersAreTrue, TruthInv
<1> QED
  BY <1>1, <1>2, <1>3, <1>4, <1>5 DEF TruthInv

\* The reconciler starts from a record of the journal.
LEMMA ReconcileOK ==
    ASSUME TypeOK, TruthInv, NEW k \in Keys, NEW r \in Runs, Reconcile(k, r)
    PROVE  TypeOK' /\ TruthInv'
<1> DEFINE record == journal[k][r]
<1>1. /\ record # None /\ record.payload \in Payloads /\ record.id \in Ids
      /\ sweep' = [phase |-> "looking", key |-> k, run |-> r,
                   payload |-> record.payload, id |-> record.id]
  BY RecordType DEF Reconcile
<1>2. record.id[1] = k
  BY <1>1 DEF TruthInv, RecordsInv
<1>3. UNCHANGED <<session, running, journal, receipts, rows, call, undo,
                  ack, made, blind, raced, misreads, trims, crashes>>
  BY DEF Reconcile, stores
<1>4. sweep' \in Sweep
  BY <1>1 DEF Sweep
<1>5. SweepOK'
  BY <1>1, <1>2, <1>3 DEF SweepOK, Owns
<1>6. TypeOK'
  BY <1>3, <1>4 DEF TypeOK
<1>7. JournalOK /\ ReceiptsInv' /\ \A a \in Actors : UndoOK(a)'
  BY <1>3, JournalStill, ReceiptsStill, UndosStill DEF TruthInv
<1> QED
  BY <1>3, <1>5, <1>6, <1>7, SweepStep

\* What the reconciler sees is the message of its record.
LEMMA ReconcileLookOK ==
    ASSUME TypeOK, TruthInv, ReconcileLook PROVE TypeOK' /\ TruthInv'
<1> DEFINE k == sweep.key
           r == sweep.run
           p == sweep.payload
           i == sweep.id
<1>1. sweep \in Sweep /\ k \in Keys /\ r \in Runs /\ p \in Payloads /\ i \in Ids
  BY DEF TypeOK, Sweep, ReconcileLook
<1>2. Owns(k, r, p) /\ i[1] = k
  BY DEF TruthInv, SweepOK, ReconcileLook
<1>3. UNCHANGED <<session, running, journal, receipts, rows, call, undo,
                  ack, made, raced, trims, crashes>>
  BY DEF ReconcileLook, stores
<1>4. misreads' \in 0..MaxMisreads /\ blind' \subseteq Keys
  BY <1>1, ReadType DEF ReconcileLook
<1>5. JournalOK /\ ReceiptsInv' /\ \A a \in Actors : UndoOK(a)'
  BY <1>3, JournalStill, ReceiptsStill, UndosStill DEF TruthInv
<1>6. CASE Sees(p, i) /\ sweep' = [sweep EXCEPT !.phase = "committing"]
  <2>1. <<p, i>> \in made
    <3>1. Visible(p, i)
      BY <1>6 DEF Sees
    <3> HIDE DEF k, r, p, i
    <3> QED
      BY <1>1, <1>2, <3>1, SeenIsMade
  <2>2. /\ sweep' \in Sweep /\ sweep'.key = k /\ sweep'.run = r
        /\ sweep'.payload = p /\ sweep'.id = i
    BY <1>1, <1>6 DEF Sweep
  <2>3. SweepOK'
    BY <1>2, <1>3, <2>1, <2>2 DEF SweepOK, Owns
  <2>4. TypeOK'
    BY <1>3, <1>4, <2>2 DEF TypeOK
  <2> QED
    BY <1>3, <1>5, <2>3, <2>4, SweepStep
<1>7. CASE sweep' = None
  <2>1. SweepOK'
    BY <1>7 DEF SweepOK
  <2>2. TypeOK'
    BY <1>3, <1>4, <1>7 DEF TypeOK
  <2> QED
    BY <1>3, <1>5, <2>1, <2>2, SweepStep
<1> QED
  BY <1>6, <1>7 DEF ReconcileLook

\* The commit of the reconciler is that of a message that was seen.
LEMMA ReconcileCommitOK ==
    ASSUME TypeOK, TruthInv, ReconcileCommit
    PROVE  /\ TypeOK' /\ TruthInv'
           /\ undo'[Sweeper] # None /\ \A c \in Calls : undo'[c] = undo[c]
           /\ receipts'[sweep.key] # None /\ sweep'.key = sweep.key
<1> DEFINE k == sweep.key
           r == sweep.run
           p == sweep.payload
           i == sweep.id
<1>1. /\ sweep \in Sweep /\ k \in Keys /\ r \in Runs /\ p \in Payloads /\ i \in Ids
      /\ Sweeper \in Actors
  BY DEF TypeOK, Sweep, ReconcileCommit, Actors
<1>2. Owns(k, r, p) /\ i[1] = k /\ <<p, i>> \in made
  BY DEF TruthInv, SweepOK, ReconcileCommit
<1>3. UNCHANGED <<session, running, rows, call, ack, made, blind, misreads, trims, crashes>>
  BY DEF ReconcileCommit
<1>4. /\ JournalOK
      /\ ReceiptsInv' /\ receipts' \in [Keys -> Receipt \union {None}]
      /\ \A b \in Actors : UndoOK(b)'
      /\ undo' \in [Actors -> Undo \union {None}]
      /\ undo'[Sweeper] # None /\ \A c \in Actors : c # Sweeper => undo'[c] = undo[c]
      /\ receipts'[k] # None
      /\ raced' \subseteq raced \union {k}
  <2>1. journal[k][r] # None /\ <<journal[k][r].payload, i>> \in made
    BY <1>2 DEF Owns
  <2>2. Commit(Sweeper, k, r, i) /\ made' = made
    BY DEF ReconcileCommit
  <2>3. RecordsInv /\ ReceiptsInv /\ \A a \in Actors : UndoOK(a)
    BY DEF TruthInv
  <2> HIDE DEF k, r, i
  <2> QED
    BY <1>1, <2>1, <2>2, <2>3, CommitOK
<1>5. /\ sweep' \in Sweep /\ sweep'.key = k /\ sweep'.run = r
      /\ sweep'.payload = p /\ sweep'.id = i
  BY <1>1 DEF Sweep, ReconcileCommit
<1>6. SweepOK'
  BY <1>1, <1>2, <1>3, <1>4, <1>5 DEF SweepOK, Owns, JournalOK, Kept
<1>7. TypeOK'
  BY <1>1, <1>3, <1>4, <1>5 DEF TypeOK, JournalOK
<1>8. \A c \in Calls : undo'[c] = undo[c]
  BY <1>4, DeliveryAssumption DEF Actors
<1> QED
  BY <1>3, <1>4, <1>5, <1>6, <1>7, <1>8, SweepStep

\* The reconciler confirms its commit, or puts the records back.
LEMMA ReconcileConfirmOK ==
    ASSUME TypeOK, TruthInv, Pending, ReconcileConfirm PROVE TypeOK' /\ TruthInv'
<1> DEFINE k == sweep.key
<1>1. /\ sweep \in Sweep /\ k \in Keys /\ Sweeper \in Actors /\ undo[Sweeper] # None
  BY DEF TypeOK, Sweep, ReconcileConfirm, Actors, Pending
<1>2. UNCHANGED <<session, running, rows, call, ack, made, raced, trims, crashes>>
  BY DEF ReconcileConfirm
<1>3. misreads' \in 0..MaxMisreads /\ blind' \subseteq Keys
  BY <1>1, ReadType DEF ReconcileConfirm
<1>4. /\ undo' \in [Actors -> Undo \union {None}]
      /\ \A a \in Actors : undo'[a] = undo[a] \/ undo'[a] = None
  BY DEF TypeOK, ReconcileConfirm
<1>5. JournalOK /\ ReceiptsInv' /\ receipts' \in [Keys -> Receipt \union {None}]
  <2>1. CASE UNCHANGED <<journal, receipts>>
    BY <1>2, <2>1, JournalStill, ReceiptsStill DEF TruthInv, TypeOK
  <2>2. CASE Rollback(Sweeper, k)
    <3>1. RecordsInv /\ ReceiptsInv /\ UndoOK(Sweeper) /\ made' = made
      BY <1>1, <1>2 DEF TruthInv
    <3> HIDE DEF k
    <3> QED
      BY <1>1, <2>2, <3>1, RollbackOK
  <2> QED
    BY <2>1, <2>2 DEF ReconcileConfirm
<1>6. sweep' = None /\ SweepOK'
  BY DEF SweepOK, ReconcileConfirm
<1>7. \A a \in Actors : UndoOK(a)'
  BY <1>2, <1>4, UndosStill
<1>8. TypeOK'
  BY <1>2, <1>3, <1>4, <1>5, <1>6 DEF TypeOK, JournalOK
<1> QED
  BY <1>2, <1>5, <1>6, <1>7, <1>8, SweepStep

\* A journal that fails under the reconciler ends the sweep and nothing else.
LEMMA ReconcileFailsOK ==
    ASSUME TypeOK, TruthInv, ReconcileFails PROVE TypeOK' /\ TruthInv'
<1>1. UNCHANGED <<session, running, journal, receipts, rows, call, ack,
                  made, blind, raced, misreads, trims, crashes>>
  BY DEF ReconcileFails, stores
<1>2. /\ undo' \in [Actors -> Undo \union {None}]
      /\ \A a \in Actors : undo'[a] = undo[a] \/ undo'[a] = None
  BY DEF TypeOK, ReconcileFails
<1>3. JournalOK /\ ReceiptsInv'
  BY <1>1, JournalStill, ReceiptsStill DEF TruthInv, TypeOK
<1>4. sweep' = None /\ SweepOK'
  BY DEF SweepOK, ReconcileFails
<1>5. \A a \in Actors : UndoOK(a)'
  BY <1>1, <1>2, UndosStill
<1>6. TypeOK'
  BY <1>1, <1>2, <1>4 DEF TypeOK
<1> QED
  BY <1>1, <1>3, <1>4, <1>5, <1>6, SweepStep

-----------------------------------------------------------------------------
\* The surroundings.

\* A step that moves no call and no record.
LEMMA StillStep ==
    ASSUME TypeOK, TruthInv, UNCHANGED <<journal, receipts, call, sweep, undo, ack, made>>,
           RowsInv', \A c \in Calls : call[c].phase = "armed" => session' = session
    PROVE  TruthInv'
<1>1. JournalOK /\ Kept /\ RecordsInv' /\ ReceiptsInv'
  BY JournalStill, ReceiptsStill DEF TruthInv, JournalOK
<1>2. MadeInv'
  BY <1>1, MadeStill DEF MadeInv, TruthInv
<1>3. \A c \in Calls : CallOK(c)'
  BY <1>1, CallStill DEF TruthInv
<1>4. SweepOK'
  BY <1>1, SweepStill DEF TruthInv
<1>5. \A a \in Actors : UndoOK(a)'
  BY UndosStill
<1>6. AnswersAreTrue'
  BY DEF AnswersAreTrue, TruthInv
<1> QED
  BY <1>1, <1>2, <1>3, <1>4, <1>5, <1>6 DEF TruthInv

\* A session checks in when no call holds the lock, so none is about to write.
LEMMA CheckInOK == ASSUME TypeOK, TruthInv, CheckIn PROVE TypeOK' /\ TruthInv'
<1>1. UNCHANGED <<journal, receipts, rows, call, sweep, undo, ack, made>>
  BY DEF CheckIn, stores
<1>2. \A c \in Calls : call[c].phase # "armed"
  BY DEF CheckIn, Leased
<1>3. RowsInv'
  BY <1>1 DEF TruthInv, RowsInv
<1>4. TypeOK'
  BY DEF TypeOK, CheckIn, stores
<1> QED
  BY <1>1, <1>2, <1>3, <1>4, StillStep

\* The team is stopped.
LEMMA StopTeamOK == ASSUME TypeOK, TruthInv, StopTeam PROVE TypeOK' /\ TruthInv'
<1>1. UNCHANGED <<journal, receipts, rows, call, sweep, undo, ack, made, session>>
  BY DEF StopTeam, stores
<1>2. RowsInv'
  BY <1>1 DEF TruthInv, RowsInv
<1>3. TypeOK'
  BY DEF TypeOK, StopTeam, stores
<1> QED
  BY <1>1, <1>2, <1>3, StillStep

\* A row is pushed out: the message was made all the same.
LEMMA TrimOK ==
    ASSUME TypeOK, TruthInv, NEW m \in Messages, Trim(m) PROVE TypeOK' /\ TruthInv'
<1>1. UNCHANGED <<journal, receipts, call, sweep, undo, ack, made, session>>
  BY DEF Trim
<1>2. rows[m] \in Nat /\ rows[m] - 1 \in Nat /\ rows' = [rows EXCEPT ![m] = @ - 1]
  BY DEF TypeOK, Trim
<1>3. rows' \in [Messages -> Nat]
  BY <1>2 DEF TypeOK
<1>4. trims' \in 0..MaxTrims
  BY DeliveryAssumption DEF TypeOK, Trim
<1>5. RowsInv'
  BY <1>1, <1>2 DEF TruthInv, RowsInv, TypeOK, Trim
<1>6. TypeOK'
  BY <1>3, <1>4 DEF TypeOK, Trim
<1> QED
  BY <1>1, <1>5, <1>6, StillStep

\* After a restart no call and no reconciler relies on anything.
LEMMA CrashOK == ASSUME TypeOK, TruthInv, Crash PROVE TypeOK' /\ TruthInv'
<1>1. UNCHANGED <<session, journal, receipts, rows, ack, made, raced>>
  BY DEF Crash, stores
<1>2. \A c \in Calls : /\ call'[c] \in Call /\ call'[c].payload = call[c].payload
                       /\ CallOK(c)'
  <2> TAKE c \in Calls
  <2>1. call[c] \in Call /\ CallOK(c)
    BY DEF TypeOK, TruthInv
  <2>2. CASE call[c].phase = "idle"
    <3>1. call'[c] = call[c]
      BY <2>2 DEF Crash
    <3> QED
      BY <2>1, <2>2, <3>1 DEF CallOK, Going, Known
  <2>3. CASE call[c].phase # "idle"
    <3>1. call'[c] = [phase |-> "over", session |-> 1, payload |-> call[c].payload,
                      verdict |-> "none", ids |-> {}, id |-> None, wrote |-> FALSE]
      BY <2>3 DEF Crash, Idle
    <3>2. call'[c] \in Call
      BY <2>1, <3>1, DeliveryAssumption DEF Call, Phases, Verdicts
    <3> QED
      BY <3>1, <3>2 DEF CallOK, Going, Known
  <2> QED
    BY <2>2, <2>3
<1>3. call' \in [Calls -> Call]
  BY <1>2 DEF Crash
<1>4. undo' \in [Actors -> Undo \union {None}] /\ \A a \in Actors : undo'[a] = None
  BY DEF Crash
<1>5. JournalOK /\ Kept /\ RecordsInv' /\ ReceiptsInv'
  BY <1>1, JournalStill, ReceiptsStill DEF TruthInv, JournalOK
<1>6. MadeInv' /\ RowsInv'
  BY <1>1, <1>5, MadeStill DEF MadeInv, RowsInv, TruthInv
<1>7. SweepOK' /\ \A a \in Actors : UndoOK(a)'
  BY <1>4 DEF SweepOK, UndoOK, Crash
<1>8. AnswersAreTrue'
  BY <1>1, <1>2 DEF AnswersAreTrue, TruthInv
<1>9. TypeOK'
  BY <1>1, <1>3, <1>4, DeliveryAssumption DEF TypeOK, Crash, stores
<1> QED
  BY <1>2, <1>5, <1>6, <1>7, <1>8, <1>9 DEF TruthInv

-----------------------------------------------------------------------------
\* The unconfirmed commits are those of the actors that are to confirm one.
LEMMA PendingStep == ASSUME TypeOK, TruthInv, Pending, [Next]_vars PROVE Pending'
<1>1. CASE UNCHANGED vars
  BY <1>1 DEF Pending, vars
<1>2. ASSUME NEW c \in Calls, UNCHANGED <<undo, sweep>>,
             call[c].phase # "confirming", call'[c].phase # "confirming",
             \A b \in Calls : b # c => call'[b] = call[b]
      PROVE  Pending'
  BY <1>2 DEF Pending
<1>3. \A c \in Calls : Rejected(c) \/ Refuse(c) \/ Over(c) =>
        call'[c].phase # "confirming" /\ \A b \in Calls : b # c => call'[b] = call[b]
  BY OverType DEF Rejected, Refuse
<1>4. ASSUME NEW c \in Calls, Deliver(c) PROVE Pending'
  <2>1. call'[c].phase = "queued" /\ \A b \in Calls : b # c => call'[b] = call[b]
    BY <1>4 DEF Deliver, TypeOK, Call
  <2> QED
    BY <1>2, <1>4, <2>1 DEF Deliver
<1>5. ASSUME NEW c \in Calls, TakeTurn(c) PROVE Pending'
  <2>1. CASE To(c, "checked")
    BY <1>2, <1>5, <2>1, ToType DEF TakeTurn, Phases
  <2> QED
    BY <1>2, <1>3, <1>5, <2>1 DEF TakeTurn
<1>6. ASSUME NEW c \in Calls, Begin(c) PROVE Pending'
  <2>1. \E verdict, ids, i : Answered(c, verdict, ids, i)
    BY <1>6, Zenon DEF Begin
  <2>2. call'[c].phase = "begun" /\ \A b \in Calls : b # c => call'[b] = call[b]
    BY <2>1 DEF Answered, TypeOK, Call
  <2> QED
    BY <1>2, <1>6, <2>2 DEF Begin
<1>7. ASSUME NEW c \in Calls, Recheck(c) PROVE Pending'
  <2>1. CASE To(c, "looking")
    BY <1>2, <1>7, <2>1, ToType DEF Recheck, Phases
  <2> QED
    BY <1>2, <1>3, <1>7, <2>1 DEF Recheck, Answer
<1>8. ASSUME NEW c \in Calls, Look(c) PROVE Pending'
  <2>1. CASE Rejected(c) \/ Refuse(c)
    BY <1>2, <1>3, <1>8, <2>1 DEF Look
  <2>2. CASE \E i \in call[c].ids :
               call' = [call EXCEPT ![c].phase = "committing", ![c].id = i, ![c].ids = @ \ {i}]
    <3> PICK i \in call[c].ids :
               call' = [call EXCEPT ![c].phase = "committing", ![c].id = i, ![c].ids = @ \ {i}]
      BY <2>2
    <3>1. call'[c].phase = "committing" /\ \A b \in Calls : b # c => call'[b] = call[b]
      BY DEF TypeOK, Call
    <3> QED
      BY <1>2, <1>8, <3>1 DEF Look
  <2>3. CASE call' = [call EXCEPT ![c].phase = "unseen", ![c].ids = {}]
    <3>1. call'[c].phase = "unseen" /\ \A b \in Calls : b # c => call'[b] = call[b]
      BY <2>3 DEF TypeOK, Call
    <3> QED
      BY <1>2, <1>8, <3>1 DEF Look
  <2> QED
    BY <1>8, <2>1, <2>2, <2>3 DEF Look
<1>9. ASSUME NEW c \in Calls, Arm(c) PROVE Pending'
  <2>1. CASE Rejected(c)
    BY <1>2, <1>3, <1>9, <2>1 DEF Arm
  <2>2. CASE ~Rejected(c)
    <3>1. call'[c].phase = "armed" /\ \A b \in Calls : b # c => call'[b] = call[b]
      BY <1>9, <2>2 DEF Arm, TypeOK, Call
    <3> QED
      BY <1>2, <1>9, <3>1 DEF Arm
  <2> QED
    BY <2>1, <2>2
<1>10. ASSUME NEW c \in Calls, Write(c) PROVE Pending'
  <2>1. /\ call'[c].phase \in {"written", "failing"}
        /\ \A b \in Calls : b # c => call'[b] = call[b]
    BY <1>10 DEF Write, To, TypeOK, Call
  <2> QED
    BY <1>2, <1>10, <2>1 DEF Write
<1>11. ASSUME NEW c \in Calls, ReadBack(c) PROVE Pending'
  <2>1. /\ call'[c].phase \in {"committing", "failing"}
        /\ \A b \in Calls : b # c => call'[b] = call[b]
    BY <1>11 DEF ReadBack, TypeOK, Call
  <2> QED
    BY <1>2, <1>11, <2>1 DEF ReadBack
<1>12. ASSUME NEW c \in Calls, CommitDelivery(c) PROVE Pending'
  <2>1. call'[c].phase = "confirming" /\ \A b \in Calls : b # c => call'[b] = call[b]
    BY <1>12, ToType DEF CommitDelivery, Phases
  <2>2. undo'[c] # None /\ \A b \in Actors : b # c => undo'[b] = undo[b]
    BY <1>12, CommitDeliveryOK
  <2>3. sweep' = sweep
    BY <1>12 DEF CommitDelivery
  <2>4. undo'[Sweeper] = undo[Sweeper] /\ \A b \in Calls : b # c => undo'[b] = undo[b]
    BY <2>2, DeliveryAssumption DEF Actors
  <2> QED
    BY <2>1, <2>2, <2>3, <2>4 DEF Pending
<1>13. ASSUME NEW c \in Calls, JournalFails(c) PROVE Pending'
  <2>1. call'[c].phase # "confirming" /\ \A b \in Calls : b # c => call'[b] = call[b]
    <3>1. CASE Refuse(c)
      BY <1>3, <3>1
    <3>2. CASE ~Refuse(c)
      <4>1. call'[c].phase = "failing" /\ \A b \in Calls : b # c => call'[b] = call[b]
        BY <1>13, <3>2 DEF JournalFails, TypeOK, Call
      <4> QED
        BY <4>1
    <3> QED
      BY <3>1, <3>2
  <2>2. /\ sweep' = sweep /\ undo'[c] = None /\ undo'[Sweeper] = undo[Sweeper]
        /\ \A b \in Calls : b # c => undo'[b] = undo[b]
    BY <1>13, DeliveryAssumption DEF JournalFails, TypeOK, Actors
  <2> QED
    BY <2>1, <2>2 DEF Pending
<1>14. ASSUME NEW c \in Calls, Confirm(c) PROVE Pending'
  <2>1. /\ call'[c].phase # "confirming"
        /\ \A b \in Calls : b # c => call'[b] = call[b]
    <3>1. CASE Over(c)
      BY <1>3, <3>1
    <3>2. CASE ~Over(c)
      <4>1. /\ call'[c].phase \in {"failing", "unseen", "looking"}
            /\ \A b \in Calls : b # c => call'[b] = call[b]
        BY <1>14, <3>2 DEF Confirm, Answer, To, TypeOK, Call
      <4> QED
        BY <4>1
    <3> QED
      BY <3>1, <3>2
  <2>2. /\ sweep' = sweep /\ undo'[c] = None /\ undo'[Sweeper] = undo[Sweeper]
        /\ \A b \in Calls : b # c => undo'[b] = undo[b]
    BY <1>14, DeliveryAssumption DEF Confirm, TypeOK, Actors
  <2> QED
    BY <2>1, <2>2 DEF Pending
<1>15. ASSUME NEW c \in Calls, Fail(c) PROVE Pending'
  BY <1>2, <1>3, <1>15 DEF Fail
<1>16. ASSUME NEW k \in Keys, NEW r \in Runs, Reconcile(k, r) PROVE Pending'
  BY <1>16 DEF Reconcile, Pending
<1>17. CASE ReconcileLook
  <2>1. sweep' # None => sweep'.phase = "committing"
    BY <1>17 DEF ReconcileLook, TypeOK, Sweep
  <2> QED
    BY <1>17, <2>1 DEF ReconcileLook, Pending
<1>18. CASE ReconcileCommit
  <2>1. undo'[Sweeper] # None /\ \A c \in Calls : undo'[c] = undo[c]
    BY <1>18, ReconcileCommitOK
  <2>2. call' = call /\ sweep' # None /\ sweep'.phase = "confirming"
    <3>1. sweep' \in Sweep
      BY <1>18 DEF ReconcileCommit, TypeOK, Sweep
    <3> QED
      BY <1>18, <3>1, NoneAssumption DEF ReconcileCommit, TypeOK, Sweep
  <2> QED
    BY <2>1, <2>2 DEF Pending
<1>19. CASE ReconcileConfirm
  <2>1. undo'[Sweeper] = None /\ \A c \in Calls : undo'[c] = undo[c]
    BY <1>19, DeliveryAssumption DEF ReconcileConfirm, TypeOK, Actors
  <2>2. call' = call /\ sweep' = None
    BY <1>19 DEF ReconcileConfirm
  <2> QED
    BY <2>1, <2>2 DEF Pending
<1>20. CASE ReconcileFails
  <2>1. undo'[Sweeper] = None /\ \A c \in Calls : undo'[c] = undo[c]
    BY <1>20, DeliveryAssumption DEF ReconcileFails, TypeOK, Actors
  <2>2. call' = call /\ sweep' = None
    BY <1>20 DEF ReconcileFails
  <2> QED
    BY <2>1, <2>2 DEF Pending
<1>21. CASE CheckIn \/ StopTeam
  BY <1>21 DEF CheckIn, StopTeam, Pending
<1>22. ASSUME NEW m \in Messages, Trim(m) PROVE Pending'
  BY <1>22 DEF Trim, Pending
<1>23. CASE Crash
  <2>1. \A c \in Calls : call'[c].phase \in {"idle", "over"}
    BY <1>23 DEF Crash, Idle
  <2>2. sweep' = None /\ undo'[Sweeper] = None /\ \A c \in Calls : undo'[c] = None
    BY <1>23 DEF Crash, Actors
  <2> QED
    BY <2>1, <2>2 DEF Pending
<1> QED
  BY <1>1, <1>4, <1>5, <1>6, <1>7, <1>8, <1>9, <1>10, <1>11, <1>12, <1>13, <1>14, <1>15,
     <1>16, <1>17, <1>18, <1>19, <1>20, <1>21, <1>22, <1>23 DEF Next

-----------------------------------------------------------------------------
\* Every step keeps the types and the truth of what is stored and known.
LEMMA TruthStep ==
    ASSUME TypeOK, TruthInv, Pending, [Next]_vars PROVE TypeOK' /\ TruthInv'
<1>1. CASE UNCHANGED vars
  <2>1. UNCHANGED <<journal, receipts, rows, call, sweep, undo, ack, made, session>>
    BY <1>1 DEF vars, stores
  <2>2. RowsInv'
    BY <2>1 DEF TruthInv, RowsInv
  <2>3. TypeOK'
    BY <1>1 DEF vars, stores, TypeOK
  <2> QED
    BY <2>1, <2>2, <2>3, StillStep
<1>2. ASSUME NEW c \in Calls,
             \/ Deliver(c) \/ TakeTurn(c) \/ Begin(c) \/ Recheck(c) \/ Look(c) \/ Arm(c)
             \/ Write(c) \/ ReadBack(c) \/ CommitDelivery(c) \/ JournalFails(c)
             \/ Confirm(c) \/ Fail(c)
      PROVE  TypeOK' /\ TruthInv'
  BY <1>2, DeliverOK, TakeTurnOK, BeginStepOK, RecheckOK, LookOK, ArmOK, WriteOK, ReadBackOK,
     CommitDeliveryOK, JournalFailsOK, ConfirmOK, FailOK
<1>3. CASE \E k \in Keys, r \in Runs : Reconcile(k, r)
  BY <1>3, ReconcileOK
<1>4. CASE ReconcileLook \/ ReconcileCommit \/ ReconcileConfirm \/ ReconcileFails
  BY <1>4, ReconcileLookOK, ReconcileCommitOK, ReconcileConfirmOK, ReconcileFailsOK
<1>5. CASE CheckIn \/ StopTeam \/ Crash
  BY <1>5, CheckInOK, StopTeamOK, CrashOK
<1>6. CASE \E m \in Messages : Trim(m)
  BY <1>6, TrimOK
<1> QED
  BY <1>1, <1>2, <1>3, <1>4, <1>5, <1>6 DEF Next

\* Initially nothing is stored and nobody knows anything.
LEMMA TruthInit == Init => TypeOK /\ TruthInv /\ Pending
<1> SUFFICES ASSUME Init PROVE TypeOK /\ TruthInv /\ Pending
  OBVIOUS
<1>1. \A c \in Calls : \E p \in Payloads :
        call[c] = [phase |-> "idle", session |-> 1, payload |-> p, verdict |-> "none",
                   ids |-> {}, id |-> None, wrote |-> FALSE]
  BY DEF Init, Idle
<1>2. \A c \in Calls : call[c] \in Call /\ call[c].phase = "idle" /\ call[c].ids = {}
  <2> TAKE c \in Calls
  <2>1. PICK p \in Payloads :
          call[c] = [phase |-> "idle", session |-> 1, payload |-> p, verdict |-> "none",
                     ids |-> {}, id |-> None, wrote |-> FALSE]
    BY <1>1
  <2>2. 1 \in Sessions /\ "idle" \in Phases /\ "none" \in Verdicts
    BY DeliveryAssumption DEF Phases, Verdicts
  <2> QED
    BY <2>1, <2>2 DEF Call
<1>3. TypeOK
  BY <1>2, DeliveryAssumption DEF TypeOK, Init, Messages
<1>4. RecordsInv /\ ReceiptsInv /\ RowsInv /\ MadeInv
  BY DEF Init, RecordsInv, ReceiptsInv, RowsInv, MadeInv
<1>5. \A c \in Calls : CallOK(c)
  BY <1>2 DEF CallOK, Going, Known
<1>6. SweepOK /\ (\A a \in Actors : UndoOK(a)) /\ AnswersAreTrue /\ Pending
  <2>1. sweep = None /\ \A a \in Calls \union {Sweeper} : undo[a] = None
    BY DEF Init, Actors
  <2>2. Pending
    BY <1>2, <2>1 DEF Pending
  <2> QED
    BY <2>1, <2>2 DEF Init, SweepOK, UndoOK, AnswersAreTrue, Actors
<1> QED
  BY <1>3, <1>4, <1>5, <1>6 DEF TruthInv

\* The three hold together, always.
LEMMA Truth == Spec => [](TypeOK /\ TruthInv /\ Pending)
<1>1. Init => TypeOK /\ TruthInv /\ Pending
  BY TruthInit
<1>2. (TypeOK /\ TruthInv /\ Pending) /\ [Next]_vars => (TypeOK /\ TruthInv /\ Pending)'
  BY TruthStep, PendingStep
<1> QED
  BY <1>1, <1>2, PTL DEF Spec

\* Every variable has its type, always: no id of another key, no unknown status.
THEOREM TypeCorrect == Spec => []TypeOK
BY Truth, PTL

\* A call that is told its message is delivered is told the truth: a row with its
\* payload was at the destination under the id it is given (deliverEnvelope).
THEOREM AnswersTrue == Spec => []AnswersAreTrue
<1>1. TruthInv => AnswersAreTrue
  BY DEF TruthInv
<1> QED
  BY <1>1, Truth, PTL

\* What the journal calls committed, and every receipt, was seen at the
\* destination (markRuntimeDeliveryCommittedWithBoundProof).
THEOREM CommitsSeen == Spec => []CommitsWereSeen
<1>1. TruthInv => CommitsWereSeen
  BY DEF TruthInv, RecordsInv, ReceiptsInv, Proven, CommitsWereSeen
<1> QED
  BY <1>1, Truth, PTL

\* A session that was superseded does not write (writeWhileIdentityCurrent).
THEOREM SupersededSilent == Spec => SupersededNeverWrites
<1>1. TypeOK /\ TruthInv /\ [Next]_vars =>
        [\A c \in Calls : Writes(c) => call[c].session = session]_vars
  BY DEF TruthInv, CallOK, Writes
<1> QED
  BY <1>1, Truth, PTL DEF Spec, SupersededNeverWrites

-----------------------------------------------------------------------------
(* Part 2: one message per key, and no write after an answer. *)

\* One call of a key at a time is past the queue.
TurnInv == \A b, c \in Calls : HasTurn(b) /\ HasTurn(c) /\ KeyOf[b] = KeyOf[c] => b = c

\* A set of records with one id, and with a receipt if one of them is committed.
Coherent(records, receipt) ==
    /\ \A q, r \in Runs : records[q] # None /\ records[r] # None => records[q].id = records[r].id
    /\ receipt = None => \A r \in Runs : records[r] # None => records[r].status # "committed"

\* A key's unconfirmed commit is the last thing that happened to its records.
Latest(k, a) ==
    /\ journal[k] = undo[a].became
    /\ receipts[k] = undo[a].receiptBecame
    /\ receipts[k] # None
    /\ \A r \in Runs : journal[k][r] # None => journal[k][r].status = "committed"
    /\ Coherent(undo[a].records, undo[a].receipt)
    /\ \A b \in Unconfirmed(k) : a = b

\* As long as the commits of a key do not overlap, its records are coherent.
Orderly(k) == Coherent(journal[k], receipts[k]) /\ \A a \in Unconfirmed(k) : Latest(k, a)
CoherentInv == \A k \in Keys \ raced : Orderly(k)

\* A receipt that stays, whichever commit is undone.
Stays(k) == receipts[k] # None /\ \A a \in Unconfirmed(k) : undo[a].receipt # None

\* An answer that was given, or is about to be, rests on a receipt that stays; a
\* call that may still write has no such answer before it.
Final(c) ==
    KeyOf[c] \notin raced =>
        /\ ack[c] # None => Stays(KeyOf[c])
        /\ call[c].phase = "begun" /\ call[c].verdict = "duplicate" => Stays(KeyOf[c])
        /\ Going(c) => \A b \in Calls : KeyOf[b] = KeyOf[c] => ack[b] = None
FinalInv == \A c \in Calls : Final(c)

OnceInv == TurnInv /\ CoherentInv /\ FinalInv

-----------------------------------------------------------------------------
\* What a step does to the calls.

CallAction(c) ==
    \/ Deliver(c) \/ TakeTurn(c) \/ Begin(c) \/ Recheck(c) \/ Look(c) \/ Arm(c)
    \/ Write(c) \/ ReadBack(c) \/ CommitDelivery(c) \/ JournalFails(c)
    \/ Confirm(c) \/ Fail(c)

\* Where a call goes that is going on, has its turn, or is answered.
Moves(c) ==
    /\ \A b \in Calls : b # c => call'[b] = call[b] /\ ack'[b] = ack[b]
    /\ HasTurn(c)' => HasTurn(c) \/ TakeTurn(c)
    /\ Going(c)' => (Going(c) \/ Begin(c)) /\ ack' = ack
    /\ call'[c].phase = "begun" => Begin(c)
    /\ ack' = ack \/ HasTurn(c)

\* A call that is refused is nowhere.
LEMMA OverMoves ==
    ASSUME TypeOK, NEW c \in Calls, Over(c), HasTurn(c) \/ ack' = ack,
           \A b \in Calls : b # c => ack'[b] = ack[b]
    PROVE  Moves(c)
<1>1. call'[c].phase = "over" /\ \A b \in Calls : b # c => call'[b] = call[b]
  BY OverType
<1> QED
  BY <1>1 DEF Moves, HasTurn, Going

\* Every step of a call is such a move.
LEMMA CallMoves == ASSUME TypeOK, NEW c \in Calls, CallAction(c) PROVE Moves(c)
<1>1. CASE Refuse(c) \/ Rejected(c)
  BY <1>1, OverMoves DEF Refuse, Rejected
<1>2. CASE Answer(c, call[c].id) /\ call[c].phase \in {"begun", "confirming"}
  BY <1>2, OverMoves DEF Answer, HasTurn, TypeOK
<1>3. CASE Deliver(c)
  <2>1. call'[c].phase = "queued" /\ \A b \in Calls : b # c => call'[b] = call[b]
    BY <1>3 DEF Deliver, TypeOK, Call
  <2> QED
    BY <1>3, <2>1 DEF Deliver, Moves, HasTurn, Going
<1>4. CASE TakeTurn(c) /\ ~Refuse(c)
  <2>1. call'[c].phase = "checked" /\ \A b \in Calls : b # c => call'[b] = call[b]
    BY <1>4, ToType DEF TakeTurn, Phases
  <2> QED
    BY <1>4, <2>1 DEF TakeTurn, Moves, HasTurn, Going
<1>5. CASE Begin(c)
  <2>1. \E verdict, ids, i : Answered(c, verdict, ids, i)
    BY <1>5, Zenon DEF Begin
  <2>2. call'[c].phase = "begun" /\ \A b \in Calls : b # c => call'[b] = call[b]
    BY <2>1 DEF Answered, TypeOK, Call
  <2> QED
    BY <1>5, <2>2 DEF Begin, Moves, HasTurn, Going
<1>6. CASE Recheck(c) /\ ~(Refuse(c) \/ Rejected(c) \/ Answer(c, call[c].id))
  <2>1. To(c, "looking") /\ call[c].verdict = "go" /\ call[c].phase = "begun" /\ ack' = ack
    BY <1>6 DEF Recheck
  <2>2. call'[c].phase = "looking" /\ \A b \in Calls : b # c => call'[b] = call[b]
    BY <2>1, ToType DEF Phases
  <2> QED
    BY <2>1, <2>2 DEF Moves, HasTurn, Going
<1>7. CASE Look(c) /\ ~(Refuse(c) \/ Rejected(c))
  <2>1. ack' = ack /\ call[c].phase = "looking"
    BY <1>7 DEF Look
  <2>2. CASE \E i \in call[c].ids :
               call' = [call EXCEPT ![c].phase = "committing", ![c].id = i, ![c].ids = @ \ {i}]
    <3> PICK i \in call[c].ids :
               call' = [call EXCEPT ![c].phase = "committing", ![c].id = i, ![c].ids = @ \ {i}]
      BY <2>2
    <3>1. call'[c].phase = "committing" /\ \A b \in Calls : b # c => call'[b] = call[b]
      BY DEF TypeOK, Call
    <3> QED
      BY <2>1, <3>1 DEF Moves, HasTurn, Going
  <2>3. CASE call' = [call EXCEPT ![c].phase = "unseen", ![c].ids = {}]
    <3>1. call'[c].phase = "unseen" /\ \A b \in Calls : b # c => call'[b] = call[b]
      BY <2>3 DEF TypeOK, Call
    <3> QED
      BY <2>1, <3>1 DEF Moves, HasTurn, Going
  <2> QED
    BY <1>7, <2>2, <2>3 DEF Look
<1>8. CASE Arm(c) /\ ~Rejected(c)
  <2>1. call'[c].phase = "armed" /\ \A b \in Calls : b # c => call'[b] = call[b]
    BY <1>8 DEF Arm, TypeOK, Call
  <2> QED
    BY <1>8, <2>1 DEF Arm, Moves, HasTurn, Going
<1>9. CASE Write(c)
  <2>1. /\ call'[c].phase \in {"written", "failing"}
        /\ \A b \in Calls : b # c => call'[b] = call[b]
    BY <1>9 DEF Write, To, TypeOK, Call
  <2> QED
    BY <1>9, <2>1 DEF Write, Moves, HasTurn, Going
<1>10. CASE ReadBack(c)
  <2>1. /\ call'[c].phase \in {"committing", "failing"}
        /\ \A b \in Calls : b # c => call'[b] = call[b]
    BY <1>10 DEF ReadBack, TypeOK, Call
  <2> QED
    BY <1>10, <2>1 DEF ReadBack, Moves, HasTurn, Going
<1>11. CASE CommitDelivery(c)
  <2>1. call'[c].phase = "confirming" /\ \A b \in Calls : b # c => call'[b] = call[b]
    BY <1>11, ToType DEF CommitDelivery, Phases
  <2> QED
    BY <1>11, <2>1 DEF CommitDelivery, Moves, HasTurn, Going
<1>12. CASE JournalFails(c) /\ ~Refuse(c)
  <2>1. call'[c].phase = "failing" /\ \A b \in Calls : b # c => call'[b] = call[b]
    BY <1>12 DEF JournalFails, TypeOK, Call
  <2> QED
    BY <1>12, <2>1 DEF JournalFails, Moves, HasTurn, Going
<1>13. CASE Confirm(c) /\ ~Answer(c, call[c].id)
  <2>1. /\ call'[c].phase \in {"failing", "unseen", "looking"}
        /\ \A b \in Calls : b # c => call'[b] = call[b]
    BY <1>13 DEF Confirm, To, TypeOK, Call
  <2> QED
    BY <1>13, <2>1 DEF Confirm, Moves, HasTurn, Going
<1> QED
  BY <1>1, <1>2, <1>3, <1>4, <1>5, <1>6, <1>7, <1>8, <1>9, <1>10, <1>11, <1>12, <1>13
     DEF CallAction, Recheck, Confirm, Fail

\* A call keeps the turn it has; it takes one only when no call of the key has it.
LEMMA TurnStep == ASSUME TypeOK, TurnInv, [Next]_vars PROVE TurnInv'
<1>1. ASSUME NEW c \in Calls, CallAction(c) PROVE TurnInv'
  <2>1. Moves(c)
    BY <1>1, CallMoves
  <2>2. \A b \in Calls : b # c => HasTurn(b)' = HasTurn(b)
    BY <2>1 DEF Moves, HasTurn
  <2>3. TakeTurn(c) => \A b \in Calls : KeyOf[b] = KeyOf[c] => ~HasTurn(b)
    BY DEF TakeTurn
  <2> QED
    BY <2>1, <2>2, <2>3 DEF TurnInv, Moves
<1>2. CASE call' = call
  BY <1>2 DEF TurnInv, HasTurn
<1>3. CASE Crash
  <2>1. \A c \in Calls : call'[c].phase \in {"idle", "over"}
    BY <1>3 DEF Crash, Idle
  <2> QED
    BY <2>1 DEF TurnInv, HasTurn
<1> QED
  BY <1>1, <1>2, <1>3 DEF Next, CallAction, vars, Reconcile, ReconcileLook, ReconcileCommit,
     ReconcileConfirm, ReconcileFails, CheckIn, StopTeam, Trim

-----------------------------------------------------------------------------
\* What a step does to the records of a key.

\* They stay in order, and a receipt that stays goes on to stay.
KeyKept(k) == Orderly(k)' /\ (Stays(k) => Stays(k)')

\* A step that leaves a key's records alone, and makes no commit of it.
LEMMA KeyStill ==
    ASSUME NEW k \in Keys, Orderly(k), journal'[k] = journal[k], receipts'[k] = receipts[k],
           Unconfirmed(k)' \subseteq Unconfirmed(k), \A a \in Unconfirmed(k)' : undo'[a] = undo[a]
    PROVE  KeyKept(k)
BY DEF KeyKept, Orderly, Latest, Stays, Coherent

\* The same, when no commit changes at all.
LEMMA UndoSame ==
    ASSUME NEW k \in Keys, undo' = undo,
           sweep' = sweep \/ undo[Sweeper] = None
    PROVE  Unconfirmed(k)' = Unconfirmed(k)
BY DEF Unconfirmed

\* markFailed leaves committed records alone, so it finds no unconfirmed commit.
LEMMA KeyMarked ==
    ASSUME TypeOK, NEW k \in Keys, Orderly(k), NEW c \in Calls,
           NEW status \in {"failed_retryable", "failed_terminal"}, MarkFailed(c, status),
           receipts' = receipts, undo' = undo, sweep' = sweep
    PROVE  KeyKept(k)
<1> DEFINE r == Run(c)
<1>1. Unconfirmed(k)' = Unconfirmed(k)
  BY UndoSame
<1>2. CASE journal'[k] = journal[k]
  BY <1>1, <1>2, KeyStill
<1>3. CASE journal'[k] # journal[k]
  <2>1. /\ k = KeyOf[c] /\ r \in Runs
        /\ journal[k][r] # None /\ journal[k][r].status # "committed"
        /\ journal' = [journal EXCEPT ![k][r].status = status]
    BY <1>3, RunType DEF MarkFailed, TypeOK
  <2>2. journal[k][r] \in Record
    BY <2>1, RecordType
  <2>3. /\ journal'[k][r].id = journal[k][r].id /\ journal'[k][r].status # "committed"
        /\ \A q \in Runs : q # r => journal'[k][q] = journal[k][q]
    BY <2>1, <2>2 DEF TypeOK, Record
  <2>4. Unconfirmed(k) = {}
    BY <2>1 DEF Orderly, Latest
  <2>5. Coherent(journal[k], receipts[k])
    BY DEF Orderly
  <2>6. \A q \in Runs : journal'[k][q] # None =>
          /\ journal[k][q] # None /\ journal'[k][q].id = journal[k][q].id
          /\ journal'[k][q].status # "committed" \/ journal'[k][q] = journal[k][q]
    BY <2>1, <2>3
  <2>7. Coherent(journal'[k], receipts'[k])
    BY <2>5, <2>6 DEF Coherent
  <2> QED
    BY <1>1, <2>4, <2>7 DEF KeyKept, Orderly, Stays
<1> QED
  BY <1>2, <1>3

\* begin, when the key has no commit: it takes the one id the records have.
LEMMA KeyBegun ==
    ASSUME TypeOK, NEW k \in Keys, NEW r \in Runs, NEW p, NEW i, Orderly(k),
           CommittedAt(k, r) = {},
           i \in (IF journal[k][r] = None THEN NewId(k, r) ELSE {journal[k][r].id}),
           Recorded(k, r, p, i), receipts' = receipts, undo' = undo, sweep' = sweep
    PROVE  KeyKept(k)
<1>1. Unconfirmed(k)' = Unconfirmed(k)
  BY UndoSame
<1>2. receipts[k] = None /\ Coherent(journal[k], receipts[k])
  BY DEF CommittedAt, Orderly
<1>3. Unconfirmed(k) = {}
  BY <1>2 DEF Orderly, Latest
<1>4. \A q \in Runs : journal[k][q] # None => journal[k][q].status # "committed"
  BY <1>2 DEF Coherent
<1>5. journal'[k][r] = Begun(journal[k][r], p, i) /\ \A q \in Runs : q # r => journal'[k][q] = journal[k][q]
  BY DEF TypeOK, Recorded
<1>6. journal'[k][r].id = i /\ journal'[k][r].status # "committed"
  <2>1. CASE journal[k][r] = None
    BY <1>5, <2>1 DEF Begun
  <2>2. CASE journal[k][r] # None
    <3>1. journal[k][r] \in Record
      BY <2>2, RecordType
    <3>2. journal'[k][r] = [journal[k][r] EXCEPT !.status =
                              IF @ = "failed_terminal" THEN @ ELSE "pending"]
      BY <1>5, <2>2 DEF Begun
    <3> QED
      BY <2>2, <3>1, <3>2 DEF Record
  <2> QED
    BY <2>1, <2>2
<1>7. \A q \in Runs : q # r /\ journal[k][q] # None => journal[k][q].id = i
  <2>1. CASE journal[k][r] # None
    BY <1>2, <2>1 DEF Coherent
  <2>2. CASE journal[k][r] = None
    <3>1. \A q \in Runs : q # r /\ journal[k][q] # None => q \in Lineage(k, r)
      BY <1>4 DEF Lineage
    <3>2. CASE Lineage(k, r) = {}
      BY <3>1, <3>2
    <3>3. CASE Lineage(k, r) # {}
      <4>1. PICK o \in Lineage(k, r) : i = journal[k][o].id
        BY <2>2, <3>3 DEF NewId
      <4> QED
        BY <1>2, <4>1 DEF Coherent, Lineage
    <3> QED
      BY <3>2, <3>3
  <2> QED
    BY <2>1, <2>2
<1>8. \A q \in Runs : journal'[k][q] # None =>
        journal'[k][q].id = i /\ journal'[k][q].status # "committed"
  BY <1>4, <1>5, <1>6, <1>7
<1>9. Coherent(journal'[k], receipts'[k])
  BY <1>8 DEF Coherent
<1> QED
  BY <1>1, <1>2, <1>3, <1>9 DEF KeyKept, Orderly, Stays

\* The first commit of a key: it is the latest thing that happened to its records.
LEMMA KeyCommitted ==
    ASSUME TypeOK, NEW k \in Keys, NEW r \in Runs, NEW i, NEW a \in Actors, Orderly(k),
           journal[k][r] # None, Commit(a, k, r, i), k \notin raced', raced \subseteq raced',
           receipts'[k] # None,
           undo[a] = None,
           a \in Calls => KeyOf[a] = k /\ sweep' = sweep,
           a = Sweeper => sweep.key = k /\ sweep'.key = sweep.key
    PROVE  KeyKept(k)
<1> DEFINE proof == [at |-> i, by |-> a]
           new == Became(k, r, proof)
<1>1. PICK kept : /\ journal' = [journal EXCEPT ![k] = new]
                  /\ receipts' = [receipts EXCEPT ![k] = kept]
                  /\ undo' = [undo EXCEPT ![a] = [records |-> journal[k], became |-> new,
                                         receipt |-> receipts[k], receiptBecame |-> kept]]
  BY Zenon DEF Commit
<1>2. journal'[k] = new /\ receipts'[k] = kept
  BY <1>1 DEF TypeOK
<1>3. /\ undo'[a].records = journal[k] /\ undo'[a].became = new
      /\ undo'[a].receipt = receipts[k] /\ undo'[a].receiptBecame = kept
      /\ \A b \in Actors : b # a => undo'[b] = undo[b]
  <2>1. /\ undo'[a] = [records |-> journal[k], became |-> new,
                       receipt |-> receipts[k], receiptBecame |-> kept]
        /\ \A b \in Actors : b # a => undo'[b] = undo[b]
    BY <1>1 DEF TypeOK
  <2> QED
    BY <2>1
<1>4. Unconfirmed(k) = {}
  BY DEF Commit, Race
<1>5. Unconfirmed(k)' \subseteq {a}
  <2> SUFFICES ASSUME NEW b \in Unconfirmed(k)', b # a PROVE FALSE
    OBVIOUS
  <2>1. b \in Actors
    BY DEF Unconfirmed, Actors
  <2>2. undo'[b] = undo[b]
    BY <1>3, <2>1
  <2>3. b \in Unconfirmed(k)
    <3>1. CASE b \in Calls
      BY <2>2, <3>1, DeliveryAssumption DEF Unconfirmed
    <3>2. CASE b = Sweeper
      BY <2>2, <3>2, DeliveryAssumption DEF Unconfirmed, Actors
    <3> QED
      BY <2>1, <3>1, <3>2 DEF Actors
  <2> QED
    BY <1>4, <2>3
<1>6. Coherent(journal[k], receipts[k])
  BY DEF Orderly
<1>7. \A q \in Runs : journal[k][q] # None =>
        new[q].id = journal[k][q].id /\ new[q].status = "committed"
  <2> TAKE q \in Runs
  <2> HAVE journal[k][q] # None
  <2>1. journal[k][q] \in Record
    BY RecordType
  <2>2. CASE q = r \/ q \in Lineage(k, r)
    <3>1. new[q] = [journal[k][q] EXCEPT !.status = "committed", !.proof = proof]
      BY <2>2 DEF Became
    <3> QED
      BY <2>1, <3>1 DEF Record
  <2>3. CASE ~(q = r \/ q \in Lineage(k, r))
    <3>1. new[q] = journal[k][q]
      BY <2>3 DEF Became
    <3>2. journal[k][q].status = "committed"
      BY <2>3 DEF Lineage
    <3> QED
      BY <3>1, <3>2
  <2> QED
    BY <2>2, <2>3
<1>8. \A q \in Runs : journal[k][q] = None => new[q] = None
  BY DEF Became, Lineage
<1> HIDE DEF new
<1>9. Coherent(journal'[k], receipts'[k])
  BY <1>2, <1>6, <1>7, <1>8 DEF Coherent
<1>10. Latest(k, a)'
  BY <1>2, <1>3, <1>5, <1>6, <1>7, <1>8 DEF Latest
<1>11. Stays(k) => Stays(k)'
  BY <1>3, <1>5 DEF Stays
<1> QED
  BY <1>5, <1>9, <1>10, <1>11 DEF KeyKept, Orderly

\* The rollback of a key's only unconfirmed commit puts back what it found.
LEMMA KeyRolledBack ==
    ASSUME TypeOK, NEW k \in Keys, NEW a \in Unconfirmed(k), Orderly(k), Rollback(a, k),
           Unconfirmed(k)' \subseteq Unconfirmed(k) \ {a}
    PROVE  KeyKept(k)
<1>1. Latest(k, a) /\ undo[a] # None /\ a \in Actors
  BY DEF Orderly, Unconfirmed, Actors
<1>2. undo[a].records \in [Runs -> Record \union {None}]
  BY <1>1 DEF TypeOK, Undo
<1>3. Unconfirmed(k)' = {}
  BY <1>1 DEF Latest
<1>4. journal'[k] = undo[a].records /\ receipts'[k] = undo[a].receipt
  BY <1>1, <1>2 DEF Rollback, Latest, TypeOK
<1> QED
  BY <1>1, <1>3, <1>4 DEF KeyKept, Orderly, Latest, Stays

\* A key whose commits raced once is never taken for one whose did not.
LEMMA RacedGrows == ASSUME [Next]_vars PROVE raced \subseteq raced'
<1>1. CASE \E c \in Calls : Begin(c) \/ CommitDelivery(c)
  BY <1>1, Zenon DEF Begin, CommitDelivery, Commit, Race
<1>2. CASE ReconcileCommit
  BY <1>2, Zenon DEF ReconcileCommit, Commit, Race
<1>3. ASSUME NEW c \in Calls, CallAction(c), ~Begin(c), ~CommitDelivery(c) PROVE raced' = raced
  BY <1>3 DEF CallAction, Deliver, TakeTurn, Recheck, Look, Arm, Write, ReadBack,
              JournalFails, Confirm, Fail
<1>4. ASSUME Next, ~ReconcileCommit, ~\E c \in Calls : CallAction(c) PROVE raced' = raced
  BY <1>4 DEF Next, CallAction, Reconcile, ReconcileLook, ReconcileConfirm, ReconcileFails,
              CheckIn, StopTeam, Trim, Crash
<1> QED
  BY <1>1, <1>2, <1>3, <1>4 DEF vars

\* A call's commit or its end is none of another key's.
LEMMA OtherKey ==
    ASSUME NEW k \in Keys, NEW c \in Calls, KeyOf[c] # k, sweep' = sweep,
           \A a \in Actors : a # c => undo'[a] = undo[a]
    PROVE  /\ Unconfirmed(k)' \subseteq Unconfirmed(k)
           /\ \A a \in Unconfirmed(k)' : undo'[a] = undo[a]
<1>1. \A a \in Unconfirmed(k)' : a \in Actors /\ a # c
  BY DeliveryAssumption DEF Unconfirmed, Actors
<1> QED
  BY <1>1, DeliveryAssumption DEF Unconfirmed

\* The reconciler's commit or its end is none of another key's.
LEMMA OtherSweep ==
    ASSUME NEW k \in Keys, \A c \in Calls : undo'[c] = undo[c],
           undo'[Sweeper] = None \/ sweep'.key # k
    PROVE  /\ Unconfirmed(k)' \subseteq Unconfirmed(k)
           /\ Sweeper \notin Unconfirmed(k)'
           /\ \A a \in Unconfirmed(k)' : undo'[a] = undo[a]
BY DeliveryAssumption DEF Unconfirmed

\* Every step leaves the records of a key, whose commits did not race, in order.
LEMMA KeyStep ==
    ASSUME TypeOK, TruthInv, Pending, [Next]_vars,
           NEW k \in Keys, k \notin raced', Orderly(k)
    PROVE  KeyKept(k)
<1>1. ASSUME UNCHANGED <<journal, receipts, undo>>, sweep' = sweep \/ undo[Sweeper] = None
      PROVE  KeyKept(k)
  <2>1. Unconfirmed(k)' = Unconfirmed(k)
    BY <1>1, UndoSame
  <2> QED
    BY <1>1, <2>1, KeyStill
<1>2. ASSUME NEW c \in Calls, NEW status \in {"failed_retryable", "failed_terminal"},
             MarkFailed(c, status), UNCHANGED <<receipts, undo, sweep>>
      PROVE  KeyKept(k)
  BY <1>2, KeyMarked
<1>3. ASSUME NEW c \in Calls, Rejected(c), UNCHANGED <<receipts, undo, sweep>>
      PROVE  KeyKept(k)
  BY <1>2, <1>3 DEF Rejected
<1>4. ASSUME NEW c \in Calls, Begin(c) PROVE KeyKept(k)
  <2> DEFINE r == Run(c)
             p == call[c].payload
  <2>1. KeyOf[c] \in Keys /\ r \in Runs
    BY RunType
  <2>2. UNCHANGED <<receipts, undo, sweep>>
    BY <1>4 DEF Begin
  <2>3. CASE journal' = journal
    BY <1>1, <2>2, <2>3
  <2>4. CASE journal' # journal
    <3>1. CommittedAt(KeyOf[c], r) = {}
      BY <1>4, <2>4 DEF Begin
    <3>2. PICK i \in (IF journal[KeyOf[c]][r] = None
                      THEN NewId(KeyOf[c], r) ELSE {journal[KeyOf[c]][r].id}) :
            Recorded(KeyOf[c], r, p, i)
      BY <1>4, <2>4 DEF Begin, Recorded
    <3>3. CASE k = KeyOf[c]
      <4> HIDE DEF r, p
      <4> QED
        BY <2>1, <2>2, <3>1, <3>2, <3>3, KeyBegun
    <3>4. CASE k # KeyOf[c]
      <4>1. journal'[k] = journal[k]
        BY <2>1, <3>2, <3>4 DEF Recorded, TypeOK
      <4>2. Unconfirmed(k)' = Unconfirmed(k)
        BY <2>2, UndoSame
      <4> QED
        BY <2>2, <4>1, <4>2, KeyStill
    <3> QED
      BY <3>3, <3>4
  <2> QED
    BY <2>3, <2>4
<1>5. ASSUME NEW c \in Calls, CommitDelivery(c) PROVE KeyKept(k)
  <2>1. /\ receipts'[KeyOf[c]] # None
        /\ undo'[c] # None /\ \A b \in Actors : b # c => undo'[b] = undo[b]
    BY <1>5, CommitDeliveryOK
  <2>2. sweep' = sweep /\ Commit(c, KeyOf[c], Run(c), call[c].id)
    BY <1>5 DEF CommitDelivery
  <2>3. KeyOf[c] \in Keys /\ Run(c) \in Runs /\ c \in Actors /\ c # Sweeper
    BY RunType, DeliveryAssumption DEF Actors
  <2>4. CASE k = KeyOf[c]
    <3>1. journal[k][Run(c)] # None /\ undo[c] = None
      BY <1>5, <2>4 DEF CommitDelivery, Pending, TruthInv, CallOK, Going, Owns
    <3> QED
      BY <2>1, <2>2, <2>3, <2>4, <3>1, RacedGrows, KeyCommitted
  <2>5. CASE k # KeyOf[c]
    <3>1. journal'[k] = journal[k] /\ receipts'[k] = receipts[k]
      BY <2>2, <2>5 DEF Commit, TypeOK
    <3> QED
      BY <2>1, <2>2, <2>5, <3>1, OtherKey, KeyStill
  <2> QED
    BY <2>4, <2>5
<1>6. ASSUME NEW c \in Calls, Confirm(c) PROVE KeyKept(k)
  <2>1. /\ sweep' = sweep /\ undo'[c] = None
        /\ \A a \in Actors : a # c => undo'[a] = undo[a]
    BY <1>6 DEF Confirm, TypeOK, Actors
  <2>2. undo[c] # None
    BY <1>6 DEF Confirm, Pending
  <2>3. Unconfirmed(k)' \subseteq Unconfirmed(k) \ {c}
    BY <2>1, DeliveryAssumption DEF Unconfirmed, Actors
  <2>4. \A a \in Unconfirmed(k)' : undo'[a] = undo[a]
    BY <2>1, <2>3 DEF Unconfirmed, Actors
  <2>5. CASE journal'[k] = journal[k] /\ receipts'[k] = receipts[k]
    BY <2>3, <2>4, <2>5, KeyStill
  <2>6. CASE Rollback(c, KeyOf[c])
    <3>1. CASE k = KeyOf[c]
      <4>1. c \in Unconfirmed(k)
        BY <2>2, <3>1 DEF Unconfirmed
      <4> QED
        BY <2>3, <2>6, <3>1, <4>1, KeyRolledBack
    <3>2. CASE k # KeyOf[c]
      <4>1. journal'[k] = journal[k] /\ receipts'[k] = receipts[k]
        BY <2>6, <3>2 DEF Rollback, TypeOK
      <4> QED
        BY <2>5, <4>1
    <3> QED
      BY <3>1, <3>2
  <2> QED
    BY <1>6, <2>5, <2>6 DEF Confirm
<1>7. ASSUME NEW c \in Calls, CallAction(c) PROVE KeyKept(k)
  <2>1. CASE Deliver(c) \/ TakeTurn(c) \/ Write(c) \/ ReadBack(c)
    BY <1>1, <2>1 DEF Deliver, TakeTurn, Write, ReadBack, stores
  <2>2. CASE Recheck(c) \/ Look(c) \/ Arm(c)
    BY <1>1, <1>3, <2>2 DEF Recheck, Look, Arm
  <2>3. CASE Fail(c)
    BY <1>1, <1>2, <1>3, <2>3 DEF Fail
  <2>4. CASE JournalFails(c)
    <3>1. /\ UNCHANGED <<journal, receipts, sweep>> /\ undo'[c] = None
          /\ \A a \in Actors : a # c => undo'[a] = undo[a]
      BY <2>4 DEF JournalFails, stores, TypeOK, Actors
    <3>2. Unconfirmed(k)' \subseteq Unconfirmed(k) \ {c}
      BY <3>1, DeliveryAssumption DEF Unconfirmed, Actors
    <3>3. \A a \in Unconfirmed(k)' : undo'[a] = undo[a]
      BY <3>1, <3>2 DEF Unconfirmed, Actors
    <3> QED
      BY <3>1, <3>2, <3>3, KeyStill
  <2> QED
    BY <1>4, <1>5, <1>6, <1>7, <2>1, <2>2, <2>3, <2>4 DEF CallAction
<1>8. CASE ReconcileLook \/ \E j \in Keys, r \in Runs : Reconcile(j, r)
  <2>1. undo[Sweeper] = None
    BY <1>8 DEF Pending, ReconcileLook, Reconcile
  <2>2. UNCHANGED <<journal, receipts, undo>>
    BY <1>8 DEF ReconcileLook, Reconcile, stores
  <2> QED
    BY <1>1, <2>1, <2>2
<1>9. CASE ReconcileCommit
  <2>1. /\ undo'[Sweeper] # None /\ \A c \in Calls : undo'[c] = undo[c]
        /\ receipts'[sweep.key] # None /\ sweep'.key = sweep.key
    BY <1>9, ReconcileCommitOK
  <2>2. Commit(Sweeper, sweep.key, sweep.run, sweep.id)
    BY <1>9 DEF ReconcileCommit
  <2>3. /\ sweep.key \in Keys /\ sweep.run \in Runs /\ Sweeper \in Actors
        /\ Sweeper \notin Calls
    BY <1>9, DeliveryAssumption DEF ReconcileCommit, TypeOK, Sweep, Actors
  <2>4. CASE k = sweep.key
    <3>1. journal[k][sweep.run] # None /\ undo[Sweeper] = None
      BY <1>9, <2>4 DEF ReconcileCommit, Pending, TruthInv, SweepOK, Owns
    <3> QED
      BY <2>1, <2>2, <2>3, <2>4, <3>1, RacedGrows, KeyCommitted
  <2>5. CASE k # sweep.key
    <3>1. journal'[k] = journal[k] /\ receipts'[k] = receipts[k]
      BY <2>2, <2>5 DEF Commit, TypeOK
    <3> QED
      BY <2>1, <2>5, <3>1, OtherSweep, KeyStill
  <2> QED
    BY <2>4, <2>5
<1>10. CASE ReconcileConfirm
  <2>1. undo'[Sweeper] = None /\ \A c \in Calls : undo'[c] = undo[c]
    BY <1>10, DeliveryAssumption DEF ReconcileConfirm, TypeOK, Actors
  <2>2. undo[Sweeper] # None
    BY <1>10 DEF ReconcileConfirm, Pending
  <2>3. /\ Unconfirmed(k)' \subseteq Unconfirmed(k) \ {Sweeper}
        /\ \A a \in Unconfirmed(k)' : undo'[a] = undo[a]
    BY <2>1, OtherSweep
  <2>4. CASE journal'[k] = journal[k] /\ receipts'[k] = receipts[k]
    BY <2>3, <2>4, KeyStill
  <2>5. CASE Rollback(Sweeper, sweep.key)
    <3>1. CASE k = sweep.key
      <4>1. Sweeper \in Unconfirmed(k)
        BY <2>2, <3>1 DEF Unconfirmed
      <4> QED
        BY <2>3, <2>5, <3>1, <4>1, KeyRolledBack
    <3>2. CASE k # sweep.key
      <4>1. journal'[k] = journal[k] /\ receipts'[k] = receipts[k]
        BY <2>5, <3>2 DEF Rollback, TypeOK
      <4> QED
        BY <2>4, <4>1
    <3> QED
      BY <3>1, <3>2
  <2> QED
    BY <1>10, <2>4, <2>5 DEF ReconcileConfirm
<1>11. CASE Crash
  <2>1. Unconfirmed(k)' = {}
    BY <1>11 DEF Crash, Unconfirmed, Actors
  <2>2. journal' = journal /\ receipts' = receipts
    BY <1>11 DEF Crash, stores
  <2> QED
    BY <2>1, <2>2, KeyStill
<1>12. CASE CheckIn \/ StopTeam \/ (\E m \in Messages : Trim(m)) \/ UNCHANGED vars
  BY <1>1, <1>12 DEF CheckIn, StopTeam, Trim, vars, stores
<1>13. CASE ReconcileFails
  <2>1. /\ undo'[Sweeper] = None /\ \A c \in Calls : undo'[c] = undo[c]
        /\ journal' = journal /\ receipts' = receipts
    BY <1>13, DeliveryAssumption DEF ReconcileFails, TypeOK, Actors, stores
  <2>2. /\ Unconfirmed(k)' \subseteq Unconfirmed(k) \ {Sweeper}
        /\ \A a \in Unconfirmed(k)' : undo'[a] = undo[a]
    BY <2>1, OtherSweep
  <2> QED
    BY <2>1, <2>2, KeyStill
<1> QED
  BY <1>7, <1>8, <1>9, <1>10, <1>11, <1>12, <1>13 DEF Next, CallAction

\* The records of the keys stay in order.
LEMMA CoherentStep ==
    ASSUME TypeOK, TruthInv, Pending, CoherentInv, [Next]_vars PROVE CoherentInv'
<1> SUFFICES ASSUME NEW k \in Keys, k \notin raced' PROVE Orderly(k)'
  BY DEF CoherentInv
<1>1. Orderly(k)
  BY RacedGrows DEF CoherentInv
<1> QED
  BY <1>1, KeyStep DEF KeyKept

\* begin, for a key whose commits did not race: it answers "duplicate" on a receipt
\* that stays, and "go" when no call of the key was answered.
LEMMA BeginFinal ==
    ASSUME TypeOK, TruthInv, Pending, OnceInv, NEW c \in Calls, Begin(c),
           KeyOf[c] \notin raced'
    PROVE  /\ call'[c].verdict = "duplicate" => Stays(KeyOf[c])
           /\ Going(c)' => \A b \in Calls : KeyOf[b] = KeyOf[c] => ack[b] = None
<1> DEFINE k == KeyOf[c]
           r == Run(c)
           p == call[c].payload
<1>1. k \in Keys /\ r \in Runs /\ call[c] \in Call
  BY RunType DEF TypeOK
<1>2. raced \subseteq raced'
  BY RacedGrows DEF Next
<1>3. Orderly(k) /\ \A b \in Calls : KeyOf[b] = k /\ ack[b] # None => Stays(k)
  BY <1>1, <1>2 DEF OnceInv, CoherentInv, FinalInv, Final
<1>4. ASSUME NEW verdict, NEW ids, NEW i, Answered(c, verdict, ids, i)
      PROVE  call'[c].phase = "begun" /\ call'[c].verdict = verdict
  BY <1>1, <1>4 DEF Answered, TypeOK, Call
<1>5. CASE \E verdict \in Takers(k, p) : Answered(c, verdict, {}, None)
  <2>1. PICK verdict \in Takers(k, p) : Answered(c, verdict, {}, None)
    BY <1>5
  <2>2. verdict \in {"taken", "conflict"}
    BY DEF Takers
  <2>3. call'[c].phase = "begun" /\ call'[c].verdict = verdict
    BY <2>1, <1>4, Zenon
  <2> QED
    BY <2>2, <2>3 DEF Going
<1>6. CASE Race(k) /\ \E i \in CommittedAt(k, r) : Answered(c, "duplicate", {}, i)
  <2>1. PICK i \in CommittedAt(k, r) : Answered(c, "duplicate", {}, i)
    BY <1>6
  <2>2. call'[c].phase = "begun" /\ call'[c].verdict = "duplicate"
    BY <2>1, <1>4, Zenon
  <2>3. Unconfirmed(k) = {}
    BY <1>6 DEF Race
  <2>4. receipts[k] # None
    BY <1>1, <1>3, <2>1 DEF CommittedAt, Orderly, Coherent
  <2> QED
    BY <2>2, <2>3, <2>4 DEF Stays, Going
<1>7. CASE /\ CommittedAt(k, r) = {}
           /\ \E ids, i : Answered(c, "go", ids, i)
  <2>1. call'[c].phase = "begun" /\ call'[c].verdict = "go"
    BY <1>4, <1>7, Zenon
  <2>2. receipts[k] = None
    BY <1>7 DEF CommittedAt
  <2> QED
    BY <1>3, <2>1, <2>2 DEF Stays
<1> HIDE DEF k, r, p
<1>8. Begin(c) => \/ \E verdict \in Takers(k, p) : Answered(c, verdict, {}, None)
                  \/ Race(k) /\ \E i \in CommittedAt(k, r) : Answered(c, "duplicate", {}, i)
                  \/ CommittedAt(k, r) = {} /\ \E ids, i : Answered(c, "go", ids, i)
  BY Zenon DEF Begin, k, r, p
<1> QED
  BY <1>5, <1>6, <1>7, <1>8 DEF k, r, p

\* Answers stay answers: what they rest on stays, and no call goes on after one.
LEMMA FinalStep ==
    ASSUME TypeOK, TruthInv, Pending, OnceInv, [Next]_vars PROVE FinalInv'
<1>1. raced \subseteq raced'
  BY RacedGrows
<1>2. ASSUME NEW k \in Keys, k \notin raced', Stays(k) PROVE Stays(k)'
  <2>1. Orderly(k)
    BY <1>1, <1>2 DEF OnceInv, CoherentInv
  <2> QED
    BY <1>2, <2>1, KeyStep DEF KeyKept
<1>3. \A b \in Calls : KeyOf[b] \in Keys
  BY DeliveryAssumption
<1>4. ASSUME NEW c \in Calls, CallAction(c) PROVE FinalInv'
  <2> SUFFICES ASSUME NEW b \in Calls, KeyOf[b] \notin raced'
               PROVE  /\ ack'[b] # None => Stays(KeyOf[b])'
                      /\ call'[b].phase = "begun" /\ call'[b].verdict = "duplicate"
                            => Stays(KeyOf[b])'
                      /\ Going(b)' => \A d \in Calls : KeyOf[d] = KeyOf[b] => ack'[d] = None
    BY DEF FinalInv, Final
  <2>1. Moves(c)
    BY <1>4, CallMoves
  <2>2. Final(b) /\ KeyOf[b] \notin raced
    BY <1>1 DEF OnceInv, FinalInv
  <2>3. Begin(b) /\ b = c =>
          /\ call'[b].verdict = "duplicate" => Stays(KeyOf[b])
          /\ Going(b)' => \A d \in Calls : KeyOf[d] = KeyOf[b] => ack[d] = None
    BY BeginFinal
  <2>4. ack'[b] # None => Stays(KeyOf[b])'
    <3>1. CASE ack'[b] = ack[b]
      BY <1>2, <1>3, <2>2, <3>1 DEF Final
    <3>2. CASE ack'[b] # ack[b]
      <4>1. b = c /\ Answer(c, call[c].id)
        BY <1>4, <2>1, <3>2 DEF Moves, CallAction, Deliver, TakeTurn, Begin, Recheck, Look, Arm,
           Write, ReadBack, CommitDelivery, JournalFails, Confirm, Fail, Refuse, Rejected
      <4>2. CASE Recheck(c)
        <5>1. call[c].phase = "begun" /\ call[c].verdict = "duplicate"
          BY <3>2, <4>1, <4>2 DEF Recheck, Refuse, Rejected
        <5> QED
          BY <1>2, <1>3, <2>2, <4>1, <5>1 DEF Final
      <4>3. CASE Confirm(c)
        <5> DEFINE k == KeyOf[c]
        <5>1. call[c].phase = "confirming" /\ UNCHANGED <<journal, receipts, sweep>>
              /\ undo' = [undo EXCEPT ![c] = None]
          BY <3>2, <4>1, <4>3 DEF Confirm
        <5>2. k \in Keys /\ k \notin raced /\ c \in Unconfirmed(k)
          BY <1>3, <2>2, <4>1, <5>1 DEF Pending, Unconfirmed
        <5>3. Latest(k, c)
          BY <5>2 DEF OnceInv, CoherentInv, Orderly
        <5>4. Unconfirmed(k)' = {}
          <6>1. \A a \in Unconfirmed(k)' : a \in Unconfirmed(k) /\ a # c
            BY <5>1, DeliveryAssumption DEF Unconfirmed, TypeOK, Actors
          <6> QED
            BY <5>3, <6>1 DEF Latest
        <5>5. receipts'[k] # None
          BY <5>1, <5>3 DEF Latest
        <5> QED
          BY <4>1, <5>4, <5>5 DEF Stays
      <4> QED
        BY <1>4, <3>2, <4>2, <4>3 DEF CallAction, Deliver, TakeTurn, Begin, Look, Arm,
           Write, ReadBack, CommitDelivery, JournalFails, Fail, Refuse, Rejected
    <3> QED
      BY <3>1, <3>2
  <2>5. call'[b].phase = "begun" /\ call'[b].verdict = "duplicate" => Stays(KeyOf[b])'
    <3>1. CASE b # c
      BY <1>2, <1>3, <2>1, <2>2, <3>1 DEF Final, Moves
    <3>2. CASE b = c
      BY <1>2, <1>3, <2>1, <2>3, <3>2 DEF Moves
    <3> QED
      BY <3>1, <3>2
  <2>6. ASSUME Going(b)', NEW d \in Calls, KeyOf[d] = KeyOf[b] PROVE ack'[d] = None
    <3>1. CASE b # c
      <4>1. Going(b) /\ HasTurn(b)
        BY <2>1, <2>6, <3>1 DEF Moves, Going, HasTurn
      <4>2. ack[d] = None
        BY <2>2, <2>6, <4>1 DEF Final
      <4>3. d = c => ~HasTurn(c)
        BY <2>6, <3>1, <4>1 DEF OnceInv, TurnInv
      <4> QED
        BY <2>1, <4>2, <4>3 DEF Moves
    <3>2. CASE b = c
      <4>1. ack' = ack /\ (Going(c) \/ Begin(c))
        BY <2>1, <2>6, <3>2 DEF Moves
      <4> QED
        BY <2>2, <2>3, <2>6, <3>2, <4>1 DEF Final
    <3> QED
      BY <3>1, <3>2
  <2> QED
    BY <2>4, <2>5, <2>6
<1>5. CASE call' = call /\ ack' = ack
  BY <1>1, <1>2, <1>3, <1>5 DEF OnceInv, FinalInv, Final, Going
<1>6. CASE Crash
  <2>1. \A c \in Calls : call'[c].phase \in {"idle", "over"}
    BY <1>6 DEF Crash, Idle
  <2>2. ack' = ack
    BY <1>6 DEF Crash
  <2> QED
    BY <1>1, <1>2, <1>3, <2>1, <2>2 DEF OnceInv, FinalInv, Final, Going
<1> QED
  BY <1>4, <1>5, <1>6 DEF Next, CallAction, vars, Reconcile, ReconcileLook, ReconcileCommit,
     ReconcileConfirm, ReconcileFails, CheckIn, StopTeam, Trim

\* Initially no call is going on and no record is there.
LEMMA OnceInit == Init => OnceInv
<1> SUFFICES ASSUME Init PROVE OnceInv
  OBVIOUS
<1>1. \A c \in Calls : call[c].phase = "idle" /\ ack[c] = None
  BY DEF Init, Idle
<1>2. \A k \in Keys : Unconfirmed(k) = {} /\ Coherent(journal[k], receipts[k])
  BY DEF Init, Unconfirmed, Actors, Coherent
<1> QED
  BY <1>1, <1>2 DEF OnceInv, TurnInv, HasTurn, CoherentInv, Orderly, FinalInv, Final, Going

\* The whole invariant.
LEMMA Once == Spec => [](TypeOK /\ TruthInv /\ Pending /\ OnceInv)
<1>1. Init => TypeOK /\ TruthInv /\ Pending /\ OnceInv
  BY TruthInit, OnceInit
<1>2. (TypeOK /\ TruthInv /\ Pending /\ OnceInv) /\ [Next]_vars
        => (TypeOK /\ TruthInv /\ Pending /\ OnceInv)'
  BY TruthStep, PendingStep, TurnStep, CoherentStep, FinalStep DEF OnceInv
<1> QED
  BY <1>1, <1>2, PTL DEF Spec

\* The messages of a key whose records are in order are one message.
LEMMA OneOfKey ==
    ASSUME TypeOK, TruthInv, CoherentInv, NEW k \in Keys \ raced
    PROVE  Cardinality(MessagesOf(k)) <= 1
<1>1. \A m, n \in MessagesOf(k) : m = n
  <2> TAKE m, n \in MessagesOf(k)
  <2>1. m \in made /\ n \in made /\ m[2][1] = k /\ n[2][1] = k
    BY DEF MessagesOf
  <2>2. PICK q \in Runs : journal[k][q] # None /\ journal[k][q].payload = m[1] /\ journal[k][q].id = m[2]
    BY <2>1 DEF TruthInv, MadeInv
  <2>3. PICK r \in Runs : journal[k][r] # None /\ journal[k][r].payload = n[1] /\ journal[k][r].id = n[2]
    BY <2>1 DEF TruthInv, MadeInv
  <2>4. journal[k][q].payload = journal[k][r].payload
    BY <2>2, <2>3 DEF TruthInv, RecordsInv
  <2>5. journal[k][q].id = journal[k][r].id
    BY <2>2, <2>3 DEF CoherentInv, Orderly, Coherent
  <2>6. m \in Payloads \X Ids /\ n \in Payloads \X Ids
    BY <2>1 DEF TypeOK, Messages
  <2>7. m = <<m[1], m[2]>> /\ n = <<n[1], n[2]>>
    BY <2>6
  <2>8. m[1] = n[1] /\ m[2] = n[2]
    BY <2>2, <2>3, <2>4, <2>5
  <2> QED
    BY <2>7, <2>8
<1>2. CASE MessagesOf(k) = {}
  BY <1>2, FS_EmptySet
<1>3. CASE MessagesOf(k) # {}
  <2>1. PICK m : m \in MessagesOf(k)
    BY <1>3
  <2>2. MessagesOf(k) = {m}
    BY <1>1, <2>1
  <2>3. Cardinality({m}) = 1
    BY FS_Singleton
  <2> QED
    BY <2>2, <2>3
<1> QED
  BY <1>2, <1>3

\* Whatever the retries, the sessions, the runs and the restarts, a key becomes one
\* message with one id, unless two commits of the key overlapped (begin, markCommitted).
THEOREM OneMessage == Spec => []OneMessageUnlessRaced
<1>1. TypeOK /\ TruthInv /\ OnceInv => OneMessageUnlessRaced
  BY OneOfKey DEF OnceInv, OneMessageUnlessRaced
<1> QED
  BY <1>1, Once, PTL

\* Once a call was told its message is delivered, no call of the key writes again,
\* unless two commits of the key overlapped (deliverEnvelope).
THEOREM NeverRewritten == Spec => AnsweredNeverRewritten
<1>1. OnceInv /\ [Next]_vars =>
        [\A c \in Calls : Writes(c) /\ KeyOf[c] \notin raced =>
           \A b \in Calls : KeyOf[b] = KeyOf[c] => ack[b] = None]_vars
  BY DEF OnceInv, FinalInv, Final, Writes, Going
<1> QED
  BY <1>1, Once, PTL DEF Spec, AnsweredNeverRewritten

-----------------------------------------------------------------------------
(* Part 3: one row per message. *)

\* The id of the record a call works for, and its message.
OwnId(c) == journal[KeyOf[c]][Run(c)].id
OwnMessage(c) == <<call[c].payload, OwnId(c)>>

\* A call that may still write, and the ids it has yet to look for.
Hunting(c) ==
    \/ call[c].phase \in {"looking", "unseen", "armed"}
    \/ call[c].phase = "begun" /\ call[c].verdict = "go"
    \/ call[c].phase \in {"committing", "confirming"} /\ ~call[c].wrote
Hunted(c) ==
    IF call[c].phase \in {"unseen", "armed"} THEN {}
    ELSE IF call[c].phase \in {"committing", "confirming"} THEN call[c].ids \union {call[c].id}
    ELSE call[c].ids

\* A call that may write has looked for its message, or it will.
Hunt(c) ==
    Hunting(c) => \/ OwnId(c) \in Hunted(c)
                  \/ KeyOf[c] \notin blind => rows[OwnMessage(c)] = 0

RowsOnceInv == OneRowUnlessUnseen /\ \A c \in Calls : Hunt(c)

\* A call that may write has a record, and the turn.
LEMMA HuntingGoing ==
    ASSUME TypeOK, TruthInv, NEW c \in Calls, Hunting(c)
    PROVE  /\ Going(c) /\ HasTurn(c) /\ KeyOf[c] \in Keys /\ Run(c) \in Runs
           /\ journal[KeyOf[c]][Run(c)] # None
           /\ OwnId(c) \in Ids /\ OwnId(c)[1] = KeyOf[c] /\ OwnMessage(c) \in Messages
<1>1. Going(c) /\ HasTurn(c)
  BY DEF Hunting, Going, HasTurn
<1>2. KeyOf[c] \in Keys /\ Run(c) \in Runs /\ call[c].payload \in Payloads
  BY RunType DEF TypeOK, Call
<1>3. journal[KeyOf[c]][Run(c)] # None
  BY <1>1 DEF TruthInv, CallOK, Owns
<1>4. OwnId(c) \in Ids /\ OwnId(c)[1] = KeyOf[c]
  BY <1>2, <1>3, RecordType DEF OwnId, TruthInv, RecordsInv
<1> QED
  BY <1>1, <1>2, <1>3, <1>4 DEF OwnMessage, Messages

\* No step loses a record, or changes its payload or its id.
LEMMA KeptStep == ASSUME TypeOK, TruthInv, Pending, [Next]_vars PROVE Kept
<1> RecordsInv /\ ReceiptsInv /\ \A a \in Actors : UndoOK(a)
  BY DEF TruthInv
<1>1. ASSUME journal' = journal PROVE Kept
  BY <1>1 DEF Kept
<1>2. ASSUME NEW c \in Calls, NEW status \in {"failed_retryable", "failed_terminal"},
             MarkFailed(c, status), made' = made
      PROVE  Kept
  BY <1>2, MarkFailedOK DEF JournalOK
<1>3. ASSUME NEW c \in Calls, Rejected(c), made' = made PROVE Kept
  BY <1>2, <1>3 DEF Rejected
<1>4. ASSUME NEW c \in Calls, Begin(c), journal' # journal PROVE Kept
  <2> DEFINE k == KeyOf[c]
             r == Run(c)
             p == call[c].payload
  <2>1. k \in Keys /\ r \in Runs /\ p \in Payloads /\ made' = made
    BY <1>4, RunType DEF TypeOK, Call, Begin
  <2>2. ~Conflicts(k, p) /\ CommittedAt(k, r) = {}
    BY <1>4 DEF Begin
  <2>3. PICK i \in (IF journal[k][r] = None THEN NewId(k, r) ELSE {journal[k][r].id}) :
          Recorded(k, r, p, i)
    BY <1>4 DEF Begin, Recorded
  <2>4. receipts[k] = None
    BY <2>2 DEF CommittedAt
  <2> HIDE DEF k, r, p
  <2>5. i \in Ids /\ i[1] = k
    BY <2>1, <2>3, NewIdType, RecordType DEF RecordsInv
  <2> QED
    BY <2>1, <2>2, <2>3, <2>4, <2>5, BeginOK DEF JournalOK
<1>5. ASSUME NEW a \in Actors, NEW k \in Keys, NEW r \in Runs, NEW i \in Ids,
             journal[k][r] # None, <<journal[k][r].payload, i>> \in made,
             Commit(a, k, r, i), made' = made
      PROVE  Kept
  BY <1>5, CommitOK DEF JournalOK
<1>6. ASSUME NEW c \in Calls, CommitDelivery(c) PROVE Kept
  <2>1. /\ KeyOf[c] \in Keys /\ Run(c) \in Runs /\ c \in Actors /\ made' = made
        /\ Commit(c, KeyOf[c], Run(c), call[c].id)
    BY <1>6, RunType DEF Actors, CommitDelivery
  <2>2. /\ journal[KeyOf[c]][Run(c)] # None
        /\ <<journal[KeyOf[c]][Run(c)].payload, call[c].id>> \in made
    BY <1>6 DEF CommitDelivery, TruthInv, CallOK, Going, Known, Owns
  <2>3. call[c].id \in Ids
    BY <2>2 DEF TypeOK, Messages
  <2> QED
    BY <1>5, <2>1, <2>2, <2>3
<1>7. CASE ReconcileCommit
  <2>1. /\ sweep.key \in Keys /\ sweep.run \in Runs /\ sweep.id \in Ids /\ Sweeper \in Actors
        /\ made' = made /\ Commit(Sweeper, sweep.key, sweep.run, sweep.id)
    BY <1>7 DEF ReconcileCommit, TypeOK, Sweep, Actors
  <2>2. /\ journal[sweep.key][sweep.run] # None
        /\ <<journal[sweep.key][sweep.run].payload, sweep.id>> \in made
    BY <1>7 DEF ReconcileCommit, TruthInv, SweepOK, Owns
  <2> QED
    BY <1>5, <2>1, <2>2
<1>8. ASSUME NEW a \in Actors, NEW k \in Keys, undo[a] # None, Rollback(a, k), made' = made
      PROVE  Kept
  BY <1>8, RollbackOK DEF JournalOK
<1>9. ASSUME NEW c \in Calls, Confirm(c) PROVE Kept
  <2>1. c \in Actors /\ KeyOf[c] \in Keys /\ undo[c] # None /\ made' = made
    BY <1>9, RunType DEF Actors, Confirm, Pending
  <2> QED
    BY <1>1, <1>8, <1>9, <2>1 DEF Confirm
<1>10. CASE ReconcileConfirm
  <2>1. Sweeper \in Actors /\ sweep.key \in Keys /\ undo[Sweeper] # None /\ made' = made
    BY <1>10 DEF Actors, ReconcileConfirm, Pending, TypeOK, Sweep
  <2> QED
    BY <1>1, <1>8, <1>10, <2>1 DEF ReconcileConfirm
<1>11. ASSUME NEW c \in Calls, CallAction(c) PROVE Kept
  <2>1. CASE Deliver(c) \/ TakeTurn(c) \/ Write(c) \/ ReadBack(c) \/ JournalFails(c)
    BY <1>1, <2>1 DEF Deliver, TakeTurn, Write, ReadBack, JournalFails, stores
  <2>2. CASE Recheck(c) \/ Look(c) \/ Arm(c)
    BY <1>1, <1>3, <2>2 DEF Recheck, Look, Arm
  <2>3. CASE Fail(c)
    BY <1>1, <1>2, <1>3, <2>3 DEF Fail
  <2> QED
    BY <1>1, <1>4, <1>6, <1>9, <1>11, <2>1, <2>2, <2>3 DEF CallAction
<1> QED
  BY <1>1, <1>7, <1>10, <1>11 DEF Next, CallAction, vars, stores, Reconcile, ReconcileLook,
     ReconcileFails, CheckIn, StopTeam, Trim, Crash

\* A row that was not seen once is never taken for one that was.
LEMMA BlindGrows == ASSUME [Next]_vars PROVE blind \subseteq blind'
<1>1. ASSUME NEW c \in Calls, CallAction(c) PROVE blind \subseteq blind'
  BY <1>1 DEF CallAction, Deliver, TakeTurn, Begin, Recheck, Look, Arm, Write, ReadBack,
     CommitDelivery, JournalFails, Confirm, Fail, Sees, Misses
<1>2. ASSUME Next, ~\E c \in Calls : CallAction(c) PROVE blind \subseteq blind'
  BY <1>2 DEF Next, CallAction, Reconcile, ReconcileLook, ReconcileCommit, ReconcileConfirm,
     ReconcileFails, CheckIn, StopTeam, Trim, Crash, Sees, Misses
<1> QED
  BY <1>1, <1>2 DEF vars

\* Only a write makes rows.
LEMMA RowsStep ==
    ASSUME TypeOK, [Next]_vars, ~\E c \in Calls : Write(c), NEW m \in Messages
    PROVE  rows'[m] <= rows[m]
<1>1. rows[m] \in Nat
  BY DEF TypeOK
<1>2. ASSUME NEW c \in Calls, CallAction(c), ~Write(c) PROVE rows' = rows
  BY <1>2 DEF CallAction, Deliver, TakeTurn, Begin, Recheck, Look, Arm, ReadBack,
     CommitDelivery, JournalFails, Confirm, Fail, stores
<1>3. ASSUME NEW n \in Messages, Trim(n) PROVE rows'[m] <= rows[m]
  BY <1>1, <1>3 DEF Trim, TypeOK
<1>4. ASSUME Next, ~\E c \in Calls : CallAction(c), ~\E n \in Messages : Trim(n)
      PROVE  rows' = rows
  BY <1>4 DEF Next, CallAction, Reconcile, ReconcileLook, ReconcileCommit, ReconcileConfirm,
     ReconcileFails, CheckIn, StopTeam, Crash, stores
<1> QED
  BY <1>1, <1>2, <1>3, <1>4 DEF vars, stores

\* A read that misses ids, and leaves the key as one all rows of which were seen,
\* misses what is not there.
LEMMA MissedAbsent ==
    ASSUME TypeOK, NEW k, NEW p \in Payloads, NEW ids, Misses(k, p, ids), k \notin blind',
           NEW i \in ids, i \in Ids
    PROVE  rows[<<p, i>>] = 0
<1>1. ~Visible(p, i)
  BY DEF Misses
<1>2. rows[<<p, i>>] \in Nat
  BY DEF TypeOK, Messages
<1> QED
  BY <1>1, <1>2 DEF Visible

\* A write is of the message of the call's own record.
LEMMA WriteRows ==
    ASSUME TypeOK, TruthInv, NEW c \in Calls, Write(c)
    PROVE  /\ Hunting(c) /\ call[c].id = OwnId(c) /\ OwnMessage(c) \in Messages
           /\ \A m \in Messages : m # OwnMessage(c) => rows'[m] = rows[m]
           /\ rows'[OwnMessage(c)] \in {rows[OwnMessage(c)], rows[OwnMessage(c)] + 1}
           /\ OwnMessage(c)[1] \in Inbox /\ rows[OwnMessage(c)] > 0 => rows' = rows
<1>1. Hunting(c) /\ call[c].id = OwnId(c)
  BY DEF Write, Hunting, TruthInv, CallOK, OwnId
<1>2. OwnMessage(c) \in Messages /\ call[c].payload \in Payloads /\ OwnId(c) \in Ids
  BY <1>1, HuntingGoing DEF TypeOK, Call
<1>3. rows' = rows \/ rows' = [rows EXCEPT ![OwnMessage(c)] = @ + 1]
  BY <1>1 DEF Write, OwnMessage
<1>4. call[c].payload \in Inbox /\ rows[OwnMessage(c)] > 0 => rows' = rows
  <2>1. rows[OwnMessage(c)] > 0 => Visible(call[c].payload, call[c].id)
    BY <1>1, <1>2 DEF Visible, OwnMessage
  <2> QED
    BY <2>1 DEF Write
<1>5. OwnMessage(c)[1] = call[c].payload
  BY DEF OwnMessage
<1> QED
  BY <1>1, <1>2, <1>3, <1>4, <1>5 DEF TypeOK

\* The hunt of a call that does not move.
LEMMA HuntStill ==
    ASSUME TypeOK, TruthInv, Pending, TurnInv, [Next]_vars, NEW b \in Calls, Hunt(b),
           call'[b] = call[b]
    PROVE  Hunt(b)'
<1> SUFFICES ASSUME Hunting(b)', KeyOf[b] \notin blind', OwnId(b)' \notin Hunted(b)'
             PROVE  rows'[OwnMessage(b)'] = 0
  BY DEF Hunt
<1>1. Hunting(b)
  BY DEF Hunting
<1>2. /\ HasTurn(b) /\ KeyOf[b] \in Keys /\ Run(b) \in Runs
      /\ journal[KeyOf[b]][Run(b)] # None
      /\ OwnId(b)[1] = KeyOf[b] /\ OwnMessage(b) \in Messages
  BY <1>1, HuntingGoing
<1>3. Kept /\ blind \subseteq blind'
  BY KeptStep, BlindGrows
<1>4. OwnId(b)' = OwnId(b) /\ OwnMessage(b)' = OwnMessage(b) /\ Hunted(b)' = Hunted(b)
  BY <1>2, <1>3 DEF OwnId, OwnMessage, Kept, Run, Hunted
<1>5. rows[OwnMessage(b)] = 0
  BY <1>1, <1>3, <1>4 DEF Hunt
<1>6. rows'[OwnMessage(b)] = 0
  <2>1. CASE ~\E c \in Calls : Write(c)
    <3>1. rows'[OwnMessage(b)] <= 0
      BY <1>2, <1>5, <2>1, RowsStep
    <3>2. rows'[OwnMessage(b)] \in Nat
      BY <1>2, TruthStep DEF TypeOK
    <3> QED
      BY <3>1, <3>2
  <2>2. ASSUME NEW c \in Calls, Write(c) PROVE rows'[OwnMessage(b)] = 0
    <3>1. Hunting(c) /\ \A m \in Messages : m # OwnMessage(c) => rows'[m] = rows[m]
      BY <2>2, WriteRows
    <3>2. HasTurn(c) /\ OwnId(c)[1] = KeyOf[c]
      BY <3>1, HuntingGoing
    <3>3. call'[c] # call[c]
      BY <2>2 DEF Write, To, TypeOK, Call
    <3>4. OwnMessage(b) # OwnMessage(c)
      <4>1. KeyOf[b] # KeyOf[c]
        BY <1>2, <3>2, <3>3 DEF TurnInv
      <4>2. OwnId(b) # OwnId(c)
        BY <1>2, <3>2, <4>1
      <4> QED
        BY <4>2 DEF OwnMessage
    <3> QED
      BY <1>2, <1>5, <3>1, <3>4
  <2> QED
    BY <2>1, <2>2
<1> QED
  BY <1>4, <1>6

\* The hunt of a call that moves.
LEMMA HuntMoves ==
    ASSUME TypeOK, TruthInv, Pending, [Next]_vars, NEW c \in Calls, CallAction(c), Hunt(c)
    PROVE  Hunt(c)'
<1> SUFFICES ASSUME Hunting(c)' PROVE \/ OwnId(c)' \in Hunted(c)'
                                      \/ KeyOf[c] \notin blind' => rows'[OwnMessage(c)'] = 0
  BY DEF Hunt
<1> DEFINE k == KeyOf[c]
           p == call[c].payload
<1>1. k \in Keys /\ Run(c) \in Runs /\ call[c] \in Call /\ p \in Payloads
  BY RunType DEF TypeOK, Call
<1>2. Kept /\ blind \subseteq blind'
  BY KeptStep, BlindGrows
<1>3. ASSUME Hunting(c), call'[c].session = call[c].session, call'[c].payload = p
      PROVE  /\ OwnId(c)' = OwnId(c) /\ OwnMessage(c)' = OwnMessage(c)
             /\ OwnMessage(c) = <<p, OwnId(c)>> /\ OwnId(c) \in Ids
             /\ OwnId(c) \in Hunted(c) \/ (k \notin blind => rows[OwnMessage(c)] = 0)
  <2>1. journal[k][Run(c)] # None /\ OwnId(c) \in Ids
    BY <1>3, HuntingGoing
  <2> QED
    BY <1>1, <1>2, <1>3, <2>1 DEF OwnId, OwnMessage, Kept, Run, Hunt
<1>4. ASSUME Hunting(c), call'[c].session = call[c].session, call'[c].payload = p,
             rows' = rows, Hunted(c) \subseteq Hunted(c)'
      PROVE  \/ OwnId(c)' \in Hunted(c)'
             \/ KeyOf[c] \notin blind' => rows'[OwnMessage(c)'] = 0
  BY <1>2, <1>3, <1>4
<1>5. CASE Refuse(c) \/ Rejected(c) \/ Answer(c, call[c].id)
  <2>1. call'[c].phase = "over"
    BY <1>5, OverType DEF Refuse, Rejected, Answer
  <2> QED
    BY <2>1 DEF Hunting
<1>6. CASE Deliver(c) \/ (TakeTurn(c) /\ ~Refuse(c)) \/ Write(c) \/ (JournalFails(c) /\ ~Refuse(c))
  <2>1. call'[c].phase \in {"queued", "checked", "written", "failing"}
    BY <1>1, <1>6 DEF Deliver, TakeTurn, Write, JournalFails, To, TypeOK, Call
  <2> QED
    BY <2>1 DEF Hunting
<1>7. CASE ReadBack(c)
  <2>1. \/ call'[c].phase = "failing"
        \/ call'[c].phase = "committing" /\ call'[c].wrote
    BY <1>1, <1>7 DEF ReadBack, TypeOK, Call
  <2> QED
    BY <2>1 DEF Hunting
<1>8. CASE Begin(c)
  <2>1. ASSUME NEW verdict, NEW ids, NEW i, Answered(c, verdict, ids, i)
        PROVE  /\ call'[c].phase = "begun" /\ call'[c].verdict = verdict /\ call'[c].ids = ids
               /\ call'[c].session = call[c].session
    BY <1>1, <2>1 DEF Answered, TypeOK, Call
  <2>2. CASE \E verdict \in Takers(k, p) : Answered(c, verdict, {}, None)
    <3>1. PICK verdict \in Takers(k, p) : Answered(c, verdict, {}, None)
      BY <2>2
    <3>2. verdict \in {"taken", "conflict"}
      BY DEF Takers
    <3>3. call'[c].phase = "begun" /\ call'[c].verdict = verdict
      BY <2>1, <3>1, Zenon
    <3> QED
      BY <3>2, <3>3 DEF Hunting
  <2>3. CASE \E i \in CommittedAt(k, Run(c)) : Answered(c, "duplicate", {}, i)
    <3>1. call'[c].phase = "begun" /\ call'[c].verdict = "duplicate"
      BY <2>1, <2>3, Zenon
    <3> QED
      BY <3>1 DEF Hunting
  <2>4. CASE \E i \in (IF journal[k][Run(c)] = None THEN NewId(k, Run(c))
                                                   ELSE {journal[k][Run(c)].id}) :
               /\ Answered(c, "go", {i} \union {journal[k][q].id : q \in Lineage(k, Run(c))}, i)
               /\ journal' = [journal EXCEPT ![k][Run(c)] = Begun(journal[k][Run(c)], p, i)]
    <3>1. PICK i \in (IF journal[k][Run(c)] = None THEN NewId(k, Run(c))
                                                   ELSE {journal[k][Run(c)].id}) :
               /\ Answered(c, "go", {i} \union {journal[k][q].id : q \in Lineage(k, Run(c))}, i)
               /\ journal' = [journal EXCEPT ![k][Run(c)] = Begun(journal[k][Run(c)], p, i)]
      BY <2>4
    <3> DEFINE ids == {i} \union {journal[k][q].id : q \in Lineage(k, Run(c))}
    <3>2. i \in ids /\ Answered(c, "go", ids, i)
      BY <3>1
    <3> HIDE DEF ids
    <3>3. call'[c].phase = "begun" /\ call'[c].ids = ids /\ call'[c].session = call[c].session
      BY <2>1, <3>2, Zenon
    <3>4. Hunted(c)' = ids
      BY <3>3 DEF Hunted
    <3>5. journal'[k][Run(c)] = Begun(journal[k][Run(c)], p, i)
      BY <1>1, <3>1 DEF TypeOK
    <3>6. OwnId(c)' = Begun(journal[k][Run(c)], p, i).id
      BY <3>3, <3>5 DEF OwnId, Run
    <3>7. Begun(journal[k][Run(c)], p, i).id = i
      <4>1. CASE journal[k][Run(c)] = None
        BY <4>1 DEF Begun
      <4>2. CASE journal[k][Run(c)] # None
        <5>1. journal[k][Run(c)] \in Record /\ i = journal[k][Run(c)].id
          BY <1>1, <3>1, <4>2, RecordType
        <5> QED
          BY <4>2, <5>1 DEF Begun, Record
      <4> QED
        BY <4>1, <4>2
    <3> QED
      BY <3>2, <3>4, <3>6, <3>7
  <2> QED
    BY <1>8, <2>2, <2>3, <2>4, Zenon DEF Begin
<1>9. CASE Recheck(c) /\ ~(Refuse(c) \/ Rejected(c) \/ Answer(c, call[c].id))
  <2>1. /\ To(c, "looking") /\ call[c].verdict = "go" /\ call[c].phase = "begun" /\ rows' = rows
        /\ "looking" \in Phases
    BY <1>9 DEF Recheck, Phases
  <2>2. /\ call'[c].phase = "looking" /\ call'[c].ids = call[c].ids
        /\ call'[c].session = call[c].session /\ call'[c].payload = p
    BY <2>1, ToType
  <2>3. Hunting(c) /\ Hunted(c)' = Hunted(c)
    BY <2>1, <2>2 DEF Hunting, Hunted
  <2> QED
    BY <1>4, <2>1, <2>2, <2>3
<1>10. CASE Look(c) /\ ~(Refuse(c) \/ Rejected(c))
  <2>1. Hunting(c) /\ rows' = rows /\ Hunted(c) = call[c].ids
    BY <1>10 DEF Look, Hunting, Hunted
  <2>2. CASE \E i \in call[c].ids :
               call' = [call EXCEPT ![c].phase = "committing", ![c].id = i, ![c].ids = @ \ {i}]
    <3> PICK i \in call[c].ids :
               call' = [call EXCEPT ![c].phase = "committing", ![c].id = i, ![c].ids = @ \ {i}]
      BY <2>2
    <3>1. /\ call'[c].phase = "committing" /\ call'[c].id = i /\ call'[c].ids = call[c].ids \ {i}
          /\ call'[c].session = call[c].session /\ call'[c].payload = p
      BY <1>1 DEF TypeOK, Call
    <3>2. Hunted(c) \subseteq Hunted(c)'
      BY <2>1, <3>1 DEF Hunted
    <3> QED
      BY <1>4, <2>1, <3>1, <3>2
  <2>3. CASE /\ call' = [call EXCEPT ![c].phase = "unseen", ![c].ids = {}]
             /\ Misses(k, p, call[c].ids)
    <3>1. /\ call'[c].session = call[c].session /\ call'[c].payload = p
      BY <1>1, <2>3 DEF TypeOK, Call
    <3>2. /\ OwnMessage(c)' = <<p, OwnId(c)>> /\ OwnMessage(c) = <<p, OwnId(c)>>
          /\ OwnId(c) \in Ids
          /\ OwnId(c) \in call[c].ids \/ (k \notin blind => rows[OwnMessage(c)] = 0)
      BY <1>3, <2>1, <3>1
    <3>3. OwnId(c) \in call[c].ids /\ k \notin blind' => rows[<<p, OwnId(c)>>] = 0
      <4> HIDE DEF k, p
      <4> QED
        BY <1>1, <2>3, <3>2, MissedAbsent
    <3> QED
      BY <1>2, <2>1, <3>2, <3>3
  <2> QED
    BY <1>10, <2>2, <2>3 DEF Look
<1>11. CASE Arm(c) /\ ~Rejected(c)
  <2>1. /\ call'[c].phase = "armed" /\ call[c].phase = "unseen" /\ rows' = rows
        /\ call'[c].session = call[c].session /\ call'[c].payload = p
    BY <1>1, <1>11 DEF Arm, TypeOK, Call
  <2>2. Hunting(c) /\ Hunted(c)' = Hunted(c)
    BY <2>1 DEF Hunting, Hunted
  <2> QED
    BY <1>4, <2>1, <2>2
<1>12. CASE CommitDelivery(c)
  <2>1. To(c, "confirming") /\ "confirming" \in Phases /\ call[c].phase = "committing" /\ rows' = rows
    BY <1>12 DEF CommitDelivery, Phases
  <2>2. /\ call'[c].phase = "confirming" /\ call'[c].ids = call[c].ids /\ call'[c].id = call[c].id
        /\ call'[c].session = call[c].session /\ call'[c].payload = p
        /\ call'[c].wrote = call[c].wrote
    BY <2>1, ToType
  <2>3. Hunting(c) /\ Hunted(c)' = Hunted(c)
    BY <2>1, <2>2 DEF Hunting, Hunted
  <2> QED
    BY <1>4, <2>1, <2>2, <2>3
<1>13. CASE Confirm(c) /\ ~Answer(c, call[c].id)
  <2>1. call[c].phase = "confirming" /\ rows' = rows /\ Misses(k, p, {call[c].id})
    BY <1>13 DEF Confirm
  <2>2. CASE call[c].wrote
    <3>1. call'[c].phase = "failing"
      BY <1>1, <1>13, <2>2 DEF Confirm, TypeOK, Call
    <3> QED
      BY <3>1 DEF Hunting
  <2>3. CASE ~call[c].wrote
    <3>1. To(c, IF call[c].ids = {} THEN "unseen" ELSE "looking")
      BY <1>13, <2>3 DEF Confirm
    <3>2. /\ call'[c].phase = IF call[c].ids = {} THEN "unseen" ELSE "looking"
          /\ call'[c].ids = call[c].ids
          /\ call'[c].session = call[c].session /\ call'[c].payload = p
      BY <1>1, <3>1 DEF To, TypeOK, Call
    <3>3. Hunting(c) /\ Hunted(c)' = call[c].ids /\ Hunted(c) = call[c].ids \union {call[c].id}
      BY <2>1, <2>3, <3>2 DEF Hunting, Hunted
    <3>4. /\ OwnId(c)' = OwnId(c) /\ OwnMessage(c)' = <<p, OwnId(c)>>
          /\ OwnMessage(c) = <<p, OwnId(c)>> /\ OwnId(c) \in Ids
          /\ OwnId(c) \in Hunted(c) \/ (k \notin blind => rows[OwnMessage(c)] = 0)
      BY <1>3, <3>2, <3>3
    <3>5. OwnId(c) \in {call[c].id} /\ k \notin blind' => rows[<<p, OwnId(c)>>] = 0
      <4> HIDE DEF k, p
      <4> QED
        BY <1>1, <2>1, <3>4, MissedAbsent
    <3> QED
      BY <1>2, <2>1, <3>3, <3>4, <3>5
  <2> QED
    BY <2>2, <2>3
<1> QED
  BY <1>5, <1>6, <1>7, <1>8, <1>9, <1>10, <1>11, <1>12, <1>13
     DEF CallAction, Fail

\* Rows stay single, and those who may write know that there is none.
LEMMA RowsOnceStep ==
    ASSUME TypeOK, TruthInv, Pending, TurnInv, RowsOnceInv, [Next]_vars
    PROVE  RowsOnceInv'
<1>1. blind \subseteq blind' /\ TypeOK'
  BY BlindGrows, TruthStep
<1>2. OneRowUnlessUnseen'
  <2> SUFFICES ASSUME NEW m \in Messages, m[1] \in Inbox \/ m[2][1] \notin blind'
               PROVE  rows'[m] <= 1
    BY DEF OneRowUnlessUnseen
  <2>1. rows[m] \in Nat /\ rows'[m] \in Nat /\ rows[m] <= 1
    BY <1>1 DEF TypeOK, RowsOnceInv, OneRowUnlessUnseen
  <2>2. CASE ~\E c \in Calls : Write(c)
    BY <2>1, <2>2, RowsStep
  <2>3. ASSUME NEW c \in Calls, Write(c) PROVE rows'[m] <= 1
    <3>1. CASE m # OwnMessage(c)
      BY <2>1, <2>3, <3>1, WriteRows
    <3>2. CASE m = OwnMessage(c)
      <4>1. /\ rows'[m] \in {rows[m], rows[m] + 1}
            /\ m[1] \in Inbox /\ rows[m] > 0 => rows' = rows
        BY <2>3, <3>2, WriteRows
      <4>2. KeyOf[c] \notin blind => rows[m] = 0
        <5>1. Hunted(c) = {} /\ Hunting(c)
          BY <2>3 DEF Write, Hunted, Hunting
        <5> QED
          BY <3>2, <5>1 DEF RowsOnceInv, Hunt
      <4>3. m[2][1] = KeyOf[c]
        BY <2>3, <3>2, WriteRows, HuntingGoing DEF OwnMessage
      <4> QED
        BY <1>1, <2>1, <4>1, <4>2, <4>3
    <3> QED
      BY <3>1, <3>2
  <2> QED
    BY <2>2, <2>3
<1>3. ASSUME NEW b \in Calls PROVE Hunt(b)'
  <2>1. Hunt(b)
    BY DEF RowsOnceInv
  <2>2. CASE call'[b] = call[b]
    BY <2>1, <2>2, HuntStill
  <2>3. CASE CallAction(b)
    BY <2>1, <2>3, HuntMoves
  <2>4. ASSUME NEW c \in Calls, CallAction(c), c # b PROVE call'[b] = call[b]
    BY <2>4, CallMoves DEF Moves
  <2>5. CASE Crash
    <3>1. call'[b].phase \in {"idle", "over"}
      BY <2>5 DEF Crash, Idle
    <3> QED
      BY <3>1 DEF Hunt, Hunting
  <2> QED
    BY <2>2, <2>3, <2>4, <2>5 DEF Next, CallAction, vars, Reconcile, ReconcileLook,
       ReconcileCommit, ReconcileConfirm, ReconcileFails, CheckIn, StopTeam, Trim
<1> QED
  BY <1>2, <1>3 DEF RowsOnceInv

\* The reader sees a message once: an inbox always, the sent file as long as no
\* read missed a row of the key that was there (deliverEnvelope, appendMessage).
THEOREM OneRow == Spec => []OneRowUnlessUnseen
<1>1. Init => RowsOnceInv
  <2> SUFFICES ASSUME Init PROVE RowsOnceInv
    OBVIOUS
  <2>1. \A c \in Calls : call[c].phase = "idle"
    BY DEF Init, Idle
  <2>2. \A c \in Calls : Hunt(c)
    BY <2>1 DEF Hunt, Hunting
  <2>3. OneRowUnlessUnseen
    BY DEF Init, OneRowUnlessUnseen
  <2> QED
    BY <2>2, <2>3 DEF RowsOnceInv
<1>2. (TypeOK /\ TruthInv /\ Pending /\ OnceInv) /\ RowsOnceInv /\ [Next]_vars => RowsOnceInv'
  BY RowsOnceStep DEF OnceInv
<1>3. RowsOnceInv => OneRowUnlessUnseen
  BY DEF RowsOnceInv
<1> QED
  BY <1>1, <1>2, <1>3, Once, PTL DEF Spec

-----------------------------------------------------------------------------
(* Part 4: a key whose commits do not overlap is served as OnceOnly says. *)

\* What says committed names a message of its key, and so does what is put back.
KeyedRecords(k, records) ==
    \A r \in Runs : records[r] # None /\ records[r].status = "committed"
                        => records[r].proof.at[1] = k
KeyedReceipt(k, receipt) == receipt # None => receipt.proof.at[1] = k
KeyFor(a) == IF a = Sweeper THEN sweep.key ELSE KeyOf[a]
Keyed(k) == KeyedRecords(k, journal[k]) /\ KeyedReceipt(k, receipts[k])
KeyedUndo(a) ==
    undo[a] # None => /\ KeyedRecords(KeyFor(a), undo[a].records)
                      /\ KeyedReceipt(KeyFor(a), undo[a].receipt)
KeyedInv ==
    /\ \A k \in Keys : Keyed(k)
    /\ \A c \in Calls : Known(c) => call[c].id[1] = KeyOf[c]
    /\ \A a \in Actors : KeyedUndo(a)

\* A step that may change records of one key's only in status.
LEMMA KeyedMarked ==
    ASSUME TypeOK, KeyedInv, NEW c \in Calls,
           NEW status \in {"failed_retryable", "failed_terminal"},
           MarkFailed(c, status) \/ journal' = journal, receipts' = receipts
    PROVE  \A k \in Keys : Keyed(k)'
<1> SUFFICES ASSUME NEW k \in Keys PROVE Keyed(k)'
  OBVIOUS
<1>1. Keyed(k)
  BY DEF KeyedInv
<1>2. CASE journal'[k] = journal[k]
  BY <1>1, <1>2 DEF Keyed
<1>3. CASE journal' = [journal EXCEPT ![KeyOf[c]][Run(c)].status = status] /\ k = KeyOf[c]
           /\ journal[k][Run(c)] # None
  <2>1. Run(c) \in Runs
    BY RunType
  <2>2. \A r \in Runs : journal'[k][r] =
          IF r = Run(c) THEN [journal[k][r] EXCEPT !.status = status] ELSE journal[k][r]
    BY <1>3, <2>1 DEF TypeOK
  <2>3. ASSUME NEW r \in Runs, journal'[k][r] # None, journal'[k][r].status = "committed"
        PROVE  journal'[k][r].proof.at[1] = k
    <3>1. CASE r # Run(c)
      BY <1>1, <2>2, <2>3, <3>1 DEF Keyed, KeyedRecords
    <3>2. CASE r = Run(c) /\ journal[k][r] # None
      <4>1. journal[k][r] \in Record
        BY <3>2, RecordType
      <4>2. journal'[k][r].status = status
        BY <2>2, <3>2, <4>1 DEF Record
      <4> QED
        BY <2>3, <4>2
    <3> QED
      BY <1>3, <3>1, <3>2
  <2> QED
    BY <1>1, <2>3 DEF Keyed, KeyedRecords
<1> QED
  BY <1>2, <1>3, RunType DEF MarkFailed, TypeOK

\* A commit of a message of the key, and what its rollback will put back.
LEMMA KeyedCommitted ==
    ASSUME TypeOK, KeyedInv, NEW a \in Actors, NEW r \in Runs, NEW i \in Ids,
           NEW k \in Keys, k = KeyFor(a), i[1] = k, journal[k][r] # None,
           Commit(a, k, r, i), KeyFor(a)' = KeyFor(a)
    PROVE  (\A q \in Keys : Keyed(q)') /\ KeyedUndo(a)'
<1> DEFINE proof == [at |-> i, by |-> a]
           became == Became(k, r, proof)
           receipt == [payload |-> journal[k][r].payload, proof |-> proof]
<1>1. PICK kept \in {receipt} \union ({receipts[k]} \ {None}) :
        /\ journal' = [journal EXCEPT ![k] = became]
        /\ receipts' = [receipts EXCEPT ![k] = kept]
        /\ undo' = [undo EXCEPT ![a] = [records |-> journal[k], became |-> became,
                                        receipt |-> receipts[k], receiptBecame |-> kept]]
  BY DEF Commit
<1>2. Keyed(k)
  BY DEF KeyedInv
<1>3. KeyedRecords(k, became)
  <2> SUFFICES ASSUME NEW q \in Runs, became[q] # None, became[q].status = "committed"
               PROVE  became[q].proof.at[1] = k
    BY DEF KeyedRecords
  <2>1. CASE q = r \/ q \in Lineage(k, r)
    <3>1. journal[k][q] \in Record
      BY <2>1, RecordType DEF Lineage
    <3>2. became[q] = [journal[k][q] EXCEPT !.status = "committed", !.proof = proof]
      BY <2>1 DEF Became
    <3>3. became[q].proof = proof
      BY <3>1, <3>2 DEF Record
    <3> HIDE DEF became
    <3> QED
      BY <3>3
  <2>2. CASE ~(q = r \/ q \in Lineage(k, r))
    <3>1. became[q] = journal[k][q]
      BY <2>2 DEF Became
    <3> QED
      BY <1>2, <3>1 DEF Keyed, KeyedRecords
  <2> QED
    BY <2>1, <2>2
<1>4. KeyedReceipt(k, kept)
  BY <1>2 DEF Keyed, KeyedReceipt
<1>5. /\ journal'[k] = became /\ receipts'[k] = kept
      /\ \A q \in Keys : q # k => journal'[q] = journal[q] /\ receipts'[q] = receipts[q]
  BY <1>1 DEF TypeOK
<1>6. undo'[a].records = journal[k] /\ undo'[a].receipt = receipts[k]
  BY <1>1 DEF TypeOK
<1>7. \A q \in Keys : Keyed(q)'
  BY <1>3, <1>4, <1>5 DEF Keyed, KeyedInv
<1>8. KeyedUndo(a)'
  BY <1>2, <1>6 DEF KeyedUndo, Keyed
<1> QED
  BY <1>7, <1>8

\* A rollback puts back records and a receipt of the key.
LEMMA KeyedRolledBack ==
    ASSUME TypeOK, KeyedInv, NEW a \in Actors, NEW k \in Keys, k = KeyFor(a),
           undo[a] # None, Rollback(a, k)
    PROVE  \A q \in Keys : Keyed(q)'
<1>1. Keyed(k) /\ KeyedRecords(k, undo[a].records) /\ KeyedReceipt(k, undo[a].receipt)
  BY DEF KeyedInv, KeyedUndo
<1>2. /\ \A r \in Runs : journal'[k][r] \in {journal[k][r], undo[a].records[r]}
      /\ receipts'[k] \in {receipts[k], undo[a].receipt}
      /\ \A q \in Keys : q # k => journal'[q] = journal[q] /\ receipts'[q] = receipts[q]
  BY DEF Rollback, TypeOK
<1>3. Keyed(k)'
  BY <1>1, <1>2 DEF Keyed, KeyedRecords, KeyedReceipt
<1> QED
  BY <1>2, <1>3 DEF Keyed, KeyedInv

\* What begin can answer; a duplicate is at a committed location.
LEMMA BeginAnswers ==
    ASSUME TypeOK, TruthInv, NEW c \in Calls, Begin(c)
    PROVE  \E verdict, ids, i :
             /\ Answered(c, verdict, ids, i)
             /\ verdict = "duplicate" => i \in CommittedAt(KeyOf[c], Run(c))
<1>1. \/ \E verdict \in Takers(KeyOf[c], call[c].payload) : Answered(c, verdict, {}, None)
      \/ \E i \in CommittedAt(KeyOf[c], Run(c)) : Answered(c, "duplicate", {}, i)
      \/ \E i, ids : Answered(c, "go", ids, i)
  BY Zenon DEF Begin
<1>2. \A verdict \in Takers(KeyOf[c], call[c].payload) : verdict # "duplicate"
  BY DEF Takers
<1> QED
  BY <1>1, <1>2

\* A call knows the message of its own key.
LEMMA KeyedKnown ==
    ASSUME TypeOK, TruthInv, KeyedInv, NEW c \in Calls, CallAction(c), Known(c)'
    PROVE  call'[c].id[1] = KeyOf[c]
<1> DEFINE k == KeyOf[c]
<1>1. call[c] \in Call /\ k \in Keys /\ Run(c) \in Runs
  BY RunType DEF TypeOK
<1>2. CASE Begin(c)
  <2>1. PICK verdict, ids, i :
          /\ Answered(c, verdict, ids, i)
          /\ verdict = "duplicate" => i \in CommittedAt(k, Run(c))
    BY <1>2, BeginAnswers
  <2>2. call'[c].verdict = verdict /\ call'[c].id = i
    BY <1>1, <2>1 DEF Answered, TypeOK, Call
  <2>3. call'[c].phase = "begun"
    BY <1>1, <2>1 DEF Answered, TypeOK, Call
  <2>4. i \in CommittedAt(k, Run(c))
    BY <2>1, <2>2, <2>3 DEF Known
  <2>5. Keyed(k)
    BY <1>1 DEF KeyedInv
  <2> QED
    BY <1>1, <2>2, <2>4, <2>5 DEF CommittedAt, Keyed, KeyedRecords, KeyedReceipt
<1>3. CASE Look(c) /\ ~Refuse(c) /\ ~Rejected(c)
  <2>1. PICK i \in call[c].ids :
             call' = [call EXCEPT ![c].phase = "committing", ![c].id = i, ![c].ids = @ \ {i}]
    <3>1. CASE call' = [call EXCEPT ![c].phase = "unseen", ![c].ids = {}]
      <4>1. call'[c].phase = "unseen"
        BY <1>1, <3>1 DEF TypeOK, Call
      <4> QED
        BY <4>1 DEF Known
    <3> QED
      BY <1>3, <3>1 DEF Look
  <2>2. call'[c].id = i
    BY <1>1, <2>1 DEF TypeOK, Call
  <2> QED
    BY <2>2 DEF TruthInv, CallOK
<1>4. CASE ReadBack(c)
  <2>1. call[c].phase = "written" /\ Going(c)
    BY <1>4 DEF ReadBack, Going
  <2>2. call[c].id = journal[k][Run(c)].id /\ journal[k][Run(c)] # None
    BY <2>1 DEF TruthInv, CallOK, Owns
  <2>3. call'[c].id = call[c].id
    BY <1>1, <1>4 DEF ReadBack, TypeOK, Call
  <2> QED
    BY <1>1, <2>2, <2>3 DEF TruthInv, RecordsInv
<1>5. CASE CommitDelivery(c)
  <2>1. call'[c].id = call[c].id /\ Known(c)
    BY <1>5, ToType DEF CommitDelivery, Phases, Known
  <2> QED
    BY <2>1 DEF KeyedInv
<1>6. CASE \/ Deliver(c) \/ TakeTurn(c) \/ Recheck(c) \/ Arm(c) \/ Write(c) \/ JournalFails(c)
           \/ Confirm(c) \/ Fail(c) \/ Refuse(c) \/ Rejected(c)
  <2>1. \/ call'[c].phase \in {"over", "queued", "checked", "looking", "armed", "written",
                               "failing", "unseen"}
    BY <1>1, <1>6, OverType DEF Deliver, TakeTurn, Recheck, Arm, Write, JournalFails, Confirm,
       Fail, Refuse, Rejected, Answer, To, TypeOK, Call
  <2> QED
    BY <2>1 DEF Known
<1> QED
  BY <1>2, <1>3, <1>4, <1>5, <1>6 DEF CallAction

\* begin's record is not committed.
LEMMA KeyedBegun ==
    ASSUME TypeOK, KeyedInv, NEW c \in Calls, Begin(c) PROVE \A k \in Keys : Keyed(k)'
<1> SUFFICES ASSUME NEW k \in Keys PROVE Keyed(k)'
  OBVIOUS
<1>1. Keyed(k) /\ receipts' = receipts
  BY DEF KeyedInv, Begin
<1>2. CASE journal'[k] = journal[k]
  BY <1>1, <1>2 DEF Keyed
<1>3. ASSUME NEW i, journal' = [journal EXCEPT ![KeyOf[c]][Run(c)] =
                                  Begun(journal[KeyOf[c]][Run(c)], call[c].payload, i)],
             k = KeyOf[c]
      PROVE  Keyed(k)'
  <2> DEFINE record == Begun(journal[k][Run(c)], call[c].payload, i)
  <2>1. Run(c) \in Runs
    BY RunType
  <2>2. \A r \in Runs : journal'[k][r] = IF r = Run(c) THEN record ELSE journal[k][r]
    BY <1>3, <2>1 DEF TypeOK
  <2>3. record.status # "committed"
    <3>1. CASE journal[k][Run(c)] = None
      BY <3>1 DEF Begun
    <3>2. CASE journal[k][Run(c)] # None
      <4>1. journal[k][Run(c)] \in Record
        BY <2>1, <3>2, RecordType
      <4> QED
        BY <3>2, <4>1 DEF Begun, Record
    <3> QED
      BY <3>1, <3>2
  <2> HIDE DEF record
  <2> QED
    BY <1>1, <2>2, <2>3 DEF Keyed, KeyedRecords
<1>4. \/ journal' = journal
      \/ \E i : journal' = [journal EXCEPT ![KeyOf[c]][Run(c)] =
                              Begun(journal[KeyOf[c]][Run(c)], call[c].payload, i)]
  BY Zenon DEF Begin
<1>5. KeyOf[c] # k => journal'[k] = journal[k]
  BY <1>4, RunType DEF TypeOK
<1> QED
  BY <1>2, <1>3, <1>4, <1>5

\* An unconfirmed commit whose actor stays with its key.
LEMMA KeyedUndoStill ==
    ASSUME KeyedInv, NEW a \in Actors,
           undo'[a] # None => undo'[a] = undo[a] /\ KeyFor(a)' = KeyFor(a)
    PROVE  KeyedUndo(a)'
BY DEF KeyedInv, KeyedUndo, KeyedRecords, KeyedReceipt

\* A call's step.
LEMMA KeyedCall ==
    ASSUME TypeOK, TruthInv, Pending, KeyedInv, NEW c \in Calls, CallAction(c)
    PROVE  (\A k \in Keys : Keyed(k)') /\ \A a \in Actors : KeyedUndo(a)'
<1>1. c # Sweeper /\ c \in Actors /\ KeyFor(c) = KeyOf[c] /\ KeyFor(c)' = KeyOf[c]
      /\ KeyOf[c] \in Keys /\ Run(c) \in Runs
  BY DeliveryAssumption, RunType DEF KeyFor, Actors
<1>2. sweep' = sweep
  BY DEF CallAction, Deliver, TakeTurn, Begin, Recheck, Look, Arm, Write, ReadBack, CommitDelivery,
     JournalFails, Confirm, Fail
<1>3. \A a \in Actors : KeyFor(a)' = KeyFor(a)
  BY <1>2 DEF KeyFor
<1>4. CASE CommitDelivery(c)
  <2>1. Commit(c, KeyOf[c], Run(c), call[c].id)
    BY <1>4 DEF CommitDelivery
  <2>2. Known(c) /\ Going(c)
    BY <1>4 DEF CommitDelivery, Known, Going
  <2>3. call[c].id \in Ids /\ call[c].id[1] = KeyOf[c] /\ journal[KeyOf[c]][Run(c)] # None
    BY <2>2 DEF KeyedInv, TruthInv, CallOK, Owns, TypeOK, Messages
  <2>4. (\A k \in Keys : Keyed(k)') /\ KeyedUndo(c)'
    BY <1>1, <2>1, <2>3, KeyedCommitted
  <2>5. \A a \in Actors : a # c => undo'[a] = undo[a]
    BY <2>1 DEF Commit, TypeOK
  <2> QED
    BY <1>3, <2>4, <2>5, KeyedUndoStill
<1>5. CASE Confirm(c)
  <2>1. undo' = [undo EXCEPT ![c] = None] /\ undo[c] # None
    BY <1>5 DEF Confirm, Pending
  <2>2. \A a \in Actors : undo'[a] # None => undo'[a] = undo[a]
    BY <1>1, <2>1 DEF TypeOK
  <2>3. Rollback(c, KeyOf[c]) \/ UNCHANGED <<journal, receipts>>
    BY <1>5 DEF Confirm
  <2>4. \A k \in Keys : Keyed(k)'
    BY <1>1, <2>1, <2>3, KeyedRolledBack DEF KeyedInv, Keyed
  <2> QED
    BY <1>3, <2>2, <2>4, KeyedUndoStill
<1>6. CASE Begin(c)
  <2>1. undo' = undo
    BY <1>6 DEF Begin
  <2> QED
    BY <1>3, <1>6, <2>1, KeyedBegun, KeyedUndoStill
<1>7. CASE \/ Deliver(c) \/ TakeTurn(c) \/ Recheck(c) \/ Look(c) \/ Arm(c) \/ Write(c)
           \/ ReadBack(c) \/ JournalFails(c) \/ Fail(c)
  <2>1. /\ receipts' = receipts
        /\ \A a \in Actors : undo'[a] # None => undo'[a] = undo[a]
    BY <1>7 DEF Deliver, TakeTurn, Recheck, Look, Arm, Write, ReadBack, JournalFails, Fail, stores,
       TypeOK
  <2>2. \/ journal' = journal
        \/ MarkFailed(c, "failed_terminal") \/ MarkFailed(c, "failed_retryable")
    BY <1>7 DEF Deliver, TakeTurn, Recheck, Look, Arm, Write, ReadBack, JournalFails, Fail, stores,
       Rejected
  <2> QED
    BY <1>3, <2>1, <2>2, KeyedMarked, KeyedUndoStill
<1> QED
  BY <1>4, <1>5, <1>6, <1>7 DEF CallAction

\* The reconciler's step, and the surroundings'.
LEMMA KeyedSweep ==
    ASSUME TypeOK, TruthInv, Pending, KeyedInv,
           \/ \E k \in Keys, r \in Runs : Reconcile(k, r)
           \/ ReconcileLook \/ ReconcileCommit \/ ReconcileConfirm \/ ReconcileFails
    PROVE  (\A k \in Keys : Keyed(k)') /\ \A a \in Actors : KeyedUndo(a)'
<1>1. Sweeper \in Actors /\ \A c \in Calls : c # Sweeper
  BY DeliveryAssumption DEF Actors
<1>2. CASE (\E k \in Keys, r \in Runs : Reconcile(k, r)) \/ ReconcileLook
  <2>1. UNCHANGED <<journal, receipts, undo>> /\ undo[Sweeper] = None
    BY <1>2 DEF Reconcile, ReconcileLook, stores, Pending
  <2>2. \A a \in Actors : undo'[a] # None => undo'[a] = undo[a] /\ KeyFor(a)' = KeyFor(a)
    BY <2>1 DEF KeyFor, Actors
  <2> QED
    BY <2>1, <2>2, KeyedUndoStill DEF KeyedInv, Keyed
<1>3. CASE ReconcileCommit
  <2>1. /\ sweep.key \in Keys /\ sweep.run \in Runs /\ sweep.id \in Ids
        /\ sweep'.key = sweep.key
        /\ Commit(Sweeper, sweep.key, sweep.run, sweep.id)
    BY <1>3 DEF ReconcileCommit, TypeOK, Sweep
  <2>2. journal[sweep.key][sweep.run] # None /\ sweep.id[1] = sweep.key
    BY <1>3 DEF ReconcileCommit, TruthInv, SweepOK, Owns
  <2>3. KeyFor(Sweeper) = sweep.key /\ KeyFor(Sweeper)' = KeyFor(Sweeper)
    BY <2>1 DEF KeyFor
  <2>4. (\A k \in Keys : Keyed(k)') /\ KeyedUndo(Sweeper)'
    BY <1>1, <2>1, <2>2, <2>3, KeyedCommitted
  <2>5. \A a \in Actors : a # Sweeper => undo'[a] = undo[a] /\ KeyFor(a)' = KeyFor(a)
    BY <2>1 DEF Commit, TypeOK, KeyFor
  <2> QED
    BY <2>4, <2>5, KeyedUndoStill
<1>4. CASE ReconcileConfirm
  <2>1. /\ undo' = [undo EXCEPT ![Sweeper] = None] /\ undo[Sweeper] # None
        /\ sweep.key \in Keys
    BY <1>4 DEF ReconcileConfirm, Pending, TypeOK, Sweep
  <2>2. \A a \in Actors : undo'[a] # None => undo'[a] = undo[a] /\ KeyFor(a)' = KeyFor(a)
    BY <1>1, <2>1 DEF TypeOK, KeyFor
  <2>3. Rollback(Sweeper, sweep.key) \/ UNCHANGED <<journal, receipts>>
    BY <1>4 DEF ReconcileConfirm
  <2>4. \A k \in Keys : Keyed(k)'
    BY <1>1, <2>1, <2>3, KeyedRolledBack DEF KeyedInv, Keyed, KeyFor
  <2> QED
    BY <2>2, <2>4, KeyedUndoStill
<1>5. CASE ReconcileFails
  <2>1. UNCHANGED <<journal, receipts>> /\ undo' = [undo EXCEPT ![Sweeper] = None]
    BY <1>5 DEF ReconcileFails, stores
  <2>2. \A a \in Actors : undo'[a] # None => undo'[a] = undo[a] /\ KeyFor(a)' = KeyFor(a)
    BY <1>1, <2>1 DEF TypeOK, KeyFor
  <2> QED
    BY <2>1, <2>2, KeyedUndoStill DEF KeyedInv, Keyed
<1> QED
  BY <1>2, <1>3, <1>4, <1>5

LEMMA KeyedStep ==
    ASSUME TypeOK, TruthInv, Pending, KeyedInv, [Next]_vars PROVE KeyedInv'
<1>1. ASSUME NEW c \in Calls, CallAction(c) PROVE KeyedInv'
  <2>1. \A b \in Calls : b # c => call'[b] = call[b]
    BY <1>1, CallMoves DEF Moves
  <2>2. \A b \in Calls : Known(b)' => call'[b].id[1] = KeyOf[b]
    BY <1>1, <2>1, KeyedKnown DEF KeyedInv, Known
  <2> QED
    BY <1>1, <2>2, KeyedCall DEF KeyedInv
<1>2. CASE \/ \E k \in Keys, r \in Runs : Reconcile(k, r)
           \/ ReconcileLook \/ ReconcileCommit \/ ReconcileConfirm \/ ReconcileFails
  <2>1. call' = call
    BY <1>2 DEF Reconcile, ReconcileLook, ReconcileCommit, ReconcileConfirm, ReconcileFails
  <2> QED
    BY <1>2, <2>1, KeyedSweep DEF KeyedInv, Known
<1>3. CASE UNCHANGED <<journal, receipts, call, sweep, undo>>
  BY <1>3 DEF KeyedInv, Keyed, Known, KeyedUndo, KeyFor
<1>4. CASE Crash
  <2>1. /\ UNCHANGED <<journal, receipts>> /\ \A a \in Actors : undo'[a] = None
        /\ \A c \in Calls : call'[c].phase \in {"idle", "over"}
    BY <1>4 DEF Crash, stores, Idle
  <2> QED
    BY <2>1 DEF KeyedInv, Keyed, Known, KeyedUndo
<1> QED
  BY <1>1, <1>2, <1>3, <1>4 DEF Next, CallAction, vars, stores, CheckIn, StopTeam, Trim

\* A message made stays; a call keeps its payload, and the answer it got.
LEMMA PayloadKept == ASSUME TypeOK, [Next]_vars, NEW c \in Calls PROVE call'[c].payload = call[c].payload
<1>1. call[c] \in Call
  BY DEF TypeOK
<1>2. ASSUME NEW b \in Calls, CallAction(b) PROVE call'[c].payload = call[c].payload
  <2>1. CASE c # b
    BY <1>2, <2>1, CallMoves DEF Moves
  <2>2. CASE c = b /\ (Over(b) \/ \E phase : To(b, phase))
    BY <1>1, <2>2, OverType DEF To, TypeOK, Call
  <2>3. CASE c = b /\ Begin(b)
    <3>1. \E verdict, ids, i : Answered(b, verdict, ids, i)
      BY <2>3, Zenon DEF Begin
    <3> QED
      BY <1>1, <2>3, <3>1 DEF Answered, TypeOK, Call
  <2>4. CASE c = b /\ Deliver(b)
    BY <1>1, <2>4 DEF Deliver, TypeOK, Call
  <2>5. CASE c = b /\ (Look(b) \/ Arm(b)) /\ ~Over(b)
    <3>1. \E phase, i, ids : call' = [call EXCEPT ![b].phase = phase, ![b].id = i, ![b].ids = ids]
      <4>1. CASE Arm(b)
        <5>1. call' = [call EXCEPT ![b].phase = "armed",
                                   ![b].id = journal[KeyOf[b]][Run(b)].id, ![b].ids = call[b].ids]
          BY <1>1, <2>5, <4>1 DEF Arm, Rejected, Refuse, TypeOK, Call
        <5> QED
          BY <5>1
      <4>2. CASE call' = [call EXCEPT ![b].phase = "unseen", ![b].ids = {}]
        <5>1. call' = [call EXCEPT ![b].phase = "unseen", ![b].id = call[b].id, ![b].ids = {}]
          BY <1>1, <4>2 DEF TypeOK, Call
        <5> QED
          BY <5>1
      <4>3. ASSUME NEW i, call' = [call EXCEPT ![b].phase = "committing", ![b].id = i,
                                               ![b].ids = @ \ {i}]
            PROVE  \E phase, j, ids : call' = [call EXCEPT ![b].phase = phase, ![b].id = j,
                                                           ![b].ids = ids]
        BY <4>3
      <4> QED
        BY <2>5, <4>1, <4>2, <4>3 DEF Look, Refuse, Rejected
    <3> QED
      BY <1>1, <2>5, <3>1 DEF TypeOK, Call
  <2>6. CASE c = b /\ (Write(b) \/ ReadBack(b)) /\ ~\E phase : To(b, phase)
    BY <1>1, <2>6 DEF Write, ReadBack, TypeOK, Call
  <2>7. CASE c = b /\ (JournalFails(b) \/ Confirm(b)) /\ ~Over(b) /\ ~\E phase : To(b, phase)
    BY <1>1, <2>7 DEF JournalFails, Confirm, Refuse, Answer, TypeOK, Call
  <2>8. TakeTurn(b) \/ Recheck(b) \/ CommitDelivery(b) \/ Fail(b) => Over(b) \/ \E phase : To(b, phase)
    BY DEF TakeTurn, Recheck, CommitDelivery, Fail, Refuse, Rejected, Answer
  <2> QED
    BY <1>2, <2>1, <2>2, <2>3, <2>4, <2>5, <2>6, <2>7, <2>8 DEF CallAction
<1>3. CASE Crash
  BY <1>1, <1>3 DEF Crash, Idle
<1>4. CASE call' = call
  BY <1>4
<1> QED
  BY <1>2, <1>3, <1>4 DEF Next, CallAction, vars, Reconcile, ReconcileLook, ReconcileCommit,
     ReconcileConfirm, ReconcileFails, CheckIn, StopTeam, Trim

\* An answered call is over.
AckInv == \A c \in Calls : ack[c] # None => call[c].phase = "over"

LEMMA AckStep ==
    ASSUME TypeOK, AckInv, [Next]_vars PROVE AckInv'
<1>1. ASSUME NEW c \in Calls, CallAction(c) PROVE AckInv'
  <2>1. \A b \in Calls : b # c => call'[b] = call[b] /\ ack'[b] = ack[b]
    BY <1>1, CallMoves DEF Moves
  <2>2. call[c].phase # "over" /\ ack[c] = None
    BY <1>1 DEF AckInv, CallAction, Deliver, TakeTurn, Begin, Recheck, Look, Arm, Write, ReadBack,
       CommitDelivery, JournalFails, Confirm, Fail
  <2>3. ack' = ack \/ Answer(c, call[c].id)
    BY <1>1 DEF CallAction, Deliver, TakeTurn, Begin, Recheck, Look, Arm, Write, ReadBack,
       CommitDelivery, JournalFails, Confirm, Fail, Refuse, Rejected
  <2>4. Answer(c, call[c].id) => call'[c].phase = "over"
    BY OverType DEF Answer
  <2> QED
    BY <2>1, <2>2, <2>3, <2>4 DEF AckInv
<1>2. CASE Crash
  <2>1. ack' = ack /\ \A c \in Calls : call[c].phase = "over" => call'[c].phase = "over"
    BY <1>2 DEF Crash, Idle
  <2> QED
    BY <2>1 DEF AckInv
<1>3. CASE UNCHANGED <<call, ack>>
  BY <1>3 DEF AckInv
<1> QED
  BY <1>1, <1>2, <1>3 DEF Next, CallAction, vars, Reconcile, ReconcileLook, ReconcileCommit,
     ReconcileConfirm, ReconcileFails, CheckIn, StopTeam, Trim

\* A step makes messages, or answers one call with what it knows, or neither.
LEMMA MadeOrTold ==
    ASSUME TypeOK, TruthInv, Pending, [Next]_vars
    PROVE  /\ made \subseteq made'
           /\ \/ ack' = ack
              \/ \E c \in Calls :
                   /\ Known(c) /\ made' = made
                   /\ ack' = [ack EXCEPT ![c] = call[c].id]
<1>1. ASSUME NEW c \in Calls, CallAction(c), ~Write(c), ~Answer(c, call[c].id)
      PROVE  made' = made /\ ack' = ack
  BY <1>1 DEF CallAction, Deliver, TakeTurn, Begin, Recheck, Look, Arm, ReadBack,
     CommitDelivery, JournalFails, Confirm, Fail, Refuse, Rejected
<1>2. ASSUME NEW c \in Calls, Write(c) PROVE made \subseteq made' /\ ack' = ack
  BY <1>2 DEF Write
<1>3. ASSUME NEW c \in Calls, CallAction(c), Answer(c, call[c].id), ack' # ack
      PROVE  /\ made' = made /\ Known(c)
             /\ ack' = [ack EXCEPT ![c] = call[c].id]
  BY <1>3 DEF CallAction, Deliver, TakeTurn, Begin, Recheck, Look, Arm, Write, ReadBack,
     CommitDelivery, JournalFails, Confirm, Fail, Refuse, Rejected, Answer, Known
<1>4. ASSUME NEW c \in Calls, CallAction(c) PROVE made \subseteq made'
  BY <1>4 DEF CallAction, Deliver, TakeTurn, Begin, Recheck, Look, Arm, Write, ReadBack,
     CommitDelivery, JournalFails, Confirm, Fail
<1>5. CASE UNCHANGED <<made, ack>>
  BY <1>5
<1> QED
  BY <1>1, <1>2, <1>3, <1>4, <1>5 DEF Next, CallAction, vars, Reconcile, ReconcileLook,
     ReconcileCommit, ReconcileConfirm, ReconcileFails, CheckIn, StopTeam, Trim, Crash

\* The messages of a key are one message.
Single(k) == \A m, n \in MessagesOf(k) : m = n

\* Those of a key whose records are in order.
LEMMA AllOne ==
    ASSUME TypeOK, TruthInv, CoherentInv, NEW k \in Keys \ raced PROVE Single(k)
<1> SUFFICES ASSUME NEW m \in MessagesOf(k), NEW n \in MessagesOf(k) PROVE m = n
  BY DEF Single
<1>1. m \in made /\ n \in made /\ m[2][1] = k /\ n[2][1] = k
  BY DEF MessagesOf
<1>2. PICK q \in Runs : journal[k][q] # None /\ journal[k][q].payload = m[1] /\ journal[k][q].id = m[2]
  BY <1>1 DEF TruthInv, MadeInv
<1>3. PICK r \in Runs : journal[k][r] # None /\ journal[k][r].payload = n[1] /\ journal[k][r].id = n[2]
  BY <1>1 DEF TruthInv, MadeInv
<1>4. journal[k][q].payload = journal[k][r].payload
  BY <1>2, <1>3 DEF TruthInv, RecordsInv
<1>5. journal[k][q].id = journal[k][r].id
  BY <1>2, <1>3 DEF CoherentInv, Orderly, Coherent
<1>6. m \in Payloads \X Ids /\ n \in Payloads \X Ids
  BY <1>1 DEF TypeOK, Messages
<1>7. m = <<m[1], m[2]>> /\ n = <<n[1], n[2]>>
  BY <1>6
<1>8. m[1] = n[1] /\ m[2] = n[2]
  BY <1>2, <1>3, <1>4, <1>5
<1> QED
  BY <1>7, <1>8

\* The message of a key, as the service sees it.
LEMMA BecameType ==
    ASSUME TypeOK, NEW k \in Keys
    PROVE  IF MessagesOf(k) = {} THEN MessageOf(k) = None
           ELSE MessageOf(k) \in MessagesOf(k) /\ MessageOf(k) \in Messages /\ MessageOf(k) # None
BY NoneAssumption DEF MessageOf, MessagesOf, TypeOK

\* One step of a key whose commits have not overlapped, as the service sees it.
LEMMA ServiceStep ==
    ASSUME TypeOK, TruthInv, Pending, OnceInv, KeyedInv, AckInv, [Next]_vars,
           NEW k \in Keys \ raced', Single(k)'
    PROVE  [Service(k)!Next]_<<MessageOf(k), ToldOf(k)>>
<1>1. TypeOK' /\ TruthInv' /\ CoherentInv' /\ k \in Keys \ raced /\ CoherentInv
  BY TruthStep, CoherentStep, RacedGrows DEF OnceInv
<1>2. made \subseteq made' /\ MessagesOf(k) \subseteq MessagesOf(k)'
  BY MadeOrTold DEF MessagesOf
<1>3. MessagesOf(k) # {} => MessageOf(k)' = MessageOf(k)
  <2> HAVE MessagesOf(k) # {}
  <2>1. MessageOf(k) \in MessagesOf(k) /\ MessageOf(k)' \in MessagesOf(k)'
    BY <1>1, <1>2, BecameType DEF MessageOf
  <2> QED
    BY <1>2, <2>1 DEF Single
<1>4. MessagesOf(k)' = {} => MessageOf(k)' = MessageOf(k)
  BY <1>2 DEF MessageOf
<1>5. CASE ack' = ack
  <2>1. ToldOf(k)' = ToldOf(k)
    BY <1>5, PayloadKept DEF ToldOf, Told, CallsOf
  <2>2. CASE MessagesOf(k) = {} /\ MessagesOf(k)' # {}
    <3>1. MessageOf(k) = None
      BY <2>2, BecameType
    <3>2. MessageOf(k)' \in Messages
      BY <1>1, <2>2 DEF MessageOf, MessagesOf, TypeOK
    <3>3. Service(k)!Make(k)
      BY <2>1, <3>1, <3>2 DEF Service!Make
    <3> QED
      BY <3>3 DEF Service!Next
  <2> QED
    BY <1>3, <1>4, <2>1, <2>2
<1>6. ASSUME NEW c \in Calls, Known(c), made' = made, ack' = [ack EXCEPT ![c] = call[c].id]
      PROVE  [Service(k)!Next]_<<MessageOf(k), ToldOf(k)>>
  <2>1. MessageOf(k)' = MessageOf(k)
    BY <1>6 DEF MessageOf, MessagesOf
  <2>2. CASE KeyOf[c] # k
    <3>1. ToldOf(k)' = ToldOf(k)
      BY <1>6, <2>2, PayloadKept DEF ToldOf, Told, CallsOf
    <3> QED
      BY <2>1, <3>1
  <2>3. CASE KeyOf[c] = k
    <3> DEFINE m == <<call[c].payload, call[c].id>>
    <3>1. m \in made /\ m[2][1] = k
      BY <1>6, <2>3 DEF TruthInv, CallOK, KeyedInv
    <3>2. m \in MessagesOf(k) /\ MessageOf(k) \in MessagesOf(k) /\ m \in Messages
      BY <1>1, <3>1, BecameType DEF MessagesOf, TypeOK
    <3>3. MessageOf(k) = m
      BY <1>1, <3>2, AllOne DEF Single
    <3>4. ack[c] = None /\ c \in CallsOf(k) /\ ack'[c] = call[c].id /\ call[c].id # None
      BY <1>6, <2>3, <3>2, <3>3, NoneAssumption DEF AckInv, Known, CallsOf, TypeOK, Messages
    <3>5. Told(c) = None /\ Told(c)' = m /\ \A b \in Calls : b # c => Told(b)' = Told(b)
      BY <1>6, <3>4, PayloadKept DEF Told, TypeOK
    <3>6. ToldOf(k)' = [ToldOf(k) EXCEPT ![c] = m]
      BY <3>4, <3>5 DEF ToldOf, CallsOf
    <3>7. MessageOf(k) # None
      BY <1>1, <3>2, BecameType
    <3>8. Service(k)!Answer(c)
      BY <2>1, <2>3, <3>3, <3>4, <3>5, <3>6, <3>7 DEF Service!Answer, ToldOf
    <3> QED
      BY <3>4, <3>8 DEF Service!Next
  <2> QED
    BY <2>2, <2>3
<1> QED
  BY <1>5, <1>6, MadeOrTold

\* Part 4's invariant.
LEMMA Answering == Spec => [](TypeOK /\ TruthInv /\ Pending /\ OnceInv /\ KeyedInv /\ AckInv)
<1>1. Init => KeyedInv /\ AckInv
  <2> SUFFICES ASSUME Init PROVE KeyedInv /\ AckInv
    OBVIOUS
  <2>1. \A c \in Calls : call[c].phase = "idle" /\ ack[c] = None
    BY DEF Init, Idle
  <2>2. \A k \in Keys : Keyed(k)
    BY DEF Init, Keyed, KeyedRecords, KeyedReceipt
  <2>3. \A a \in Actors : undo[a] = None
    BY DEF Init
  <2> QED
    BY <2>1, <2>2, <2>3 DEF KeyedInv, AckInv, Known, KeyedUndo
<1>2. (TypeOK /\ TruthInv /\ Pending /\ OnceInv) /\ KeyedInv /\ AckInv /\ [Next]_vars
        => KeyedInv' /\ AckInv'
  BY KeyedStep, AckStep
<1> QED
  BY <1>1, <1>2, Once, PTL DEF Spec

\* Until commits of it overlap, a key is served by OnceOnly: it becomes one message, and
\* every call that is answered is told of that message, once (deliverEnvelope).
THEOREM ImplementsOnce == Spec => ImplementsOnceOnlyUnlessRaced
<1>1. Init => \A k \in Keys : Service(k)!Init
  <2> SUFFICES ASSUME Init, NEW k \in Keys PROVE Service(k)!Init
    OBVIOUS
  <2>1. MessageOf(k) = None /\ ToldOf(k) = [c \in CallsOf(k) |-> None]
    BY DEF Init, MessageOf, MessagesOf, ToldOf, Told, CallsOf
  <2> QED
    BY <2>1 DEF Service!Init
<1>2. (TypeOK /\ TruthInv /\ Pending /\ OnceInv /\ KeyedInv /\ AckInv) /\ [Next]_vars
      /\ (\A k \in Keys \ raced : Single(k))'
        => [\A k \in Keys \ raced' : [Service(k)!Next]_<<MessageOf(k), ToldOf(k)>>]_vars
  BY ServiceStep
<1>3. TypeOK /\ TruthInv /\ OnceInv => \A k \in Keys \ raced : Single(k)
  BY AllOne DEF OnceInv
<1> QED
  BY <1>1, <1>2, <1>3, Answering, PTL DEF Spec, ImplementsOnceOnlyUnlessRaced

-----------------------------------------------------------------------------
(* Part 5: without the reconciler no commits overlap. *)

\* Of the calls of a key only the one whose turn it is can have an unconfirmed commit.
LEMMA TurnConfirms ==
    ASSUME Pending, TurnInv, sweep = None, NEW c \in Calls, HasTurn(c), undo[c] = None
    PROVE  Unconfirmed(KeyOf[c]) = {}
<1>1. undo[Sweeper] = None
  BY DEF Pending
<1>2. ASSUME NEW b \in Calls, undo[b] # None, KeyOf[b] = KeyOf[c] PROVE FALSE
  <2>1. HasTurn(b)
    BY <1>2 DEF Pending, HasTurn
  <2> QED
    BY <1>2, <2>1 DEF TurnInv
<1> QED
  BY <1>1, <1>2 DEF Unconfirmed

LEMMA NoRace ==
    ASSUME Pending, TurnInv, sweep = None, [Next]_vars PROVE raced' = raced
<1>1. ASSUME NEW c \in Calls, Begin(c) \/ CommitDelivery(c) PROVE raced' = raced
  <2>1. HasTurn(c) /\ undo[c] = None
    BY <1>1 DEF Begin, CommitDelivery, HasTurn, Pending
  <2>2. Unconfirmed(KeyOf[c]) = {}
    BY <2>1, TurnConfirms
  <2>3. Race(KeyOf[c]) \/ raced' = raced
    BY <1>1 DEF Begin, CommitDelivery, Commit
  <2> QED
    BY <2>2, <2>3 DEF Race
<1>2. ASSUME NEW c \in Calls, CallAction(c), ~Begin(c), ~CommitDelivery(c) PROVE raced' = raced
  BY <1>2 DEF CallAction, Deliver, TakeTurn, Recheck, Look, Arm, Write, ReadBack, JournalFails,
     Confirm, Fail
<1>3. ASSUME Next, ~\E c \in Calls : CallAction(c) PROVE raced' = raced
  <2>1. ~ReconcileCommit
    BY DEF ReconcileCommit
  <2> QED
    BY <1>3, <2>1 DEF Next, CallAction, Reconcile, ReconcileLook, ReconcileConfirm,
       ReconcileFails, CheckIn, StopTeam, Trim, Crash
<1> QED
  BY <1>1, <1>2, <1>3 DEF vars

\* As long as nothing calls the reconciler, and nothing in the application does, the queue
\* of a key keeps its commits apart (TimedQueue, reconcileRuntimeDeliveryJournal).
THEOREM NeverRaced == Spec /\ [](sweep = None) => [](raced = {})
<1>1. Init => raced = {}
  BY DEF Init
<1>2. (TypeOK /\ TruthInv /\ Pending /\ OnceInv) /\ sweep = None /\ raced = {} /\ [Next]_vars
        => (raced = {})'
  BY NoRace DEF OnceInv
<1> QED
  BY <1>1, <1>2, Once, PTL DEF Spec

\* Then every key becomes at most one message.
THEOREM OneMessageAlone ==
    Spec /\ [](sweep = None) => [](\A k \in Keys : Cardinality(MessagesOf(k)) <= 1)
<1>1. OneMessageUnlessRaced /\ raced = {} => \A k \in Keys : Cardinality(MessagesOf(k)) <= 1
  BY DEF OneMessageUnlessRaced
<1> QED
  BY <1>1, NeverRaced, OneMessage, PTL

\* And every key is served by OnceOnly, from the first call to the last.
THEOREM ServedOnce ==
    ASSUME NEW k \in Keys
    PROVE  Spec /\ [](sweep = None) => Service(k)!Spec
<1>1. Init => Service(k)!Init
  <2> HAVE Init
  <2>1. MessageOf(k) = None /\ ToldOf(k) = [c \in CallsOf(k) |-> None]
    BY DEF Init, MessageOf, MessagesOf, ToldOf, Told, CallsOf
  <2> QED
    BY <2>1 DEF Service!Init
<1>2. (TypeOK /\ TruthInv /\ Pending /\ OnceInv /\ KeyedInv /\ AckInv) /\ [Next]_vars
      /\ (raced = {})' /\ (\A q \in Keys \ raced : Single(q))'
        => [Service(k)!Next]_<<[q \in {k} |-> MessageOf(q)], ToldOf(k)>>
  BY ServiceStep
<1>3. TypeOK /\ TruthInv /\ OnceInv => \A q \in Keys \ raced : Single(q)
  BY AllOne DEF OnceInv
<1> QED
  BY <1>1, <1>2, <1>3, Answering, NeverRaced, PTL DEF Spec, Service!Spec
=============================================================================
