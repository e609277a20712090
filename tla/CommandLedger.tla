--------------------------- MODULE CommandLedger ---------------------------
(***************************************************************************)
(* The durable ledger of application commands, one row per command of a    *)
(* team: src/features/internal-storage/main/infrastructure/worker/         *)
(* applicationCommandLedgerWorkerOps.ts.  Each operation is one SQLite     *)
(* transaction in the storage worker; here each is an operator on the row  *)
(* it reads and writes, for the modules of its callers.                    *)
(*                                                                         *)
(* A row is fenced by its attempt count: a started attempt that is too old *)
(* becomes unknown, an unknown one is settled by whoever reconciles it,    *)
(* and only a retryable failure starts the next attempt.                   *)
(***************************************************************************)
EXTENDS Naturals

CONSTANTS
  Ids,       \* command ids; a created task takes its command's id
  Keys,      \* idempotency keys
  Payloads,  \* payload hashes
  NoValue    \* the null of the fields below

ASSUME LedgerAssumption == NoValue \notin Ids \cup Keys \cup Payloads

VARIABLE ledger  \* [Ids -> rows]

Requests == [id : Ids, key : Keys, payload : Payloads]

\* What a task command stores as its result.
Results == [task : Ids, created : BOOLEAN]
NoResult == [task |-> NoValue, created |-> FALSE]

Statuses == {"started", "completed", "failed_retryable", "failed_terminal",
             "unknown_after_timeout"}
\* lastError, up to the messages that may coincide.
Reasons == {"none", "stale", "absent", "conflict", "error"}

\* stale: the attempt is older than startedStaleAfterMs.
Rows == [key : Keys, payload : Payloads, status : Statuses, attempt : Nat \ {0},
         stale : BOOLEAN, reason : Reasons, result : Results \cup {NoResult}]
NoRow == [key |-> NoValue, payload |-> NoValue, status |-> "none", attempt |-> 0,
          stale |-> FALSE, reason |-> "none", result |-> NoResult]

LedgerTypeOK == ledger \in [Ids -> Rows \cup {NoRow}]

LedgerInit == ledger = [i \in Ids |-> NoRow]

-----------------------------------------------------------------------------
(* begin *)

\* The row a request meets: that of its command id, else that of its idempotency
\* key, else a new one under its command id.
RowsFor(q) ==
  IF ledger[q.id] = NoRow /\ \E i \in Ids : ledger[i].key = q.key
    THEN {i \in Ids : ledger[i].key = q.key}
    ELSE {q.id}

\* No semantic conflict, and the command id was not used with another key.
Matches(row, q) == row.key = q.key /\ row.payload = q.payload

\* The outcomes started and retry_started.
Starts(row, q) ==
  row = NoRow \/ (Matches(row, q) /\ row.status = "failed_retryable")

Fences(row, q) == Matches(row, q) /\ row.status = "started" /\ row.stale

Unknown(row, q) ==
  Fences(row, q) \/ (Matches(row, q) /\ row.status = "unknown_after_timeout")

Replays(row, q) == Matches(row, q) /\ row.status = "completed"

\* The outcomes conflict, already_started and failed_terminal.
Refuses(row, q) == ~Starts(row, q) /\ ~Unknown(row, q) /\ ~Replays(row, q)

\* Mutant: a restarted command keeps its attempt number.
NextAttempt_Same(row) == IF row = NoRow THEN 1 ELSE row.attempt

NextAttempt(row) == row.attempt + 1

\* The row begin leaves.
AfterBegin(row, q) ==
  IF Starts(row, q)
    THEN [key |-> q.key, payload |-> q.payload, status |-> "started",
          attempt |-> NextAttempt(row), stale |-> FALSE, reason |-> "none",
          result |-> NoResult]
    ELSE IF Fences(row, q)
           THEN [row EXCEPT !.status = "unknown_after_timeout", !.stale = FALSE,
                            !.reason = "stale"]
           ELSE row

-----------------------------------------------------------------------------
(* markCompleted and markFailed *)

\* Mutant: anything but a completed row can still be settled.
CanFinalize_Open(row) == row.status # "completed"

CanFinalize(row) == row.status \in {"started", "unknown_after_timeout"}

\* A completion is accepted again with the same result, whichever attempt reports it.
AcceptsCompletion(row, attempt, result) ==
  \/ row.status = "completed" /\ row.result = result
  \/ row.status # "completed" /\ row.attempt = attempt /\ CanFinalize(row)

AfterCompletion(row, result) ==
  [row EXCEPT !.status = "completed", !.stale = FALSE, !.reason = "none",
              !.result = result]

\* Mutant: the failure's kind is stored as the status.
StatusForFailure_Kind(kind) == kind

StatusForFailure(kind) ==
  CASE kind = "retryable" -> "failed_retryable"
    [] kind = "terminal" -> "failed_terminal"
    [] kind = "unknown" -> "unknown_after_timeout"

\* The same failure of the current attempt is accepted again.
AcceptsFailure(row, attempt, f) ==
  /\ row.attempt = attempt
  /\ \/ row.status = StatusForFailure(f.kind) /\ row.reason = f.reason
     \/ CanFinalize(row)

AfterFailure(row, f) ==
  [row EXCEPT !.status = StatusForFailure(f.kind), !.stale = FALSE,
              !.reason = f.reason, !.result = NoResult]

-----------------------------------------------------------------------------
\* startedStaleAfterMs pass since the attempt of row i started.
Age(i) ==
  /\ ledger[i].status = "started" /\ ~ledger[i].stale
  /\ ledger' = [ledger EXCEPT ![i].stale = TRUE]

\* A settled row never changes again: not by a late attempt that was fenced, not by a
\* reconciler that looked before it was settled, not by a retry (canFinalize).
SettledStays ==
  [][\A i \in Ids : ledger[i].status \in {"completed", "failed_terminal"}
       => ledger'[i] = ledger[i]]_ledger
=============================================================================
