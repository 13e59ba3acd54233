------------------------------ MODULE TaskQueue ------------------------------
(***************************************************************************)
(* The durable task queue of corpus-api (ddp_corpus/queue.py): the rows of *)
(* the table corpus.tasks and the statements that change them.  A row is   *)
(* claimed under a lease, and every claim moves a fencing token, its       *)
(* generation, forward.                                                    *)
(*                                                                         *)
(* Every operator here is one transaction, or one statement of one, on the *)
(* rows; the module CorpusWorker says who calls it and when.               *)
(*                                                                         *)
(* Clocks are abstracted to what the statements compare.  lease_until is   *)
(* "none" (NULL), "live" (not before now) or "expired" (before now), and   *)
(* run_after is the flag due.  A dedupe key stands for a pair              *)
(* (kind, dedupe_key): the unique constraint is over both columns.         *)
(***************************************************************************)
EXTENDS Integers

CONSTANTS
    Tasks,        \* the identities new_id() can give to a row
    Keys,         \* dedupe keys
    NoKey,        \* dedupe_key IS NULL
    MaxAttempts   \* max_attempts of every row

ASSUME TaskQueueAssumption ==
    /\ MaxAttempts \in Nat \ {0}
    /\ NoKey \notin Keys

VARIABLE rows     \* the table: one record per task identity

-----------------------------------------------------------------------------

Active   == {"queued", "claimed", "running"}
Terminal == {"succeeded", "failed", "cancelled"}
Leased   == {"claimed", "running"}

TaskRow == [status     : {"absent"} \cup Active \cup Terminal,
            key        : Keys \cup {NoKey},
            generation : Nat,
            attempts   : 0 .. MaxAttempts,
            lease      : {"none", "live", "expired"},
            due        : BOOLEAN,
            error      : {"none", "raised", "poison", "cancelled"}]

NoRow == [status |-> "absent", key |-> NoKey, generation |-> 0, attempts |-> 0,
          lease |-> "none", due |-> FALSE, error |-> "none"]

RowsInit == rows = [t \in Tasks |-> NoRow]

Rewrite(t, row) == rows' = [rows EXCEPT ![t] = row]

-----------------------------------------------------------------------------
(* enqueue().  The insert happens inside the caller's transaction; the     *)
(* unique constraint uq_tasks_kind_dedupe turns a second row with the same *)
(* key into the idempotent answer None, which changes nothing.             *)

KeyFree(k) == k = NoKey \/ \A t \in Tasks : rows[t].key # k

QueuedRow(k, d) == [NoRow EXCEPT !.status = "queued", !.key = k, !.due = d]

Enqueue(t, k) ==
    /\ rows[t].status = "absent"
    /\ KeyFree(k)
    /\ \E d \in BOOLEAN : Rewrite(t, QueuedRow(k, d))

-----------------------------------------------------------------------------
(* claim().  One locked SELECT and one commit for the whole batch.         *)

ClaimableRow_NoTakeover(row) ==
    row.due /\ row.attempts < MaxAttempts /\ row.status = "queued"

ClaimableRow(row) ==
    /\ row.due
    /\ row.attempts < MaxAttempts
    /\ \/ row.status = "queued"
       \/ row.status \in Leased /\ row.lease = "expired"

Claimable == {t \in Tasks : ClaimableRow(rows[t])}

ClaimedRow_NoFence(row) == [row EXCEPT !.status = "claimed",
                                       !.lease = "live",
                                       !.attempts = @ + 1]

ClaimedRow(row) == [row EXCEPT !.generation = @ + 1,
                               !.status = "claimed",
                               !.lease = "live",
                               !.attempts = @ + 1]

ClaimRows(S) ==
    rows' = [t \in Tasks |-> IF t \in S THEN ClaimedRow(rows[t]) ELSE rows[t]]

-----------------------------------------------------------------------------
(* heartbeat(), succeed() and fail().  Each is a conditional UPDATE; its    *)
(* guard is the fence.  Where the guard is false the statement matches no  *)
(* row, and the caller gets False or StaleGeneration.                      *)

Holds_StatusOnly(t, g) == rows[t].status \in Leased

Holds(t, g)    == rows[t].generation = g /\ rows[t].status \in Leased
MayFail(t, g)  == rows[t].generation = g /\ rows[t].status \in Active

RenewedRow(row)   == [row EXCEPT !.status = "running", !.lease = "live"]

SucceededRow(row) == [row EXCEPT !.status = "succeeded",
                                 !.error = "none",
                                 !.key = NoKey]

RequeuedRow(row)  == [row EXCEPT !.status = "queued",
                                 !.error = "raised",
                                 !.lease = "none",
                                 !.due = FALSE]

FailedRow(row)    == [row EXCEPT !.status = "failed",
                                 !.error = "raised",
                                 !.lease = "none",
                                 !.key = NoKey]

-----------------------------------------------------------------------------
(* cancel(), also reached through cancel_by_dedupe(): the row found by its *)
(* key is cancelled by a second, conditional statement, so a cancel may    *)
(* fall anywhere between the steps of the workers.                         *)

CancelledRow(row) == [row EXCEPT !.status = "cancelled",
                                 !.error = "cancelled",
                                 !.lease = "none",
                                 !.key = NoKey,
                                 !.generation = @ + 1]

Cancel(t) ==
    /\ rows[t].status \in Active
    /\ Rewrite(t, CancelledRow(rows[t]))

-----------------------------------------------------------------------------
(* sweep_exhausted(): a SELECT of the identities, then an UPDATE that       *)
(* tests the status and the attempts again, but not the lease.             *)

SweepCandidates ==
    {t \in Tasks : /\ rows[t].status \in Active
                   /\ rows[t].attempts >= MaxAttempts
                   /\ rows[t].lease # "live"}

PoisonedRow_KeepsKey(row) == [row EXCEPT !.status = "failed",
                                         !.error = "poison",
                                         !.lease = "none"]

PoisonedRow(row) == [row EXCEPT !.status = "failed",
                                !.error = "poison",
                                !.lease = "none",
                                !.key = NoKey]

StillExhausted_NoStatus(t) == rows[t].attempts >= MaxAttempts

StillExhausted(t) == rows[t].status \in Active /\ rows[t].attempts >= MaxAttempts

SweepRows(S) ==
    rows' = [t \in Tasks |-> IF t \in S /\ StillExhausted(t)
                             THEN PoisonedRow(rows[t])
                             ELSE rows[t]]

-----------------------------------------------------------------------------
(* Time: a backoff or delay runs out, a lease nobody renewed runs out.     *)

BecomeDue(t) ==
    /\ rows[t].status \in Active
    /\ ~rows[t].due
    /\ Rewrite(t, [rows[t] EXCEPT !.due = TRUE])

LeaseExpires(t) ==
    /\ rows[t].status \in Leased
    /\ rows[t].lease = "live"
    /\ Rewrite(t, [rows[t] EXCEPT !.lease = "expired"])

=============================================================================
