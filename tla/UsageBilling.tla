---------------------------- MODULE UsageBilling ----------------------------
(***************************************************************************)
(* Pages from their admission to the bill.  control-api admits an upload   *)
(* under the quota row of the organization and holds its estimated pages   *)
(* while the session is open (keys.go quotaTx, uploads.go ClaimUpload).    *)
(* corpus-api writes what the work really used into corpus_outbox, in the  *)
(* transaction of the work (usage.py), and every replica delivers that     *)
(* table to control-api (outbox.py), which enters each event once in       *)
(* usage_ledger and charges the API key with it (RecordUsage) - unless its *)
(* kind of usage is one that this control-api does not know: that event is *)
(* logged, answered with success, and in no ledger.                        *)
(*                                                                         *)
(* Time is three nondeterministic steps: a row comes due, a quota period   *)
(* ends, a request that its sender gave up on arrives late.  The window    *)
(* that hides a claimed row (60 s) and a backoff are alike, since a batch  *)
(* of twenty posts of up to 10 s each may outlast the window.              *)
(***************************************************************************)
EXTENDS Integers, FiniteSets, FiniteSetsExt

CONSTANTS
    Work,         \* uploads, each with the parse it is billed for
    Keyed,        \* work done with an API key, to be charged to the key
    Refused,      \* work whose event control-api answers with an error for good
    Unknown,      \* work of a usage kind that a control-api, not yet upgraded,
                  \* may not know; while it is rolled out each answer may differ
    Reserved,     \* work -> pages the gate asks for
    Pages,        \* work -> pages it turns out to have used
    Limit,        \* quotas.pages_limit
    Deliverers,   \* replicas of corpus-api, each with its deliver_loop
    BatchLimit,   \* BATCH
    MaxAttempts,  \* MAX_ATTEMPTS
    MaxFaults,    \* bound: timeouts, lost posts and restarts altogether
    MaxPeriods    \* bound: quota periods that end

ASSUME BillingAssumption ==
    /\ Keyed \subseteq Work /\ Refused \subseteq Work /\ Unknown \subseteq Work
    /\ Reserved \in [Work -> Nat] /\ Pages \in [Work -> Nat]
    /\ Limit \in Nat /\ MaxFaults \in Nat /\ MaxPeriods \in Nat
    /\ BatchLimit \in Nat \ {0} /\ MaxAttempts \in Nat \ {0}

VARIABLES
    stage,     \* work -> how far it has come
    lock,      \* admissions that have the quota row of the organization locked
    saw,       \* work -> the pages its admission has summed so far
    over,      \* the current period has run out and was not rotated yet
    period,    \* periods begun so far, the current one included
    row,       \* work -> its row of corpus_outbox
    claims,    \* deliverer -> what is left of the batch it claimed
    late,      \* requests their sender gave up on, still under way
    entries,   \* work -> rows of usage_ledger with its event_id
    bookedIn,  \* work -> the period its entry was created in
    charged,   \* work -> times its pages were added to used_pages of its key
    ignored,   \* work whose event control-api has logged as of unknown kind
    faults

gate == <<lock, saw, over, period>>
control == <<late, entries, bookedIn, charged, ignored>>
billingVars == <<stage, gate, row, claims, control, faults>>

Stage == {"new", "locked", "judged", "held", "running", "refused", "failed", "done"}

Row == [written : BOOLEAN, next : {"due", "later", "far"},
        attempts : Nat, delivered : BOOLEAN]

Claim == [work : Work, attempts : Nat, sent : {"no", "ok", "error"}]

Total(S, pages) == MapThenSumSet(LAMBDA w : pages[w], S)

(* The two sums of the gate: what the period has used, what is held open.  *)
Used(p) == Total({w \in Work : entries[w] > 0 /\ bookedIn[w] = p}, Pages)
Held    == Total({w \in Work : stage[w] = "held"}, Reserved)

BillingInit ==
    /\ stage = [w \in Work |-> "new"]
    /\ lock = {} /\ saw = [w \in Work |-> 0] /\ over = FALSE /\ period = 1
    /\ row = [w \in Work |-> [written |-> FALSE, next |-> "due",
                              attempts |-> 0, delivered |-> FALSE]]
    /\ claims = [d \in Deliverers |-> {}]
    /\ late = {}
    /\ entries = [w \in Work |-> 0]
    /\ bookedIn = [w \in Work |-> 0]
    /\ charged = [w \in Work |-> 0]
    /\ ignored = {}
    /\ faults = 0

Fault == faults < MaxFaults /\ faults' = faults + 1

Enter(w, s) == stage' = [stage EXCEPT ![w] = s]

-----------------------------------------------------------------------------
(* Admission.                                                              *)

Unlocked_Always == TRUE

Unlocked == lock = {}

(* quotaTx() rotates a period that has run out and locks the quota row;    *)
(* the usage of the period is summed next.                                 *)
QuotaTx(w) ==
    /\ stage[w] = "new" /\ Unlocked
    /\ lock' = lock \cup {w}
    /\ period' = IF over THEN period + 1 ELSE period
    /\ over' = FALSE
    /\ saw' = [saw EXCEPT ![w] = Used(period')]
    /\ Enter(w, "locked")
    /\ UNCHANGED <<row, claims, control, faults>>

(* The pages held are summed by a statement of their own, which sees what  *)
(* was committed since the first: booking takes no lock.                   *)
SumHeld(w) ==
    /\ stage[w] = "locked"
    /\ saw' = [saw EXCEPT ![w] = @ + Held]
    /\ Enter(w, "judged")
    /\ UNCHANGED <<lock, over, period, row, claims, control, faults>>

Fits(w) == saw[w] + Reserved[w] <= Limit

(* The session row is inserted before the lock goes.                       *)
ClaimUpload(w) ==
    /\ stage[w] = "judged"
    /\ lock' = lock \ {w} /\ saw' = [saw EXCEPT ![w] = 0]
    /\ Enter(w, IF Fits(w) THEN "held" ELSE "refused")
    /\ UNCHANGED <<over, period, row, claims, control, faults>>

(* The transaction is rolled back with its connection; the caller may try  *)
(* again.                                                                  *)
ClaimRollsBack(w) ==
    /\ stage[w] \in {"locked", "judged"} /\ Fault
    /\ lock' = lock \ {w} /\ saw' = [saw EXCEPT ![w] = 0]
    /\ Enter(w, "new")
    /\ UNCHANGED <<over, period, row, claims, control>>

PeriodRunsOut ==
    /\ ~over /\ period <= MaxPeriods
    /\ over' = TRUE
    /\ UNCHANGED <<stage, lock, saw, period, row, claims, control, faults>>

(* A verified upload becomes ready: nothing is held for it any more, and   *)
(* its parse is under way.                                                 *)
MarkReady(w) ==
    /\ stage[w] = "held"
    /\ Enter(w, "running")
    /\ UNCHANGED <<gate, row, claims, control, faults>>

(* The session expires or fails, or the work itself does: no usage event.  *)
WorkFails(w) ==
    /\ stage[w] \in {"held", "running"}
    /\ Enter(w, "failed")
    /\ UNCHANGED <<gate, row, claims, control, faults>>

(* record_usage() and emit() add the row in the transaction that records   *)
(* the work as done.                                                       *)
RecordUsageEvent(w) ==
    /\ stage[w] = "running"
    /\ Enter(w, "done")
    /\ row' = [row EXCEPT ![w].written = TRUE]
    /\ UNCHANGED <<gate, claims, control, faults>>

-----------------------------------------------------------------------------
(* Delivery.                                                               *)

Due == {w \in Work : row[w].written /\ ~row[w].delivered /\ row[w].next = "due"}

Batch(S) ==
    /\ S \subseteq Due /\ S # {} /\ Cardinality(S) <= BatchLimit
    /\ S = Due \/ Cardinality(S) = BatchLimit

(* _claim(): attempts and the window that hides the rows are committed     *)
(* before anything is sent.                                                *)
ClaimBatch(d) ==
    /\ claims[d] = {}
    /\ \E S \in SUBSET Due :
          /\ Batch(S)
          /\ row' = [w \in Work |->
                       IF w \in S THEN [row[w] EXCEPT !.attempts = @ + 1,
                                                      !.next = "later"]
                                  ELSE row[w]]
          /\ claims' = [claims EXCEPT ![d] =
                {[work |-> w, attempts |-> row[w].attempts + 1, sent |-> "no"]
                    : w \in S}]
    /\ UNCHANGED <<stage, gate, control, faults>>

(* A window or a backoff ends; ten years do not.                           *)
ComesDue(w) ==
    /\ row[w].next = "later"
    /\ row' = [row EXCEPT ![w].next = "due"]
    /\ UNCHANGED <<stage, gate, claims, control, faults>>

Fresh_Always(w) == TRUE

Fresh(w) == entries[w] = 0

(* RecordUsage(): the entry and the charge to the key are one transaction, *)
(* and a duplicate event_id does neither.                                  *)
Book(w) ==
    IF w \in Refused \/ ~Fresh(w)
    THEN UNCHANGED <<entries, bookedIn, charged>>
    ELSE /\ entries' = [entries EXCEPT ![w] = @ + 1]
         /\ bookedIn' = [bookedIn EXCEPT ![w] = period]
         /\ charged' = IF w \in Keyed /\ Pages[w] > 0
                       THEN [charged EXCEPT ![w] = @ + 1] ELSE charged

(* A kind outside the contract: an ERROR in the log and nothing booked.    *)
Ignore(w) ==
    /\ w \in Unknown \ Refused
    /\ ignored' = ignored \cup {w}
    /\ UNCHANGED <<entries, bookedIn, charged>>

HandleUsage(w) == Ignore(w) \/ (Book(w) /\ UNCHANGED ignored)

(* The next request of the batch: one after the other.                     *)
Sendable(d, c) == c \in claims[d] /\ \A x \in claims[d] : x.sent = "no"

Sent(d, c, s) == claims' = [claims EXCEPT ![d] = (@ \ {c}) \cup {[c EXCEPT !.sent = s]}]

Answer_AnyIsOk(w) == "ok"

(* control-api answers in time: success, also for a duplicate and for a    *)
(* kind it ignores, or an error for an organization it does not know.      *)
Answer(w) == IF w \in Refused THEN "error" ELSE "ok"

Post(d, c) ==
    /\ Sendable(d, c)
    /\ HandleUsage(c.work)
    /\ Sent(d, c, Answer(c.work))
    /\ UNCHANGED <<stage, gate, row, late, faults>>

(* The request times out, or its connection breaks.                        *)
PostTimesOut(d, c) ==
    /\ Sendable(d, c) /\ Fault
    /\ Sent(d, c, "error")
    /\ late' = late \cup {c.work}
    /\ UNCHANGED <<stage, gate, row, entries, bookedIn, charged, ignored>>

LateRequest(w) ==
    /\ w \in late
    /\ late' = late \ {w}
    /\ HandleUsage(w) \/ UNCHANGED <<entries, bookedIn, charged, ignored>>
    /\ UNCHANGED <<stage, gate, row, claims, faults>>

Outcome_Early(r, c) ==
    CASE c.sent = "ok" -> [r EXCEPT !.delivered = TRUE]
      [] c.sent = "error" /\ c.attempts >= MaxAttempts - 1 -> [r EXCEPT !.next = "far"]
      [] OTHER -> [r EXCEPT !.next = "later"]

Outcome(r, c) ==
    CASE c.sent = "ok" -> [r EXCEPT !.delivered = TRUE]
      [] c.sent = "error" /\ c.attempts >= MaxAttempts -> [r EXCEPT !.next = "far"]
      [] OTHER -> [r EXCEPT !.next = "later"]

(* The outcome goes to the row as it is by then, by the attempts the claim *)
(* was made with: nothing checks that the claim is still the newest.       *)
WriteOutcome(d, c) ==
    /\ c \in claims[d] /\ c.sent # "no"
    /\ row' = [row EXCEPT ![c.work] = Outcome(@, c)]
    /\ claims' = [claims EXCEPT ![d] = @ \ {c}]
    /\ UNCHANGED <<stage, gate, control, faults>>

(* The replica ends; what it claimed waits for its window, and a request   *)
(* on the wire may still arrive.                                           *)
DelivererRestarts(d) ==
    /\ claims[d] # {} /\ Fault
    /\ claims' = [claims EXCEPT ![d] = {}]
    /\ \/ UNCHANGED late
       \/ \E c \in claims[d] : Sendable(d, c) /\ late' = late \cup {c.work}
    /\ UNCHANGED <<stage, gate, row, entries, bookedIn, charged, ignored>>

-----------------------------------------------------------------------------
AdmissionStep(w) ==
    \/ QuotaTx(w) \/ SumHeld(w) \/ ClaimUpload(w) \/ ClaimRollsBack(w)
    \/ MarkReady(w) \/ WorkFails(w) \/ RecordUsageEvent(w)

DelivererStep(d) ==
    \/ ClaimBatch(d) \/ DelivererRestarts(d)
    \/ \E c \in claims[d] : Post(d, c) \/ PostTimesOut(d, c) \/ WriteOutcome(d, c)

BillingNext ==
    \/ \E w \in Work : AdmissionStep(w) \/ ComesDue(w) \/ LateRequest(w)
    \/ \E d \in Deliverers : DelivererStep(d)
    \/ PeriodRunsOut

BillingSpec == BillingInit /\ [][BillingNext]_billingVars

(* deliver_loop() goes round for ever on every replica, every request ends *)
(* by its answer or its timeout, and time passes.                          *)
DelivererProgress(d) ==
    \/ ClaimBatch(d)
    \/ \E c \in claims[d] : Post(d, c) \/ WriteOutcome(d, c)

BillingFairness ==
    /\ \A d \in Deliverers : WF_billingVars(DelivererProgress(d))
    /\ \A w \in Work : WF_billingVars(ComesDue(w))

FairBillingSpec == BillingSpec /\ BillingFairness

-----------------------------------------------------------------------------
(* Properties.                                                             *)

(* Every variable keeps its type.                                          *)
BillingTypeOK ==
    /\ stage \in [Work -> Stage]
    /\ lock \subseteq Work /\ saw \in [Work -> Nat]
    /\ over \in BOOLEAN /\ period \in Nat
    /\ row \in [Work -> Row]
    /\ claims \in [Deliverers -> SUBSET Claim]
    /\ late \subseteq Work
    /\ entries \in [Work -> Nat] /\ bookedIn \in [Work -> Nat]
    /\ charged \in [Work -> Nat]
    /\ ignored \subseteq Unknown
    /\ faults \in 0 .. MaxFaults

(* An event that is delivered twice, by two replicas or by one that lost   *)
(* the answer, is entered once, and the key is charged with exactly what   *)
(* the ledger says: used_pages never drifts from usage_ledger (keys.go,    *)
(* the comment of RecordUsage()).                                          *)
ChargedAsBooked ==
    \A w \in Work :
        /\ entries[w] <= 1
        /\ charged[w] = IF w \in Keyed /\ Pages[w] > 0 THEN entries[w] ELSE 0

(* What control-api has made of an event: its entry, or, of a kind it does *)
(* not know, the line in its log.                                          *)
Acted(w) == IF w \in ignored /\ entries[w] = 0 THEN 1 ELSE entries[w]

(* The deliverers and control-api keep the promises of EventOutbox: usage  *)
(* is entered once however often it is posted, nothing is entered that was *)
(* not written, and no row is delivered before control-api has acted on    *)
(* the event.  To act on it is to enter it in the ledger; only an event of *)
(* a kind that control-api does not know is acted on by logging it.  A row *)
(* that was given up is open here: a late failure of an older claim can    *)
(* bring it back.                                                          *)
UsageStatus(r) == IF ~r.written THEN "none" ELSE IF r.delivered THEN "delivered" ELSE "open"

Outbox == INSTANCE EventOutbox WITH
    Events  <- Work,
    status  <- [w \in Work |-> UsageStatus(row[w])],
    effects <- [w \in Work |-> Acted(w)]

UsageKeepsOutbox == Outbox!Spec

(* Work that is done is in the ledger, or its row still waits in the       *)
(* outbox; a row nobody will send again counts as abandoned in /readyz     *)
(* (outbox_backlog(): undelivered with attempts at the limit).  The one    *)
(* exception is usage of a kind that control-api does not know: it may be  *)
(* delivered and left in no table, with an ERROR logged for it             *)
(* (handleInternalUsage(), "ignored").                                     *)
NoUsageIsLost ==
    \A w \in Work : stage[w] = "done" =>
        \/ entries[w] = 1
        \/ /\ row[w].written /\ ~row[w].delivered
           /\ row[w].next = "far" => row[w].attempts >= MaxAttempts
        \/ w \in Unknown /\ w \in ignored

(* outbox.py:40-44 says that an event which control-api does not accept,   *)
(* such as one of a usage kind it was not upgraded to know, stays in the   *)
(* table and counts as backlog: so what is delivered is in the ledger.     *)
DeliveredIsBooked == \A w \in Work : row[w].delivered => entries[w] = 1

(* Uploads admitted at the same time do not all pass: what open sessions   *)
(* hold together never exceeds the limit (uploads.go:438-439).             *)
HeldFits == Held <= Limit

(* The usage of finished work reaches the ledger, if fewer requests fail   *)
(* than attempts are made and control-api accepts the event; an event it   *)
(* refuses for good comes to rest as abandoned, and one of a kind it does  *)
(* not know may end in its log, delivered.                                 *)
EveryUsageIsBooked ==
    \A w \in Work : stage[w] = "done" ~>
        IF w \in Refused
        THEN [](row[w].next = "far" /\ ~row[w].delivered)
        ELSE row[w].delivered /\ (entries[w] = 1 \/ w \in Unknown \cap ignored)

=============================================================================
