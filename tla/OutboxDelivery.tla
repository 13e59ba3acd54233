--------------------------- MODULE OutboxDelivery ---------------------------
(***************************************************************************)
(* From a verified upload to a registered document: the outbox of          *)
(* control-api (internal/store/outbox.go), the delivery loop of its        *)
(* replicas (internal/api/background.go) and the consumer in corpus-api    *)
(* (ddp_corpus/routers/internal.py, ddp_corpus/ingest.py).                 *)
(*                                                                         *)
(* An event is the DocumentSubmitted event of one upload.  Every claim of  *)
(* it counts its attempts up, so an event and an attempt name one POST.    *)
(* A POST that its sender gave up on, or whose sender is gone, goes on in  *)
(* the corpus: that is how two deliveries of one event meet there.         *)
(*                                                                         *)
(* Faults are what the model bounds: lost and late answers, crashes,       *)
(* errors of a database or an upstream, and leases that run out while the  *)
(* delivery they protect is still going on.                                *)
(***************************************************************************)
EXTENDS Integers, FiniteSets

CONSTANTS
    Events,       \* DocumentSubmitted events
    Deliverers,   \* control-api replicas, one delivery loop each
    BatchLimit,   \* the limit ClaimOutbox is called with
    MaxFaults     \* bound on the faults the model explores

ASSUME OutboxDeliveryAssumption ==
    /\ BatchLimit \in Nat \ {0}
    /\ MaxFaults \in Nat

VARIABLES
    outbox,       \* the rows of control.control_outbox
    batch,        \* per replica: the claims of its batch not yet posted
    hand,         \* per replica: the delivery it is busy with
    requests,     \* the POSTs /internal/events alive in the corpus
    processed,    \* the committed rows of processed_events
    ingested,     \* per event: how often ingest_document() committed for it
    parse,        \* per event: the parse job of that commit
    acceptable,   \* per event: whether the target and the document allow it
    faults        \* faults so far

control == <<outbox, batch, hand>>
corpus  == <<processed, ingested, parse>>
vars    == <<outbox, batch, hand, requests, processed, ingested, parse, acceptable, faults>>

-----------------------------------------------------------------------------

Row == [submitted : BOOLEAN, delivered : BOOLEAN, rejected : BOOLEAN,
        error : BOOLEAN, due : BOOLEAN, attempts : Nat]

Claim   == [event : Events, attempt : Nat]
Verdict == {"acked", "refused", "retry"}
Answer  == {"ok", "duplicate", "refused", "error"}
Request == [claim : Claim, pc : {"arrived", "marked", "registered"} \cup Answer]

Idle      == [pc |-> "idle"]
Waiting(c)    == [pc |-> "waiting", claim |-> c]
Marking(c, v) == [pc |-> "marking", claim |-> c, verdict |-> v]
Hand == {Idle} \cup [pc : {"waiting"}, claim : Claim]
               \cup [pc : {"marking"}, claim : Claim, verdict : Verdict]

Init ==
    /\ outbox = [e \in Events |-> [submitted |-> FALSE, delivered |-> FALSE,
                                   rejected |-> FALSE, error |-> FALSE,
                                   due |-> FALSE, attempts |-> 0]]
    /\ batch = [d \in Deliverers |-> {}]
    /\ hand = [d \in Deliverers |-> Idle]
    /\ requests = {}
    /\ processed = {}
    /\ ingested = [e \in Events |-> 0]
    /\ parse = [e \in Events |-> "none"]
    /\ acceptable = [e \in Events |-> TRUE]
    /\ faults = 0

Fault == faults < MaxFaults /\ faults' = faults + 1

Open(e) == outbox[e].submitted /\ ~outbox[e].delivered /\ ~outbox[e].rejected

-----------------------------------------------------------------------------
(* control-api: the row is born in the transaction that makes the upload   *)
(* ready.                                                                  *)

MarkUploadVerified(e) ==
    /\ ~outbox[e].submitted
    /\ outbox' = [outbox EXCEPT ![e].submitted = TRUE, ![e].due = TRUE]
    /\ UNCHANGED <<batch, hand, requests, corpus, acceptable, faults>>

Claimable_FirstOnly(e) == Open(e) /\ outbox[e].due /\ outbox[e].attempts = 0

Claimable(e) == Open(e) /\ outbox[e].due

ClaimOutbox(d) ==
    /\ hand[d] = Idle
    /\ batch[d] = {}
    /\ \E S \in SUBSET {e \in Events : Claimable(e)} :
          /\ S # {}
          /\ \/ Cardinality(S) = BatchLimit
             \/ Cardinality(S) < BatchLimit /\ S = {e \in Events : Claimable(e)}
          /\ outbox' = [e \in Events |->
                IF e \in S THEN [outbox[e] EXCEPT !.attempts = @ + 1, !.due = FALSE]
                           ELSE outbox[e]]
          /\ batch' = [batch EXCEPT ![d] =
                {[event |-> e, attempt |-> outbox[e].attempts + 1] : e \in S}]
    /\ UNCHANGED <<hand, requests, corpus, acceptable, faults>>

(* The backoff, or the lease of a claim nobody works on any more, runs out. *)
AtWork(e) ==
    \E d \in Deliverers :
        \/ \E c \in batch[d] : c.event = e
        \/ hand[d] # Idle /\ hand[d].claim.event = e

BecomeDue(e) ==
    /\ Open(e)
    /\ ~outbox[e].due
    /\ ~AtWork(e)
    /\ outbox' = [outbox EXCEPT ![e].due = TRUE]
    /\ UNCHANGED <<batch, hand, requests, corpus, acceptable, faults>>

LeaseRunsOutEarly(e) ==
    /\ Open(e)
    /\ ~outbox[e].due
    /\ AtWork(e)
    /\ Fault
    /\ outbox' = [outbox EXCEPT ![e].due = TRUE]
    /\ UNCHANGED <<batch, hand, requests, corpus, acceptable>>

-----------------------------------------------------------------------------
(* deliverEvent(): post, wait for the answer, classify it, write it back.  *)

Post(d) ==
    /\ hand[d] = Idle
    /\ \E c \in batch[d] :
          /\ batch' = [batch EXCEPT ![d] = @ \ {c}]
          /\ hand' = [hand EXCEPT ![d] = Waiting(c)]
          /\ requests' = requests \cup {[claim |-> c, pc |-> "arrived"]}
    /\ UNCHANGED <<outbox, corpus, acceptable, faults>>

PostFails(d) ==
    /\ hand[d] = Idle
    /\ Fault
    /\ \E c \in batch[d] :
          /\ batch' = [batch EXCEPT ![d] = @ \ {c}]
          /\ hand' = [hand EXCEPT ![d] = Marking(c, "retry")]
    /\ UNCHANGED <<outbox, requests, corpus, acceptable>>

Classify(answer) ==
    IF answer \in {"ok", "duplicate"} THEN "acked"
    ELSE IF answer = "refused" THEN "refused"
    ELSE "retry"

Answered(d) ==
    \E r \in requests :
        /\ hand[d] = Waiting(r.claim)
        /\ r.pc \in Answer
        /\ hand' = [hand EXCEPT ![d] = Marking(r.claim, Classify(r.pc))]
        /\ requests' = requests \ {r}
        /\ UNCHANGED <<outbox, batch, corpus, acceptable, faults>>

(* What is still running for the delivery d lets go of.                    *)
LetGo(d) == {r \in requests : hand[d] = Waiting(r.claim) /\ r.pc \in Answer}

GiveUp(d) ==
    /\ hand[d].pc = "waiting"
    /\ Fault
    /\ hand' = [hand EXCEPT ![d] = Marking(hand[d].claim, "retry")]
    /\ requests' = requests \ LetGo(d)
    /\ UNCHANGED <<outbox, batch, corpus, acceptable>>

DeliveredRow(row) == [row EXCEPT !.delivered = TRUE, !.rejected = FALSE, !.error = FALSE]

RejectedRow_Unguarded(row) == [row EXCEPT !.rejected = TRUE, !.error = TRUE]

RejectedRow(row) ==
    IF row.delivered \/ row.rejected THEN row
    ELSE [row EXCEPT !.rejected = TRUE, !.error = TRUE]

FailedRow(row) ==
    IF row.delivered \/ row.rejected THEN row
    ELSE [row EXCEPT !.error = TRUE, !.due = FALSE]

MarkOutcome(d) ==
    /\ hand[d].pc = "marking"
    /\ outbox' = [outbox EXCEPT ![hand[d].claim.event] =
          CASE hand[d].verdict = "acked"   -> DeliveredRow(@)
            [] hand[d].verdict = "refused" -> RejectedRow(@)
            [] hand[d].verdict = "retry"   -> FailedRow(@)]
    /\ hand' = [hand EXCEPT ![d] = Idle]
    /\ UNCHANGED <<batch, requests, corpus, acceptable, faults>>

(* The error of the statement is dropped: the outcome is not recorded.     *)
MarkLost(d) ==
    /\ hand[d].pc = "marking"
    /\ Fault
    /\ hand' = [hand EXCEPT ![d] = Idle]
    /\ UNCHANGED <<outbox, batch, requests, corpus, acceptable>>

Restart(d) ==
    /\ hand[d] # Idle \/ batch[d] # {}
    /\ Fault
    /\ batch' = [batch EXCEPT ![d] = {}]
    /\ hand' = [hand EXCEPT ![d] = Idle]
    /\ requests' = requests \ LetGo(d)
    /\ UNCHANGED <<outbox, corpus, acceptable>>

-----------------------------------------------------------------------------
(* corpus-api: consume_event() and, inside it, ingest_document().  Up to    *)
(* the commit in ingest_document() the marker, the document and its version *)
(* are one transaction; an inserted marker blocks the insert of another.    *)

Awaited(r) == \E d \in Deliverers : hand[d] = Waiting(r.claim)

Move(r, pc) == requests' = (requests \ {r}) \cup {[r EXCEPT !.pc = pc]}

Reply(r, answer) ==
    IF Awaited(r) THEN Move(r, answer) ELSE requests' = requests \ {r}

Blocked_Never(r) == FALSE

Blocked(r) == \E s \in requests : s.claim.event = r.claim.event /\ s.pc = "marked"

InsertMarker_CommitsFirst(r) ==
    /\ r.pc = "arrived"
    /\ IF r.claim.event \in processed THEN Reply(r, "duplicate") ELSE Move(r, "marked")
    /\ processed' = processed \cup {r.claim.event}
    /\ UNCHANGED <<control, ingested, parse, acceptable, faults>>

InsertMarker(r) ==
    /\ r.pc = "arrived"
    /\ ~Blocked(r)
    /\ IF r.claim.event \in processed THEN Reply(r, "duplicate") ELSE Move(r, "marked")
    /\ UNCHANGED <<control, corpus, acceptable, faults>>

(* A deterministic refusal; the rollback takes the marker with it.         *)
Refuse(r) ==
    /\ r.pc = "marked"
    /\ ~acceptable[r.claim.event]
    /\ Reply(r, "refused")
    /\ UNCHANGED <<control, corpus, acceptable, faults>>

(* A passing error before the commit, or the end of the process.           *)
Trouble(r) ==
    /\ r.pc \in {"arrived", "marked"}
    /\ Fault
    /\ Reply(r, "error")
    /\ UNCHANGED <<control, corpus, acceptable>>

Register(r) ==
    /\ r.pc = "marked"
    /\ acceptable[r.claim.event]
    /\ processed' = processed \cup {r.claim.event}
    /\ ingested' = [ingested EXCEPT ![r.claim.event] = @ + 1]
    /\ parse' = [parse EXCEPT ![r.claim.event] = "pending"]
    /\ Move(r, "registered")
    /\ UNCHANGED <<control, acceptable, faults>>

SubmitParse(r) ==
    /\ r.pc = "registered"
    /\ parse' = [parse EXCEPT ![r.claim.event] = "submitted"]
    /\ Reply(r, "ok")
    /\ UNCHANGED <<control, processed, ingested, acceptable, faults>>

(* The gateway refuses the task and the job is failed, or the process ends *)
(* or control-api gives no file URL and the job stays as it is.            *)
SubmitParseFails(r) ==
    /\ r.pc = "registered"
    /\ Fault
    /\ \E outcome \in {"failed", "pending"} :
          parse' = [parse EXCEPT ![r.claim.event] = outcome]
    /\ Reply(r, "error")
    /\ UNCHANGED <<control, processed, ingested, acceptable>>

(* The target is deleted, withdrawn or published again, an equal version   *)
(* comes or the original of the document goes or comes back.               *)
CorpusChanges(e) ==
    /\ acceptable' = [acceptable EXCEPT ![e] = ~@]
    /\ UNCHANGED <<control, requests, corpus, faults>>

-----------------------------------------------------------------------------

DelivererStep(d) ==
    \/ ClaimOutbox(d) \/ Post(d) \/ PostFails(d) \/ Answered(d) \/ GiveUp(d)
    \/ MarkOutcome(d) \/ MarkLost(d) \/ Restart(d)

RequestStep(r) ==
    \/ InsertMarker(r) \/ Refuse(r) \/ Trouble(r)
    \/ Register(r) \/ SubmitParse(r) \/ SubmitParseFails(r)

EventStep(e) ==
    \/ MarkUploadVerified(e) \/ BecomeDue(e) \/ LeaseRunsOutEarly(e) \/ CorpusChanges(e)

Next ==
    \/ \E e \in Events : EventStep(e)
    \/ \E d \in Deliverers : DelivererStep(d)
    \/ \E r \in requests : RequestStep(r)

Spec == Init /\ [][Next]_vars

-----------------------------------------------------------------------------
(* Fairness.  The loops of the replicas tick, the corpus works off its     *)
(* requests, backoffs and abandoned leases run out.  Nothing is assumed of *)
(* uploads, of the corpus's contents or of faults, which may strike MaxFaults *)
(* times anywhere.                                                         *)

Deliver(d) == ClaimOutbox(d) \/ Post(d) \/ Answered(d) \/ MarkOutcome(d)

Consume(e, n) ==
    \E r \in requests :
        /\ r.claim = [event |-> e, attempt |-> n]
        /\ InsertMarker(r) \/ Refuse(r) \/ Register(r) \/ SubmitParse(r)

Fairness ==
    /\ \A d \in Deliverers : WF_vars(Deliver(d))
    /\ \A e \in Events, n \in 1 .. MaxFaults + 1 : WF_vars(Consume(e, n))
    /\ \A e \in Events : WF_vars(BecomeDue(e))

FairSpec == Spec /\ Fairness

-----------------------------------------------------------------------------
(* Properties.                                                             *)

(* attachIngestStatus(): what the uploader is told, read off the row.      *)
IngestStatus(e) ==
    CASE ~outbox[e].submitted                      -> "null"
      [] outbox[e].submitted /\ outbox[e].delivered -> "ready"
      [] outbox[e].rejected /\ ~outbox[e].delivered -> "rejected"
      [] Open(e) /\ outbox[e].attempts > 0 /\ outbox[e].error -> "retrying"
      [] OTHER                                     -> "pending"

(* Every variable keeps its type.                                          *)
TypeOK ==
    /\ outbox \in [Events -> Row]
    /\ batch \in [Deliverers -> SUBSET Claim]
    /\ hand \in [Deliverers -> Hand]
    /\ requests \subseteq Request
    /\ processed \subseteq Events
    /\ ingested \in [Events -> Nat]
    /\ parse \in [Events -> {"none", "pending", "submitted", "failed"}]
    /\ acceptable \in [Events -> BOOLEAN]
    /\ faults \in 0 .. MaxFaults

(* However often an event is delivered, late, twice at once, or again       *)
(* after an answer was lost, ingest_document() commits for it only once:   *)
(* the marker alone sees to that, and the UploadEvent of create_asset(),   *)
(* which would hand a second ingestion the version of the first, is not    *)
(* needed for it.                                                          *)
IngestedOnce == \A e \in Events : ingested[e] <= 1

(* An uploader who reads "ready" has a registered version: no refusal, lost *)
(* answer or crash is ever taken for an acknowledgement.                   *)
ReadyIsRegistered ==
    \A e \in Events : IngestStatus(e) = "ready" => ingested[e] = 1 /\ e \in processed

(* Replicas, outbox and consumer together keep the promises of EventOutbox *)
(* ("投递是至少一次的，所以消费端必须幂等", store/outbox.go:20): what is    *)
(* delivered was ingested, once, and only after it had been submitted.     *)
StatusOf(r) ==
    CASE ~r.submitted                                -> "none"
      [] r.submitted /\ r.delivered                  -> "delivered"
      [] r.submitted /\ ~r.delivered /\ r.rejected   -> "dead"
      [] r.submitted /\ ~r.delivered /\ ~r.rejected  -> "open"

Outbox == INSTANCE EventOutbox WITH
    status  <- [e \in Events |-> StatusOf(outbox[e])],
    effects <- ingested

KeepsOutbox == Outbox!Spec

(* The acknowledgement has the last word: once a row is delivered, neither *)
(* a refusal nor a failure of a slower delivery of the same event touches  *)
(* it; and a rejected row changes only into a delivered one.               *)
SettledRowsStay ==
    [][\A e \in Events :
          /\ outbox[e].delivered =>
                outbox'[e].delivered /\ ~outbox'[e].rejected /\ ~outbox'[e].error
          /\ outbox[e].rejected =>
                outbox'[e].delivered \/ outbox'[e] = outbox[e]]_vars

(* Every verified upload is settled in the end, acknowledged or refused,   *)
(* whatever crashes, timeouts and errors came in between.                  *)
EverySubmissionSettles ==
    \A e \in Events :
        outbox[e].submitted ~> outbox[e].delivered \/ outbox[e].rejected

(* The docstring of consume_event(): a handler that fails rolls the marker *)
(* back with everything else, so that the next delivery can try again.     *)
FailureRollsBackMarker ==
    [][\A r \in requests :
          /\ r.pc \in {"marked", "registered"}
          /\ [r EXCEPT !.pc = "error"] \in requests'
          => r.claim.event \notin processed']_vars
=============================================================================
