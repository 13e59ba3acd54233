------------------------ MODULE OutboxDelivery_proofs ------------------------
(* Proofs about OutboxDelivery: its types, its invariants and the action    *)
(* property of settled rows hold for every set of events, any number of    *)
(* replicas, every batch size and every number of faults.                  *)
EXTENDS OutboxDelivery, TLAPS

USE OutboxDeliveryAssumption

(* The inductive invariant.  Neither IngestedOnce nor ReadyIsRegistered is  *)
(* inductive: what carries them is the marker.  While one request of an    *)
(* event holds it uncommitted no other does and none has committed, and    *)
(* every answer that can become an acknowledgement comes from a committed  *)
(* one.                                                                    *)
PCs == {"arrived", "marked", "registered"} \cup Answer

Worked == {"registered", "ok", "duplicate"}

OneMarker ==
    \A r, s \in requests :
        r.pc = "marked" /\ s.pc = "marked" /\ r.claim.event = s.claim.event => r = s

MarkerIsNew == \A r \in requests : r.pc = "marked" => r.claim.event \notin processed

WorkedIsProcessed == \A r \in requests : r.pc \in Worked => r.claim.event \in processed

RequestsInv == requests \subseteq Request /\ OneMarker /\ MarkerIsNew /\ WorkedIsProcessed

HandsInv ==
    /\ hand \in [Deliverers -> Hand]
    /\ batch \in [Deliverers -> SUBSET Claim]
    /\ \A d \in Deliverers :
          hand[d].pc = "marking" /\ hand[d].verdict = "acked" =>
              hand[d].claim.event \in processed

RowsInv ==
    /\ outbox \in [Events -> Row]
    /\ \A e \in Events : outbox[e].delivered =>
          e \in processed /\ ~outbox[e].rejected /\ ~outbox[e].error

CorpusInv ==
    /\ processed \subseteq Events
    /\ ingested \in [Events -> Nat]
    /\ \A e \in Events : ingested[e] = IF e \in processed THEN 1 ELSE 0
    /\ parse \in [Events -> {"none", "pending", "submitted", "failed"}]
    /\ acceptable \in [Events -> BOOLEAN]
    /\ faults \in 0 .. MaxFaults

IInv == RequestsInv /\ HandsInv /\ RowsInv /\ CorpusInv

LEMMA InitInv == Init => IInv
<1> SUFFICES ASSUME Init PROVE IInv OBVIOUS
<1>1. RequestsInv
    BY DEF Init, RequestsInv, OneMarker, MarkerIsNew, WorkedIsProcessed
<1>2. HandsInv
    BY DEF Init, HandsInv, Hand, Idle
<1>3. RowsInv
    BY DEF Init, RowsInv, Row
<1>4. CorpusInv
    BY SMT DEF Init, CorpusInv
<1> QED BY <1>1, <1>2, <1>3, <1>4 DEF IInv

(* What the invariant is for.                                              *)
LEMMA InvImplies == IInv => TypeOK /\ IngestedOnce /\ ReadyIsRegistered
<1> SUFFICES ASSUME IInv PROVE TypeOK /\ IngestedOnce /\ ReadyIsRegistered OBVIOUS
<1>1. TypeOK
    BY DEF IInv, RequestsInv, HandsInv, RowsInv, CorpusInv, TypeOK
<1>2. IngestedOnce
    BY SMT DEF IInv, CorpusInv, IngestedOnce
<1>3. ReadyIsRegistered
  <2> SUFFICES ASSUME NEW e \in Events, IngestStatus(e) = "ready"
               PROVE  ingested[e] = 1 /\ e \in processed
      BY DEF ReadyIsRegistered
  <2>1. outbox[e].delivered
      BY SMT DEF IngestStatus, Open, IInv, RowsInv, Row
  <2> QED BY <2>1 DEF IInv, RowsInv, CorpusInv
<1> QED BY <1>1, <1>2, <1>3

-----------------------------------------------------------------------------
(* A hand is idle, waits for the answer to a claim or marks its outcome.    *)

LEMMA HandCases ==
    ASSUME NEW h \in Hand
    PROVE  \/ h = Idle
           \/ h.pc = "waiting" /\ h.claim \in Claim
           \/ h.pc = "marking" /\ h.claim \in Claim /\ h.verdict \in Verdict
BY SMT DEF Hand, Idle

LEMMA HandShapes ==
    ASSUME NEW c \in Claim
    PROVE  /\ Waiting(c) \in Hand /\ Waiting(c).pc = "waiting" /\ Waiting(c).claim = c
           /\ \A v \in Verdict : /\ Marking(c, v) \in Hand
                                 /\ Marking(c, v).verdict = v /\ Marking(c, v).claim = c
           /\ Idle \in Hand /\ Idle.pc = "idle"
<1>1. Waiting(c) \in Hand /\ Waiting(c).pc = "waiting" /\ Waiting(c).claim = c
    BY DEF Hand, Waiting
<1>2. ASSUME NEW v \in Verdict
      PROVE  Marking(c, v) \in Hand /\ Marking(c, v).verdict = v /\ Marking(c, v).claim = c
    BY DEF Hand, Marking
<1>3. Idle \in Hand /\ Idle.pc = "idle"
    BY DEF Hand, Idle
<1> QED BY <1>1, <1>2, <1>3

(* One hand changes; an acknowledgement in it must have been earned.       *)
LEMMA HandInv ==
    ASSUME HandsInv, NEW d \in Deliverers, NEW h \in Hand,
           hand' = [hand EXCEPT ![d] = h],
           batch' \in [Deliverers -> SUBSET Claim],
           processed' = processed,
           h.pc = "marking" /\ h.verdict = "acked" => h.claim.event \in processed
    PROVE  HandsInv'
<1>1. hand' \in [Deliverers -> Hand]
    BY Zenon DEF HandsInv
<1>2. ASSUME NEW x \in Deliverers
      PROVE  hand'[x] = IF x = d THEN h ELSE hand[x]
    BY Zenon DEF HandsInv
<1>3. ASSUME NEW x \in Deliverers, hand'[x].pc = "marking", hand'[x].verdict = "acked"
      PROVE  hand'[x].claim.event \in processed'
  <2>1. CASE x = d BY <1>2, <1>3, <2>1
  <2>2. CASE x # d
    <3>1. hand'[x] = hand[x] BY <1>2, <2>2
    <3> QED BY <1>3, <3>1, Zenon DEF HandsInv
  <2> QED BY <2>1, <2>2
<1> QED BY <1>1, <1>3 DEF HandsInv

(* Requests of the delivery are dropped, or none changes.                  *)
LEMMA DropInv ==
    ASSUME RequestsInv, requests' \subseteq requests, processed' = processed
    PROVE  RequestsInv'
BY SMT DEF RequestsInv, OneMarker, MarkerIsNew, WorkedIsProcessed

(* A request moves on.                                                     *)
LEMMA MoveInv ==
    ASSUME RequestsInv, NEW r \in requests, NEW pc \in PCs, Move(r, pc),
           processed' = processed,
           pc = "marked" => ~Blocked(r) /\ r.claim.event \notin processed,
           pc \in Worked => r.claim.event \in processed
    PROVE  RequestsInv'
<1> DEFINE q == [r EXCEPT !.pc = pc]
<1>1. r \in Request /\ q \in Request /\ q.claim = r.claim /\ q.pc = pc
    BY DEF RequestsInv, Request, PCs
<1> HIDE DEF q
<1>2. requests' = (requests \ {r}) \cup {q}
    BY DEF Move, q
<1>3. (requests \subseteq Request)'
    BY <1>1, <1>2 DEF RequestsInv
<1>4. OneMarker'
    BY <1>1, <1>2 DEF RequestsInv, OneMarker, Blocked
<1>5. MarkerIsNew' /\ WorkedIsProcessed'
    BY <1>1, <1>2 DEF RequestsInv, MarkerIsNew, WorkedIsProcessed
<1> QED BY <1>3, <1>4, <1>5 DEF RequestsInv

LEMMA ReplyInv ==
    ASSUME RequestsInv, NEW r \in requests, NEW pc \in Answer, Reply(r, pc),
           processed' = processed,
           pc \in Worked => r.claim.event \in processed
    PROVE  RequestsInv'
<1>1. CASE Awaited(r)
    BY <1>1, MoveInv DEF Reply, PCs, Answer
<1>2. CASE ~Awaited(r)
    BY <1>2, DropInv DEF Reply
<1> QED BY <1>1, <1>2

-----------------------------------------------------------------------------
(* Which part of the invariant each step can disturb.                      *)

SameVerdict(row, old) ==
    row.delivered = old.delivered /\ row.rejected = old.rejected /\ row.error = old.error

LEMMA RowInv ==
    ASSUME RowsInv, NEW e \in Events, NEW row \in Row,
           outbox' = [outbox EXCEPT ![e] = row], processed' = processed,
           row.delivered => e \in processed /\ ~row.rejected /\ ~row.error
    PROVE  RowsInv'
BY SMT DEF RowsInv

LEMMA EventSteps ==
    ASSUME IInv, NEW e \in Events, EventStep(e)
    PROVE  IInv'
<1> USE DEF IInv
<1>1. CASE MarkUploadVerified(e)
  <2> DEFINE row == [outbox[e] EXCEPT !.submitted = TRUE, !.due = TRUE]
  <2>1. row \in Row /\ SameVerdict(row, outbox[e])
      BY DEF RowsInv, Row, SameVerdict
  <2>2. outbox' = [outbox EXCEPT ![e] = row]
      BY <1>1 DEF MarkUploadVerified
  <2> HIDE DEF row
  <2>3. RowsInv'
      BY <1>1, <2>1, <2>2, RowInv DEF MarkUploadVerified, corpus, RowsInv, SameVerdict
  <2> QED BY <1>1, <2>3, DropInv
      DEF MarkUploadVerified, corpus, HandsInv, CorpusInv
<1>2. CASE BecomeDue(e) \/ LeaseRunsOutEarly(e)
  <2> DEFINE row == [outbox[e] EXCEPT !.due = TRUE]
  <2>1. row \in Row /\ SameVerdict(row, outbox[e])
      BY DEF RowsInv, Row, SameVerdict
  <2>2. outbox' = [outbox EXCEPT ![e] = row]
      BY <1>2 DEF BecomeDue, LeaseRunsOutEarly
  <2> HIDE DEF row
  <2>3. RowsInv'
      BY <1>2, <2>1, <2>2, RowInv DEF BecomeDue, LeaseRunsOutEarly, corpus, RowsInv, SameVerdict
  <2>4. UNCHANGED <<batch, hand, requests, processed, ingested, parse, acceptable>>
      BY <1>2 DEF BecomeDue, LeaseRunsOutEarly, corpus
  <2>5. faults' \in 0 .. MaxFaults
      BY <1>2, SMT DEF BecomeDue, LeaseRunsOutEarly, Fault, CorpusInv
  <2> QED BY <2>3, <2>4, <2>5, DropInv DEF HandsInv, CorpusInv
<1>3. CASE CorpusChanges(e)
    BY <1>3, DropInv DEF CorpusChanges, control, corpus, HandsInv, CorpusInv, RowsInv
<1> QED BY <1>1, <1>2, <1>3 DEF EventStep

LEMMA HandMoves ==
    ASSUME HandsInv, NEW d \in Deliverers, hand[d].pc \in {"waiting", "marking"}
    PROVE  hand[d].claim \in Claim /\ (hand[d].pc = "marking" => hand[d].verdict \in Verdict)
BY HandCases DEF HandsInv, Idle

LEMMA DelivererSteps ==
    ASSUME IInv, NEW d \in Deliverers, DelivererStep(d)
    PROVE  IInv'
<1> USE DEF IInv
<1>1. CASE ClaimOutbox(d)
  <2>1. PICK S \in SUBSET Events :
          /\ \A e \in S : ~outbox[e].delivered
          /\ outbox' = [e \in Events |->
                IF e \in S THEN [outbox[e] EXCEPT !.attempts = @ + 1, !.due = FALSE]
                           ELSE outbox[e]]
          /\ batch' = [batch EXCEPT ![d] =
                {[event |-> e, attempt |-> outbox[e].attempts + 1] : e \in S}]
      BY <1>1 DEF ClaimOutbox, Claimable, Open
  <2>2. ASSUME NEW e \in Events
        PROVE  /\ outbox[e] \in Row
               /\ outbox[e].attempts + 1 \in Nat
      BY SMT DEF RowsInv, Row
  <2>3. ASSUME NEW e \in Events
        PROVE  /\ [outbox[e] EXCEPT !.attempts = @ + 1, !.due = FALSE] \in Row
               /\ SameVerdict([outbox[e] EXCEPT !.attempts = @ + 1, !.due = FALSE], outbox[e])
      BY <2>2, Zenon DEF Row, SameVerdict
  <2>4. processed' = processed
      BY <1>1 DEF ClaimOutbox, corpus
  <2>5. ASSUME NEW e \in Events
        PROVE  /\ outbox'[e] \in Row
               /\ outbox'[e].delivered =>
                     e \in processed' /\ ~outbox'[e].rejected /\ ~outbox'[e].error
    <3>1. outbox'[e] \in Row /\ SameVerdict(outbox'[e], outbox[e])
        BY <2>1, <2>2, <2>3, Zenon DEF SameVerdict
    <3> QED BY <2>4, <3>1 DEF RowsInv, SameVerdict
  <2>6. outbox' \in [Events -> Row]
      BY <2>1, <2>5, Zenon
  <2>7. {[event |-> e, attempt |-> outbox[e].attempts + 1] : e \in S} \subseteq Claim
      BY <2>2 DEF Claim
  <2>8. batch' \in [Deliverers -> SUBSET Claim]
      BY <2>1, <2>7, Zenon DEF HandsInv
  <2>9. UNCHANGED <<hand, requests, corpus, acceptable, faults>>
      BY <1>1 DEF ClaimOutbox
  <2> QED BY <2>5, <2>6, <2>8, <2>9, DropInv DEF corpus, HandsInv, CorpusInv, RowsInv
<1>2. CASE Post(d)
  <2>1. PICK c \in batch[d] :
          /\ batch' = [batch EXCEPT ![d] = @ \ {c}]
          /\ hand' = [hand EXCEPT ![d] = Waiting(c)]
          /\ requests' = requests \cup {[claim |-> c, pc |-> "arrived"]}
      BY <1>2 DEF Post
  <2>2. c \in Claim
      BY DEF HandsInv
  <2>3. UNCHANGED <<outbox, corpus, acceptable, faults>>
      BY <1>2 DEF Post
  <2>4. HandsInv'
      BY <2>1, <2>2, <2>3, HandShapes, HandInv DEF HandsInv, corpus
  <2>5. RequestsInv'
      BY <2>1, <2>2, <2>3
      DEF RequestsInv, OneMarker, MarkerIsNew, WorkedIsProcessed, Request, Worked, corpus
  <2> QED BY <2>3, <2>4, <2>5 DEF corpus, CorpusInv, RowsInv
<1>3. CASE PostFails(d)
  <2>1. PICK c \in batch[d] :
          /\ batch' = [batch EXCEPT ![d] = @ \ {c}]
          /\ hand' = [hand EXCEPT ![d] = Marking(c, "retry")]
      BY <1>3 DEF PostFails
  <2>2. c \in Claim /\ "retry" \in Verdict
      BY DEF HandsInv, Verdict
  <2>3. UNCHANGED <<outbox, requests, corpus, acceptable>> /\ Fault
      BY <1>3 DEF PostFails
  <2>4. HandsInv'
      BY <2>1, <2>2, <2>3, HandShapes, HandInv DEF HandsInv, corpus
  <2> QED BY <2>3, <2>4, DropInv, SMT DEF Fault, corpus, CorpusInv, RowsInv
<1>4. CASE Answered(d)
  <2>1. PICK r \in requests :
          /\ hand[d] = Waiting(r.claim)
          /\ r.pc \in Answer
          /\ hand' = [hand EXCEPT ![d] = Marking(r.claim, Classify(r.pc))]
          /\ requests' = requests \ {r}
          /\ UNCHANGED <<outbox, batch, corpus, acceptable, faults>>
      BY <1>4 DEF Answered
  <2>2. r.claim \in Claim /\ Classify(r.pc) \in Verdict
      BY <2>1 DEF RequestsInv, Request, Classify, Verdict
  <2>3. Classify(r.pc) = "acked" => r.claim.event \in processed
      BY <2>1 DEF Classify, RequestsInv, WorkedIsProcessed, Worked
  <2>4. HandsInv'
      BY <2>1, <2>2, <2>3, HandShapes, HandInv DEF HandsInv, corpus
  <2> QED BY <2>1, <2>4, DropInv DEF corpus, CorpusInv, RowsInv
<1>5. CASE GiveUp(d)
  <2>1. hand[d].claim \in Claim /\ "retry" \in Verdict
      BY <1>5, HandMoves DEF GiveUp, Verdict
  <2>2. HandsInv'
      BY <1>5, <2>1, HandShapes, HandInv DEF GiveUp, HandsInv, corpus
  <2> QED BY <1>5, <2>2, DropInv, SMT DEF GiveUp, Fault, LetGo, corpus, CorpusInv, RowsInv
<1>6. CASE MarkOutcome(d)
  <2> DEFINE e == hand[d].claim.event
  <2>1. e \in Events /\ hand[d].verdict \in Verdict
      BY <1>6, HandMoves DEF MarkOutcome, Claim
  <2>2. PICK row :
          /\ outbox' = [outbox EXCEPT ![e] = row]
          /\ \/ hand[d].verdict = "acked" /\ row = DeliveredRow(outbox[e])
             \/ row = RejectedRow(outbox[e])
             \/ row = FailedRow(outbox[e])
      BY <1>6, <2>1 DEF MarkOutcome, RowsInv, Verdict
  <2>3. /\ DeliveredRow(outbox[e]) \in Row
        /\ RejectedRow(outbox[e]) \in Row
        /\ FailedRow(outbox[e]) \in Row
      BY <2>1, Zenon DEF DeliveredRow, RejectedRow, FailedRow, RowsInv, Row
  <2>4. outbox[e] \in Row
      BY <2>1 DEF RowsInv
  <2>8. /\ row \in Row
        /\ row.delivered => e \in processed /\ ~row.rejected /\ ~row.error
    <3>1. CASE hand[d].verdict = "acked" /\ row = DeliveredRow(outbox[e])
        BY <1>6, <2>1, <2>3, <2>4, <3>1 DEF MarkOutcome, HandsInv, DeliveredRow, Row
    <3>2. CASE row = RejectedRow(outbox[e]) \/ row = FailedRow(outbox[e])
      <4>1. CASE outbox[e].delivered \/ outbox[e].rejected
          BY <2>1, <2>3, <3>2, <4>1 DEF RejectedRow, FailedRow, RowsInv
      <4>2. CASE ~outbox[e].delivered /\ ~outbox[e].rejected
          BY <2>3, <2>4, <3>2, <4>2 DEF RejectedRow, FailedRow, Row
      <4> QED BY <4>1, <4>2
    <3> QED BY <2>2, <3>1, <3>2
  <2>5. UNCHANGED <<batch, requests, corpus, acceptable, faults>>
      BY <1>6 DEF MarkOutcome
  <2>6. HandsInv'
      BY <1>6, <2>5, HandInv, Zenon DEF MarkOutcome, HandsInv, Hand, Idle, corpus
  <2>7. RowsInv'
      BY <2>1, <2>2, <2>5, <2>8, RowInv DEF corpus
  <2> QED BY <2>5, <2>6, <2>7, DropInv DEF corpus, CorpusInv
<1>7. CASE MarkLost(d) \/ Restart(d)
  <2>1. /\ hand' = [hand EXCEPT ![d] = Idle]
        /\ batch' = batch \/ batch' = [batch EXCEPT ![d] = {}]
        /\ requests' \subseteq requests
        /\ UNCHANGED <<outbox, corpus, acceptable>>
        /\ Fault
      BY <1>7 DEF MarkLost, Restart, LetGo
  <2>2. HandsInv'
      BY <2>1, HandInv, Zenon DEF HandsInv, Hand, Idle, corpus
  <2> QED BY <2>1, <2>2, DropInv, SMT DEF Fault, corpus, CorpusInv, RowsInv
<1> QED BY <1>1, <1>2, <1>3, <1>4, <1>5, <1>6, <1>7 DEF DelivererStep

LEMMA RequestSteps ==
    ASSUME IInv, NEW r \in requests, RequestStep(r)
    PROVE  IInv'
<1> USE DEF IInv
<1>1. r \in Request /\ r.claim \in Claim /\ r.claim.event \in Events
    BY DEF RequestsInv, Request, Claim
<1>2. CASE InsertMarker(r)
  <2>1. UNCHANGED <<control, corpus, acceptable, faults>>
      BY <1>2 DEF InsertMarker
  <2>5. processed' = processed /\ RequestsInv
      BY <2>1 DEF corpus
  <2>2. ASSUME r.claim.event \in processed PROVE RequestsInv'
    <3>1. Reply(r, "duplicate") /\ "duplicate" \in Answer
        BY <1>2, <2>2 DEF InsertMarker, Answer
    <3> QED BY <2>2, <2>5, <3>1, ReplyInv
  <2>3. ASSUME r.claim.event \notin processed PROVE RequestsInv'
    <3>1. Move(r, "marked") /\ ~Blocked(r) /\ "marked" \in PCs /\ "marked" \notin Worked
        BY <1>2, <2>3 DEF InsertMarker, PCs, Worked
    <3> QED BY <2>3, <2>5, <3>1, MoveInv
  <2>4. RequestsInv'
      BY <2>2, <2>3
  <2> QED BY <2>1, <2>4 DEF control, corpus, HandsInv, CorpusInv, RowsInv
<1>3. CASE Refuse(r)
  <2>1. RequestsInv'
      BY <1>3, ReplyInv DEF Refuse, corpus, Answer, Worked
  <2> QED BY <1>3, <2>1 DEF Refuse, control, corpus, HandsInv, CorpusInv, RowsInv
<1>4. CASE Trouble(r)
  <2>1. RequestsInv'
      BY <1>4, ReplyInv DEF Trouble, corpus, Answer, Worked
  <2> QED BY <1>4, <2>1, SMT DEF Trouble, Fault, control, corpus, HandsInv, CorpusInv, RowsInv
<1>5. CASE Register(r)
  <2> DEFINE e == r.claim.event
             q == [r EXCEPT !.pc = "registered"]
  <2>1. /\ e \notin processed
        /\ processed' = processed \cup {e}
        /\ ingested' = [ingested EXCEPT ![e] = @ + 1]
        /\ parse' = [parse EXCEPT ![e] = "pending"]
        /\ requests' = (requests \ {r}) \cup {q}
        /\ UNCHANGED <<control, acceptable, faults>>
      BY <1>5 DEF Register, Move, RequestsInv, MarkerIsNew
  <2>2. q \in Request /\ q.pc = "registered" /\ q.claim = r.claim
      BY <1>1 DEF Request
  <2>3. ASSUME NEW s \in requests, s # r, s.pc = "marked"
        PROVE  s.claim.event # e
      BY <1>5, <2>3 DEF Register, RequestsInv, OneMarker
  <2> HIDE DEF q
  <2> HIDE DEF e
  <2>9. q.claim.event = e
      BY <2>2 DEF e
  <2>4. (requests \subseteq Request)' /\ OneMarker'
    <3>1. (requests \subseteq Request)'
        BY <2>1, <2>2 DEF RequestsInv
    <3>2. \A s \in requests' : s.pc = "marked" => s \in requests
        BY <2>1, <2>2
    <3> QED BY <3>1, <3>2 DEF RequestsInv, OneMarker
  <2>5. MarkerIsNew' /\ WorkedIsProcessed'
    <3>1. ASSUME NEW s \in requests', s.pc = "marked"
          PROVE  s.claim.event \notin processed'
        BY <2>1, <2>2, <2>3, <3>1 DEF RequestsInv, MarkerIsNew
    <3>2. ASSUME NEW s \in requests', s.pc \in Worked
          PROVE  s.claim.event \in processed'
        BY <2>1, <2>9, <3>2 DEF RequestsInv, WorkedIsProcessed
    <3> QED BY <3>1, <3>2 DEF MarkerIsNew, WorkedIsProcessed
  <2>6. CorpusInv'
    <3>1. e \in Events /\ ingested[e] = 0
        BY <1>1, <2>1 DEF CorpusInv, e
    <3>2. ingested' = [ingested EXCEPT ![e] = 1]
        BY <2>1, <3>1
    <3>3. \A f \in Events : ingested'[f] = IF f \in processed' THEN 1 ELSE 0
        BY <2>1, <3>1, <3>2 DEF CorpusInv
    <3>4. processed' \subseteq Events /\ ingested' \in [Events -> Nat]
        BY <2>1, <3>1, <3>2 DEF CorpusInv
    <3>5. parse' \in [Events -> {"none", "pending", "submitted", "failed"}]
        BY <2>1, <3>1 DEF CorpusInv
    <3> QED BY <2>1, <3>3, <3>4, <3>5 DEF CorpusInv
  <2>7. processed \subseteq processed' /\ UNCHANGED <<outbox, batch, hand>>
      BY <2>1 DEF control
  <2>8. HandsInv' /\ RowsInv'
      BY <2>7 DEF HandsInv, RowsInv
  <2> QED BY <2>4, <2>5, <2>6, <2>8 DEF RequestsInv
<1>6. CASE SubmitParse(r) \/ SubmitParseFails(r)
  <2>1. /\ UNCHANGED <<control, processed, ingested, acceptable>>
        /\ r.claim.event \in processed
        /\ Reply(r, "ok") \/ Reply(r, "error")
      BY <1>6 DEF SubmitParse, SubmitParseFails, RequestsInv, WorkedIsProcessed, Worked
  <2>2. RequestsInv'
      BY <2>1, ReplyInv DEF Answer
  <2>3. parse' \in [Events -> {"none", "pending", "submitted", "failed"}]
      BY <1>1, <1>6 DEF SubmitParse, SubmitParseFails, CorpusInv
  <2>4. faults' \in 0 .. MaxFaults
      BY <1>6, SMT DEF SubmitParse, SubmitParseFails, Fault, CorpusInv
  <2> QED BY <2>1, <2>2, <2>3, <2>4 DEF control, HandsInv, CorpusInv, RowsInv
<1> QED BY <1>2, <1>3, <1>4, <1>5, <1>6 DEF RequestStep

LEMMA StepInv == IInv /\ [Next]_vars => IInv'
<1> SUFFICES ASSUME IInv, [Next]_vars PROVE IInv' OBVIOUS
<1>1. CASE Next
    BY <1>1, EventSteps, DelivererSteps, RequestSteps DEF Next
<1>2. CASE UNCHANGED vars
  <2>1. RequestsInv'
      BY <1>2, DropInv DEF IInv, vars
  <2> QED BY <1>2, <2>1 DEF IInv, vars, HandsInv, RowsInv, CorpusInv
<1> QED BY <1>1, <1>2

THEOREM Inductive == Spec => []IInv
BY InitInv, StepInv, PTL DEF Spec

(* The rows, hands, requests and counters keep their types.                *)
THEOREM DeliveryTypes == Spec => []TypeOK
BY Inductive, InvImplies, PTL

(* However often its delivery is repeated, ingest_document() commits for an *)
(* event only once.                                                        *)
THEOREM IngestsOnce == Spec => []IngestedOnce
BY Inductive, InvImplies, PTL

(* Nobody reads "ready" for an upload the corpus has not registered.       *)
THEOREM ReadyIsTrue == Spec => []ReadyIsRegistered
BY Inductive, InvImplies, PTL

-----------------------------------------------------------------------------
(* Replicas hold claims of submitted events only, so an unsubmitted row is  *)
(* never written by a delivery.                                            *)

Claims(d) == batch[d] \cup (IF hand[d].pc = "idle" THEN {} ELSE {hand[d].claim})

ClaimsInv == \A d \in Deliverers : \A c \in Claims(d) : outbox[c.event].submitted

UnsubmittedInv ==
    \A e \in Events : outbox[e].delivered \/ outbox[e].rejected => outbox[e].submitted

LEMMA ClaimsKept ==
    ASSUME IInv, ClaimsInv,
           \A e \in Events : outbox[e].submitted => outbox'[e].submitted,
           NEW d \in Deliverers,
           \A x \in Deliverers \ {d} : hand'[x] = hand[x] /\ batch'[x] = batch[x],
           \A c \in Claims(d)' : c \in Claims(d) \/ outbox'[c.event].submitted
    PROVE  ClaimsInv'
<1> SUFFICES ASSUME NEW x \in Deliverers, NEW c \in Claims(x)'
             PROVE  outbox'[c.event].submitted
    BY DEF ClaimsInv
<1>1. CASE c \in Claims(x)
  <2>1. hand[x].pc # "idle" => hand[x].claim \in Claim
      BY HandCases DEF IInv, HandsInv, Idle
  <2>2. c.event \in Events
      BY <1>1, <2>1 DEF IInv, HandsInv, Claims, Claim
  <2> QED BY <1>1, <2>2 DEF ClaimsInv
<1>2. CASE c \notin Claims(x)
    BY <1>2 DEF Claims
<1> QED BY <1>1, <1>2

(* Settled rows: only MarkOutcome writes the columns that settle a row, and *)
(* each of its three statements keeps what an acknowledgement wrote.       *)

LEMMA RowChange ==
    ASSUME IInv, [Next]_vars, NEW e \in Events
    PROVE  \/ outbox'[e] = outbox[e]
           \/ /\ outbox'[e].submitted
              /\ SameVerdict(outbox'[e], outbox[e])
              /\ outbox[e].submitted => Open(e)
           \/ \E d \in Deliverers :
                 /\ hand[d].pc = "marking" /\ hand[d].claim.event = e
                 /\ outbox'[e] \in {DeliveredRow(outbox[e]), RejectedRow(outbox[e]),
                                    FailedRow(outbox[e])}
<1>0. outbox \in [Events -> Row] /\ outbox[e] \in Row
    BY DEF IInv, RowsInv
<1>1. CASE UNCHANGED vars
    BY <1>1 DEF vars
<1>2. ASSUME NEW f \in Events, EventStep(f)
      PROVE  \/ outbox'[e] = outbox[e]
             \/ /\ outbox'[e].submitted
                /\ SameVerdict(outbox'[e], outbox[e])
                /\ outbox[e].submitted => Open(e)
  <2>1. CASE MarkUploadVerified(f)
      BY <1>0, <2>1 DEF MarkUploadVerified, SameVerdict, Row
  <2>2. CASE BecomeDue(f) \/ LeaseRunsOutEarly(f)
      BY <1>0, <2>2 DEF BecomeDue, LeaseRunsOutEarly, Open, SameVerdict, Row
  <2> QED BY <1>2, <2>1, <2>2 DEF EventStep, CorpusChanges, control
<1>3. ASSUME NEW d \in Deliverers, ClaimOutbox(d)
      PROVE  \/ outbox'[e] = outbox[e]
             \/ /\ outbox'[e].submitted
                /\ SameVerdict(outbox'[e], outbox[e])
                /\ outbox[e].submitted => Open(e)
  <2>1. \/ outbox'[e] = outbox[e]
        \/ Open(e) /\ outbox'[e] = [outbox[e] EXCEPT !.attempts = @ + 1, !.due = FALSE]
      BY <1>3, Zenon DEF ClaimOutbox, Claimable
  <2> QED BY <1>0, <2>1 DEF Open, SameVerdict, Row
<1>4. ASSUME NEW d \in Deliverers, MarkOutcome(d)
      PROVE  \/ outbox'[e] = outbox[e]
             \/ /\ hand[d].pc = "marking" /\ hand[d].claim.event = e
                /\ outbox'[e] \in {DeliveredRow(outbox[e]), RejectedRow(outbox[e]),
                                   FailedRow(outbox[e])}
  <2>1. hand[d].pc = "marking" /\ hand[d].verdict \in Verdict
      BY <1>4, HandMoves DEF MarkOutcome, IInv
  <2>2. CASE hand[d].claim.event # e
      BY <1>0, <1>4, <2>2 DEF MarkOutcome
  <2>3. CASE hand[d].claim.event = e
      BY <1>0, <1>4, <2>1, <2>3 DEF MarkOutcome, Verdict
  <2> QED BY <2>1, <2>2, <2>3
<1>5. ASSUME NEW d \in Deliverers, DelivererStep(d), ~ClaimOutbox(d), ~MarkOutcome(d)
      PROVE  outbox'[e] = outbox[e]
    BY <1>5 DEF DelivererStep, Post, PostFails, Answered, GiveUp, MarkLost, Restart
<1>6. ASSUME NEW r \in requests, RequestStep(r) PROVE outbox'[e] = outbox[e]
    BY <1>6 DEF RequestStep, InsertMarker, Refuse, Trouble, Register, SubmitParse,
                SubmitParseFails, control
<1> QED BY <1>1, <1>2, <1>3, <1>4, <1>5, <1>6, Zenon DEF Next

LEMMA SubmittedStays ==
    ASSUME IInv, [Next]_vars, NEW e \in Events, outbox[e].submitted
    PROVE  outbox'[e].submitted
<1>1. outbox[e] \in Row
    BY DEF IInv, RowsInv
<1>2. /\ DeliveredRow(outbox[e]).submitted
      /\ RejectedRow(outbox[e]).submitted
      /\ FailedRow(outbox[e]).submitted
    BY <1>1 DEF DeliveredRow, RejectedRow, FailedRow, Row
<1> QED BY <1>2, RowChange

LEMMA ClaimsStep ==
    ASSUME IInv, ClaimsInv, [Next]_vars
    PROVE  ClaimsInv'
<1>1. \A e \in Events : outbox[e].submitted => outbox'[e].submitted
    BY SubmittedStays
<1>2. CASE UNCHANGED <<batch, hand>>
  <2> SUFFICES ASSUME NEW d \in Deliverers PROVE ClaimsInv' BY DEF ClaimsInv
  <2> QED BY <1>1, <1>2, ClaimsKept DEF Claims
<1>3. ASSUME NEW d \in Deliverers, DelivererStep(d) PROVE ClaimsInv'
  <2> USE DEF IInv, HandsInv
  <2>1. CASE ClaimOutbox(d)
    <3>1. ASSUME NEW c \in Claims(d)' PROVE c \in Claims(d) \/ outbox'[c.event].submitted
      <4>1. CASE c \in batch'[d]
        <5>1. PICK S \in SUBSET {e \in Events : Claimable(e)} :
                batch' = [batch EXCEPT ![d] =
                    {[event |-> e, attempt |-> outbox[e].attempts + 1] : e \in S}]
            BY <2>1 DEF ClaimOutbox
        <5>2. PICK e \in S : c = [event |-> e, attempt |-> outbox[e].attempts + 1]
            BY <4>1, <5>1
        <5>3. c.event \in Events /\ outbox[c.event].submitted
            BY <5>2 DEF Claimable, Open
        <5> QED BY <1>1, <5>3
      <4>2. CASE c \notin batch'[d]
          BY <2>1, <3>1, <4>2 DEF ClaimOutbox, Claims
      <4> QED BY <4>1, <4>2
    <3> QED BY <1>1, <2>1, <3>1, ClaimsKept DEF ClaimOutbox
  <2>2. CASE Post(d) \/ PostFails(d)
    <3>1. PICK c \in batch[d] :
            /\ batch' = [batch EXCEPT ![d] = @ \ {c}]
            /\ hand' = [hand EXCEPT ![d] = Waiting(c)]
                  \/ hand' = [hand EXCEPT ![d] = Marking(c, "retry")]
        BY <2>2 DEF Post, PostFails
    <3>2. hand'[d].claim = c
        BY <3>1 DEF Waiting, Marking
    <3> QED BY <1>1, <3>1, <3>2, ClaimsKept DEF Claims
  <2>3. CASE Answered(d)
    <3>1. PICK c, v : hand[d] = Waiting(c) /\ hand' = [hand EXCEPT ![d] = Marking(c, v)]
        BY <2>3 DEF Answered
    <3>2. hand[d].claim = c /\ hand[d].pc = "waiting" /\ hand'[d].claim = c
        BY <3>1 DEF Waiting, Marking
    <3> QED BY <1>1, <2>3, <3>1, <3>2, ClaimsKept DEF Answered, Claims
  <2>4. CASE GiveUp(d)
    <3>1. hand'[d].claim = hand[d].claim
        BY <2>4 DEF GiveUp, Marking
    <3> QED BY <1>1, <2>4, <3>1, ClaimsKept DEF GiveUp, Claims
  <2>5. CASE MarkOutcome(d) \/ MarkLost(d) \/ Restart(d)
    <3>1. /\ hand' = [hand EXCEPT ![d] = Idle]
          /\ batch' = batch \/ batch' = [batch EXCEPT ![d] = {}]
        BY <2>5 DEF MarkOutcome, MarkLost, Restart
    <3>2. hand'[d].pc = "idle"
        BY <3>1 DEF Idle
    <3> QED BY <1>1, <3>1, <3>2, ClaimsKept DEF Claims
  <2> QED BY <1>3, <2>1, <2>2, <2>3, <2>4, <2>5 DEF DelivererStep
<1>4. ASSUME NEW e \in Events, EventStep(e) PROVE UNCHANGED <<batch, hand>>
    BY <1>4 DEF EventStep, MarkUploadVerified, BecomeDue, LeaseRunsOutEarly,
                CorpusChanges, control
<1>5. ASSUME NEW r \in requests, RequestStep(r) PROVE UNCHANGED <<batch, hand>>
    BY <1>5 DEF RequestStep, InsertMarker, Refuse, Trouble, Register, SubmitParse,
                SubmitParseFails, control
<1>6. CASE UNCHANGED vars
    BY <1>2, <1>6 DEF vars
<1> QED BY <1>2, <1>3, <1>4, <1>5, <1>6 DEF Next

SettledStep ==
    \A e \in Events :
        /\ outbox[e].delivered =>
              outbox'[e].delivered /\ ~outbox'[e].rejected /\ ~outbox'[e].error
        /\ outbox[e].rejected =>
              outbox'[e].delivered \/ outbox'[e] = outbox[e]

(* What a delivery that ends writes into a row that is settled or open.    *)
LEMMA Outcomes ==
    ASSUME NEW row \in Row, NEW new \in {DeliveredRow(row), RejectedRow(row), FailedRow(row)}
    PROVE  /\ new.submitted = row.submitted
           /\ row.delivered \/ row.rejected => new = row \/ new = DeliveredRow(row)
           /\ DeliveredRow(row).delivered
           /\ ~DeliveredRow(row).rejected /\ ~DeliveredRow(row).error
BY DEF DeliveredRow, RejectedRow, FailedRow, Row

LEMMA SettledStepHolds ==
    ASSUME IInv, ClaimsInv, UnsubmittedInv, [Next]_vars
    PROVE  SettledStep /\ UnsubmittedInv'
<1> SUFFICES ASSUME NEW e \in Events
             PROVE  /\ outbox[e].delivered =>
                          outbox'[e].delivered /\ ~outbox'[e].rejected /\ ~outbox'[e].error
                    /\ outbox[e].rejected =>
                          outbox'[e].delivered \/ outbox'[e] = outbox[e]
                    /\ outbox'[e].delivered \/ outbox'[e].rejected => outbox'[e].submitted
    BY DEF SettledStep, UnsubmittedInv
<1>1. /\ outbox[e] \in Row
      /\ outbox[e].delivered => ~outbox[e].rejected /\ ~outbox[e].error
      /\ outbox[e].delivered \/ outbox[e].rejected => outbox[e].submitted
    BY DEF IInv, RowsInv, UnsubmittedInv
<1>2. CASE outbox'[e] = outbox[e]
    BY <1>1, <1>2
<1>3. CASE /\ outbox'[e].submitted
           /\ SameVerdict(outbox'[e], outbox[e])
           /\ outbox[e].submitted => Open(e)
    BY <1>1, <1>3 DEF Open
<1>4. CASE \E d \in Deliverers :
              /\ hand[d].pc = "marking" /\ hand[d].claim.event = e
              /\ outbox'[e] \in {DeliveredRow(outbox[e]), RejectedRow(outbox[e]),
                                 FailedRow(outbox[e])}
  <2>1. outbox[e].submitted
      BY <1>4 DEF ClaimsInv, Claims
  <2>2. /\ outbox'[e].submitted
        /\ outbox[e].delivered \/ outbox[e].rejected =>
              outbox'[e] = outbox[e] \/ outbox'[e] = DeliveredRow(outbox[e])
        /\ DeliveredRow(outbox[e]).delivered
        /\ ~DeliveredRow(outbox[e]).rejected /\ ~DeliveredRow(outbox[e]).error
      BY <1>1, <1>4, <2>1, Outcomes
  <2> QED BY <1>1, <2>2
<1> QED BY <1>2, <1>3, <1>4, RowChange

(* A late refusal or failure never touches an acknowledged row, and a       *)
(* rejected one changes only into a delivered one.                         *)
THEOREM SettledRowsAreFinal == Spec => SettledRowsStay
<1>1. Init => ClaimsInv /\ UnsubmittedInv
    BY DEF Init, ClaimsInv, UnsubmittedInv, Claims, Idle
<1>2. IInv /\ ClaimsInv /\ UnsubmittedInv /\ [Next]_vars => (ClaimsInv /\ UnsubmittedInv)'
    BY ClaimsStep, SettledStepHolds
<1>3. Spec => [](IInv /\ ClaimsInv /\ UnsubmittedInv)
    BY Inductive, <1>1, <1>2, PTL DEF Spec
<1>4. IInv /\ ClaimsInv /\ UnsubmittedInv /\ [Next]_vars => [SettledStep]_vars
    BY SettledStepHolds
<1>5. Spec => [][SettledStep]_vars
    BY <1>3, <1>4, PTL DEF Spec
<1> QED BY <1>5 DEF SettledStep, SettledRowsStay

-----------------------------------------------------------------------------
(* OutboxDelivery implements EventOutbox.  What is still missing for it is *)
(* that nothing is ingested that was not submitted: a request is made for  *)
(* a claim, and goes on in the corpus when its sender is gone.             *)
RequestsSubmitted == \A r \in requests : outbox[r.claim.event].submitted

DeliveryInv == IInv /\ ClaimsInv /\ UnsubmittedInv /\ RequestsSubmitted

LEMMA RequestsStep ==
    ASSUME DeliveryInv, [Next]_vars
    PROVE  RequestsSubmitted'
<1>1. \A e \in Events : outbox[e].submitted => outbox'[e].submitted
    BY SubmittedStays DEF DeliveryInv
<1>2. ASSUME \A r \in requests' :
                \/ \E s \in requests : r.claim = s.claim
                \/ \E d \in Deliverers : r.claim \in batch[d]
      PROVE  RequestsSubmitted'
  <2>1. ASSUME NEW r \in requests' PROVE outbox[r.claim.event].submitted /\ r.claim \in Claim
    <3>1. CASE \E s \in requests : r.claim = s.claim
        BY <3>1 DEF DeliveryInv, IInv, RequestsInv, Request, RequestsSubmitted
    <3>2. CASE \E d \in Deliverers : r.claim \in batch[d]
        BY <3>2 DEF DeliveryInv, IInv, HandsInv, ClaimsInv, Claims
    <3> QED BY <1>2, <2>1, <3>1, <3>2
  <2>2. \A r \in requests' : r.claim.event \in Events BY <2>1 DEF Claim
  <2> QED BY <1>1, <2>1, <2>2 DEF RequestsSubmitted
<1>3. CASE requests' \subseteq requests BY <1>2, <1>3
<1>4. ASSUME NEW d \in Deliverers, Post(d) PROVE RequestsSubmitted'
  <2>1. PICK c \in batch[d] : requests' = requests \cup {[claim |-> c, pc |-> "arrived"]}
      BY <1>4 DEF Post
  <2>2. [claim |-> c, pc |-> "arrived"].claim = c OBVIOUS
  <2> QED BY <1>2, <2>1, <2>2
<1>5. ASSUME NEW d \in Deliverers, DelivererStep(d), ~Post(d)
      PROVE  requests' \subseteq requests
    BY <1>5 DEF DelivererStep, ClaimOutbox, PostFails, Answered, GiveUp, MarkOutcome, MarkLost,
                Restart
<1>6. ASSUME NEW r \in requests, RequestStep(r) PROVE RequestsSubmitted'
  <2>1. r \in Request BY DEF DeliveryInv, IInv, RequestsInv
  <2>2. \/ requests' \subseteq requests
        \/ \E pc : requests' = (requests \ {r}) \cup {[r EXCEPT !.pc = pc]}
      BY <1>6 DEF RequestStep, InsertMarker, Refuse, Trouble, Register, SubmitParse,
                  SubmitParseFails, Reply, Move
  <2>3. \A pc : [r EXCEPT !.pc = pc].claim = r.claim BY <2>1 DEF Request
  <2> QED BY <1>2, <1>3, <2>2, <2>3
<1>7. ASSUME NEW e \in Events, EventStep(e) PROVE requests' \subseteq requests
    BY <1>7 DEF EventStep, MarkUploadVerified, BecomeDue, LeaseRunsOutEarly, CorpusChanges
<1>8. CASE UNCHANGED vars BY <1>3, <1>8 DEF vars
<1> QED BY <1>3, <1>4, <1>5, <1>6, <1>7, <1>8 DEF Next

LEMMA DeliveryInvInit == Init => DeliveryInv
BY InitInv DEF Init, DeliveryInv, ClaimsInv, UnsubmittedInv, RequestsSubmitted, Claims, Idle

LEMMA DeliveryInvStep == DeliveryInv /\ [Next]_vars => DeliveryInv'
BY StepInv, ClaimsStep, SettledStepHolds, RequestsStep DEF DeliveryInv

(* The four kinds of status, without the order of the CASE.                *)
LEMMA StatusIs ==
    ASSUME NEW r \in Row
    PROVE  /\ ~r.submitted => StatusOf(r) = "none"
           /\ r.submitted /\ r.delivered => StatusOf(r) = "delivered"
           /\ r.submitted /\ ~r.delivered /\ r.rejected => StatusOf(r) = "dead"
           /\ r.submitted /\ ~r.delivered /\ ~r.rejected => StatusOf(r) = "open"
BY DEF StatusOf, Row

(* How a step that leaves the corpus alone may change the status of a row. *)
StatusMoves(e) ==
    LET old == StatusOf(outbox[e])
        new == StatusOf(outbox'[e]) IN
    \/ new = old
    \/ old = "none" /\ new = "open"
    \/ old = "open" /\ new = "dead"
    \/ old \in {"open", "dead"} /\ new = "delivered" /\ ingested[e] = 1

LEMMA OutcomeMoves ==
    ASSUME DeliveryInv, NEW d \in Deliverers, MarkOutcome(d), NEW e \in Events,
           hand[d].claim.event = e
    PROVE  StatusMoves(e)
<1> DEFINE row == outbox[e]
<1>1. /\ row \in Row /\ outbox \in [Events -> Row] /\ row.submitted
      /\ hand[d].pc = "marking" /\ hand[d].verdict \in Verdict
    BY HandMoves DEF MarkOutcome, DeliveryInv, IInv, HandsInv, RowsInv, ClaimsInv, Claims
<1>2. CASE hand[d].verdict = "acked"
  <2>1. outbox'[e] = DeliveredRow(row) BY <1>1, <1>2 DEF MarkOutcome
  <2>2. DeliveredRow(row) \in Row /\ DeliveredRow(row).submitted /\ DeliveredRow(row).delivered
      BY <1>1 DEF DeliveredRow, Row
  <2>3. ingested[e] = 1
      BY <1>1, <1>2 DEF DeliveryInv, IInv, HandsInv, CorpusInv
  <2>4. StatusOf(outbox'[e]) = "delivered" BY <2>1, <2>2, StatusIs
  <2>5. StatusOf(row) \in {"open", "dead", "delivered"} BY <1>1, StatusIs DEF Row
  <2> QED BY <2>3, <2>4, <2>5 DEF StatusMoves
<1>3. CASE hand[d].verdict = "refused"
  <2>1. outbox'[e] = RejectedRow(row) BY <1>1, <1>3 DEF MarkOutcome
  <2>2. CASE row.delivered \/ row.rejected
      BY <2>1, <2>2 DEF RejectedRow, StatusMoves
  <2>3. CASE ~row.delivered /\ ~row.rejected
    <3>1. /\ RejectedRow(row) \in Row /\ RejectedRow(row).submitted
          /\ ~RejectedRow(row).delivered /\ RejectedRow(row).rejected
        BY <1>1, <2>3 DEF RejectedRow, Row
    <3>2. StatusOf(row) = "open" /\ StatusOf(outbox'[e]) = "dead"
        BY <1>1, <2>1, <2>3, <3>1, StatusIs
    <3> QED BY <3>2 DEF StatusMoves
  <2> QED BY <2>2, <2>3
<1>4. CASE hand[d].verdict = "retry"
  <2>1. outbox'[e] = FailedRow(row) BY <1>1, <1>4 DEF MarkOutcome
  <2>2. /\ FailedRow(row) \in Row /\ FailedRow(row).submitted
        /\ FailedRow(row).delivered = row.delivered /\ FailedRow(row).rejected = row.rejected
      BY <1>1 DEF FailedRow, Row
  <2>3. StatusOf(FailedRow(row)) = StatusOf(row) BY <1>1, <2>2, StatusIs DEF Row
  <2> QED BY <2>1, <2>3 DEF StatusMoves
<1> QED BY <1>1, <1>2, <1>3, <1>4 DEF Verdict

(* A step that writes the row of one event at most and leaves the corpus   *)
(* alone is a step of the outbox.                                          *)
LEMMA OneStatusMoves ==
    ASSUME ingested' = ingested, NEW e \in Events, StatusMoves(e),
           \A x \in Events \ {e} : StatusOf(outbox'[x]) = StatusOf(outbox[x])
    PROVE  [Outbox!Next]_(Outbox!outboxVars)
<1> DEFINE status == [x \in Events |-> StatusOf(outbox[x])]
           new == StatusOf(outbox'[e])
<1>1. status' = [status EXCEPT ![e] = new] BY Zenon
<1>2. CASE new = StatusOf(outbox[e])
  <2>1. status' = status BY <1>2, Zenon
  <2> QED BY <2>1 DEF Outbox!outboxVars
<1>3. CASE StatusOf(outbox[e]) = "none" /\ new = "open"
    BY <1>1, <1>3 DEF Outbox!Submit, Outbox!Next
<1>4. CASE StatusOf(outbox[e]) = "open" /\ new = "dead"
    BY <1>1, <1>4 DEF Outbox!GiveUp, Outbox!Next
<1>5. CASE StatusOf(outbox[e]) \in {"open", "dead"} /\ new = "delivered" /\ ingested[e] = 1
    BY <1>1, <1>5 DEF Outbox!Acknowledge, Outbox!Next
<1> QED BY <1>2, <1>3, <1>4, <1>5 DEF StatusMoves

LEMMA NoStatusMoves ==
    ASSUME ingested' = ingested, \A x \in Events : StatusOf(outbox'[x]) = StatusOf(outbox[x])
    PROVE  [Outbox!Next]_(Outbox!outboxVars)
BY DEF Outbox!outboxVars

LEMMA RegisterRefines ==
    ASSUME DeliveryInv, NEW r \in requests, Register(r)
    PROVE  Outbox!Next
<1> DEFINE e == r.claim.event
<1>1. /\ e \in Events /\ e \notin processed /\ ingested[e] = 0
      /\ outbox[e] \in Row /\ outbox[e].submitted /\ ingested \in [Events -> Nat]
    BY DEF Register, DeliveryInv, IInv, RequestsInv, MarkerIsNew, Request, Claim, CorpusInv,
           RowsInv, RequestsSubmitted
<1>2. outbox' = outbox /\ ingested' = [ingested EXCEPT ![e] = 1]
    BY <1>1 DEF Register, control
<1>3. StatusOf(outbox[e]) # "none" BY <1>1, StatusIs DEF Row
<1> HIDE DEF e
<1>4. Outbox!TakeEffect(e) BY <1>1, <1>2, <1>3 DEF Outbox!TakeEffect
<1> QED BY <1>1, <1>4 DEF Outbox!Next

LEMMA OutboxInitRefines == Init => Outbox!Init
<1> SUFFICES ASSUME Init PROVE Outbox!Init OBVIOUS
<1>1. \A e \in Events : outbox[e] \in Row /\ ~outbox[e].submitted BY DEF Init, Row
<1>2. \A e \in Events : StatusOf(outbox[e]) = "none" BY <1>1, StatusIs
<1> QED BY <1>2 DEF Init, Outbox!Init

LEMMA OutboxStepRefines == DeliveryInv /\ [Next]_vars => [Outbox!Next]_(Outbox!outboxVars)
<1> SUFFICES ASSUME DeliveryInv, [Next]_vars PROVE [Outbox!Next]_(Outbox!outboxVars)
    OBVIOUS
<1>1. outbox \in [Events -> Row] BY DEF DeliveryInv, IInv, RowsInv
<1>2. ASSUME UNCHANGED <<outbox, ingested>> PROVE [Outbox!Next]_(Outbox!outboxVars)
    BY <1>2, NoStatusMoves
<1>3. ASSUME NEW e \in Events, EventStep(e) PROVE [Outbox!Next]_(Outbox!outboxVars)
  <2>1. CASE MarkUploadVerified(e)
    <3> DEFINE row == [outbox[e] EXCEPT !.submitted = TRUE, !.due = TRUE]
    <3>1. row \in Row /\ row.submitted /\ row.delivered = outbox[e].delivered
          /\ row.rejected = outbox[e].rejected
        BY <1>1 DEF Row
    <3>2. outbox' = [outbox EXCEPT ![e] = row] /\ ~outbox[e].submitted /\ ingested' = ingested
        BY <2>1 DEF MarkUploadVerified, corpus
    <3> HIDE DEF row
    <3>3. ~outbox[e].delivered /\ ~outbox[e].rejected
        BY <3>2 DEF DeliveryInv, UnsubmittedInv
    <3>4. StatusOf(outbox[e]) = "none" /\ StatusOf(row) = "open"
        BY <1>1, <3>1, <3>2, <3>3, StatusIs
    <3>5. outbox'[e] = row /\ \A x \in Events \ {e} : outbox'[x] = outbox[x]
        BY <1>1, <3>2
    <3>6. StatusMoves(e) BY <3>4, <3>5 DEF StatusMoves
    <3> QED BY <3>2, <3>5, <3>6, OneStatusMoves
  <2>2. CASE BecomeDue(e) \/ LeaseRunsOutEarly(e)
    <3> DEFINE row == [outbox[e] EXCEPT !.due = TRUE]
    <3>1. row \in Row /\ row.submitted = outbox[e].submitted
          /\ row.delivered = outbox[e].delivered /\ row.rejected = outbox[e].rejected
        BY <1>1 DEF Row
    <3>2. outbox' = [outbox EXCEPT ![e] = row] /\ ingested' = ingested
        BY <2>2 DEF BecomeDue, LeaseRunsOutEarly, corpus
    <3> HIDE DEF row
    <3>3. StatusOf(row) = StatusOf(outbox[e]) BY <1>1, <3>1, StatusIs DEF Row
    <3>4. \A x \in Events : StatusOf(outbox'[x]) = StatusOf(outbox[x])
        BY <1>1, <3>2, <3>3
    <3> QED BY <3>2, <3>4, NoStatusMoves
  <2>3. CASE CorpusChanges(e) BY <1>2, <2>3 DEF CorpusChanges, control, corpus
  <2> QED BY <1>3, <2>1, <2>2, <2>3 DEF EventStep
<1>4. ASSUME NEW d \in Deliverers, ClaimOutbox(d) PROVE [Outbox!Next]_(Outbox!outboxVars)
  <2>1. ASSUME NEW x \in Events PROVE StatusOf(outbox'[x]) = StatusOf(outbox[x])
    <3> DEFINE n == outbox[x].attempts + 1
    <3>0. n \in Nat BY <1>1 DEF Row
    <3> HIDE DEF n
    <3> DEFINE row == [outbox[x] EXCEPT !.attempts = n, !.due = FALSE]
    <3>1. row \in Row /\ row.submitted = outbox[x].submitted
          /\ row.delivered = outbox[x].delivered /\ row.rejected = outbox[x].rejected
        BY <1>1, <3>0 DEF Row
    <3>2. outbox'[x] = outbox[x] \/ outbox'[x] = row
        BY <1>4, Zenon DEF ClaimOutbox, n
    <3> HIDE DEF row
    <3>3. StatusOf(row) = StatusOf(outbox[x]) BY <1>1, <3>1, StatusIs DEF Row
    <3> QED BY <3>2, <3>3
  <2>2. ingested' = ingested BY <1>4 DEF ClaimOutbox, corpus
  <2> QED BY <2>1, <2>2, NoStatusMoves
<1>5. ASSUME NEW d \in Deliverers, MarkOutcome(d) PROVE [Outbox!Next]_(Outbox!outboxVars)
  <2> DEFINE e == hand[d].claim.event
  <2>1. e \in Events /\ ingested' = ingested
      BY <1>5, HandMoves DEF MarkOutcome, DeliveryInv, IInv, Claim, corpus
  <2>2. \A x \in Events \ {e} : outbox'[x] = outbox[x] BY <1>1, <1>5 DEF MarkOutcome
  <2>3. StatusMoves(e) BY <1>5, <2>1, OutcomeMoves
  <2> HIDE DEF e
  <2> QED BY <2>1, <2>2, <2>3, OneStatusMoves
<1>6. ASSUME NEW d \in Deliverers, DelivererStep(d), ~ClaimOutbox(d), ~MarkOutcome(d)
      PROVE  UNCHANGED <<outbox, ingested>>
    BY <1>6 DEF DelivererStep, Post, PostFails, Answered, GiveUp, MarkLost, Restart, corpus
<1>7. ASSUME NEW r \in requests, RequestStep(r), ~Register(r)
      PROVE  UNCHANGED <<outbox, ingested>>
    BY <1>7 DEF RequestStep, InsertMarker, Refuse, Trouble, SubmitParse, SubmitParseFails,
                control, corpus
<1>8. CASE UNCHANGED vars BY <1>2, <1>8 DEF vars
<1> QED BY <1>2, <1>3, <1>4, <1>5, <1>6, <1>7, <1>8, RegisterRefines DEF Next

(* Lost answers, leases that run out, refusals and restarts of any number  *)
(* of replicas included, the outbox and its consumer do nothing that       *)
(* EventOutbox does not allow.                                             *)
THEOREM DeliveryImplementsOutbox == Spec => KeepsOutbox
<1>1. Spec => []DeliveryInv BY DeliveryInvInit, DeliveryInvStep, PTL DEF Spec
<1> QED BY <1>1, OutboxInitRefines, OutboxStepRefines, PTL DEF Spec, KeepsOutbox, Outbox!Spec

=============================================================================
