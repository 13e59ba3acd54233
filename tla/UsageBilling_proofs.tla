------------------------- MODULE UsageBilling_proofs -------------------------
(* Proofs about UsageBilling: an event is entered and charged once, no     *)
(* usage is lost, and what is held fits the limit, for any number of works *)
(* (also without end), replicas, faults and attempts.                      *)
EXTENDS UsageBilling, FiniteSetTheorems, WellFoundedInduction, TLAPS

USE BillingAssumption

(* The inductive invariant.  A row is marked delivered by a claim that was *)
(* answered with success, at any later time, so what control-api has made  *)
(* of the event must last from the answer on; and a row is parked by a claim that may be    *)
(* long superseded, so no claim may carry more attempts than its row.      *)
Keyable(w) == w \in Keyed /\ Pages[w] > 0

LedgerInv ==
    /\ entries \in [Work -> 0 .. 1] /\ bookedIn \in [Work -> Nat]
    /\ charged = [w \in Work |-> IF Keyable(w) THEN entries[w] ELSE 0]
    /\ late \subseteq Work /\ ignored \subseteq Unknown

GateInv ==
    /\ stage \in [Work -> Stage]
    /\ lock \subseteq Work  /\ over \in BOOLEAN /\ period \in Nat
    /\ faults \in 0 .. MaxFaults

RowOK(r, s, n) ==
    /\ s = "done" => r.written
    /\ r.delivered => n = 1
    /\ r.next = "far" => r.attempts >= MaxAttempts

RowsInv ==
    /\ row \in [Work -> Row]
    /\ \A w \in Work : RowOK(row[w], stage[w], Acted(w))

ClaimOK(c) ==
    /\ c.attempts <= row[c.work].attempts
    /\ c.sent = "ok" => Acted(c.work) = 1

ClaimsInv ==
    /\ claims \in [Deliverers -> SUBSET Claim]
    /\ \A d \in Deliverers : \A c \in claims[d] : ClaimOK(c)

BillingInv == LedgerInv /\ GateInv /\ RowsInv /\ ClaimsInv

LEMMA BillingInitInv == BillingInit => BillingInv
<1> SUFFICES ASSUME BillingInit PROVE BillingInv OBVIOUS
<1>1. LedgerInv BY DEF BillingInit, LedgerInv, Keyable
<1>2. GateInv
  <2>1. stage \in [Work -> Stage] BY DEF BillingInit, Stage
  <2>2. lock \subseteq Work /\ over \in BOOLEAN BY DEF BillingInit
  <2>3. period \in Nat /\ faults \in 0 .. MaxFaults BY DEF BillingInit
  <2> QED BY <2>1, <2>2, <2>3 DEF GateInv
<1>3. RowsInv BY DEF BillingInit, RowsInv, RowOK, Row, Acted
<1>4. ClaimsInv BY DEF BillingInit, ClaimsInv
<1> QED BY <1>1, <1>2, <1>3, <1>4 DEF BillingInv

LEMMA BillingInvImplies == BillingInv => ChargedAsBooked /\ NoUsageIsLost
<1> SUFFICES ASSUME BillingInv PROVE ChargedAsBooked /\ NoUsageIsLost OBVIOUS
<1>1. ChargedAsBooked
    BY DEF BillingInv, LedgerInv, ChargedAsBooked, Keyable
<1>2. NoUsageIsLost
  <2>1. ASSUME NEW w \in Work, Acted(w) = 1
        PROVE  entries[w] = 1 \/ (w \in Unknown /\ w \in ignored)
      BY <2>1 DEF BillingInv, LedgerInv, Acted
  <2> QED BY <2>1 DEF BillingInv, RowsInv, RowOK, Row, NoUsageIsLost
<1> QED BY <1>1, <1>2

-----------------------------------------------------------------------------
(* What RecordUsage() does to the ledger: it keeps it exact, forgets       *)
(* nothing, and leaves an entry for every event it accepts.                *)
LEMMA BookFacts ==
    ASSUME LedgerInv, GateInv, NEW w \in Work, Book(w), late' \subseteq Work,
           ignored' = ignored
    PROVE  /\ LedgerInv'
           /\ \A x \in Work : entries[x] = 1 => entries'[x] = 1
           /\ w \notin Refused => entries'[w] = 1
<1>1. CASE w \in Refused \/ ~Fresh(w)
  <2>1. UNCHANGED <<entries, bookedIn, charged>> BY <1>1 DEF Book
  <2>2. ~Fresh(w) => entries[w] = 1 BY DEF Fresh, LedgerInv
  <2> QED BY <1>1, <2>1, <2>2 DEF LedgerInv, Keyable
<1>2. CASE ~(w \in Refused \/ ~Fresh(w))
  <2>1. entries[w] = 0 /\ entries' = [entries EXCEPT ![w] = 1]
      BY <1>2 DEF Book, Fresh, LedgerInv
  <2>2. bookedIn' = [bookedIn EXCEPT ![w] = period] /\ bookedIn' \in [Work -> Nat]
      BY <1>2 DEF Book, LedgerInv, GateInv
  <2>3. charged' = [x \in Work |-> IF Keyable(x) THEN entries'[x] ELSE 0]
    <3>1. CASE Keyable(w)
        BY <1>2, <2>1, <3>1 DEF Book, LedgerInv, Keyable
    <3>2. CASE ~Keyable(w)
        BY <1>2, <2>1, <3>2 DEF Book, LedgerInv, Keyable
    <3> QED BY <3>1, <3>2
  <2>4. entries' \in [Work -> 0 .. 1] BY <2>1 DEF LedgerInv
  <2> QED BY <2>1, <2>2, <2>3, <2>4 DEF LedgerInv, Keyable
<1> QED BY <1>1, <1>2

(* What control-api has once acted on stays so, and it has acted on every  *)
(* event that it answers with success.                                     *)
LEMMA HandleFacts ==
    ASSUME LedgerInv, GateInv, NEW w \in Work, HandleUsage(w), late' \subseteq Work
    PROVE  /\ LedgerInv'
           /\ \A x \in Work : Acted(x) = 1 => (Acted(x))' = 1
           /\ w \notin Refused => (Acted(w))' = 1
<1>1. CASE Book(w) /\ ignored' = ignored
  <2>1. /\ LedgerInv'
        /\ \A x \in Work : entries[x] = 1 => entries'[x] = 1
        /\ w \notin Refused => entries'[w] = 1
      BY <1>1, BookFacts
  <2>2. \A x \in Work : entries[x] \in 0 .. 1 /\ entries'[x] \in 0 .. 1
      BY <2>1 DEF LedgerInv
  <2> QED BY <1>1, <2>1, <2>2 DEF Acted
<1>2. CASE Ignore(w)
  <2>1. /\ w \in Unknown /\ ignored' = ignored \cup {w}
        /\ UNCHANGED <<entries, bookedIn, charged>>
      BY <1>2 DEF Ignore
  <2>2. LedgerInv' BY <2>1 DEF LedgerInv, Keyable
  <2>3. \A x \in Work : entries[x] \in 0 .. 1 BY DEF LedgerInv
  <2> QED BY <2>1, <2>2, <2>3 DEF Acted
<1> QED BY <1>1, <1>2 DEF HandleUsage

(* The outcomes of the steps on the rows: what control-api has acted on    *)
(* stays so, and attempts only grow, so what claims and rows were promised *)
(* stays true.                                                             *)
LEMMA ActedStays ==
    ASSUME UNCHANGED <<entries, ignored>>
    PROVE  \A x \in Work : (Acted(x))' = Acted(x)
BY DEF Acted

LEMMA RowsKeep ==
    ASSUME RowsInv, LedgerInv, LedgerInv', row' = row, stage' = stage,
           \A x \in Work : Acted(x) = 1 => (Acted(x))' = 1
    PROVE  RowsInv'
BY DEF RowsInv, RowOK

LEMMA ClaimsKeep ==
    ASSUME ClaimsInv, NEW d \in Deliverers, NEW S \in SUBSET Claim,
           claims' = [claims EXCEPT ![d] = S],
           \A c \in S : ClaimOK(c)',
           \A x \in Work : /\ Acted(x) = 1 => (Acted(x))' = 1
                           /\ row[x].attempts = row'[x].attempts
    PROVE  ClaimsInv'
<1>1. claims' \in [Deliverers -> SUBSET Claim] BY DEF ClaimsInv
<1>2. ASSUME NEW e \in Deliverers, NEW c \in claims'[e] PROVE ClaimOK(c)'
  <2>1. CASE e = d BY <1>2, <2>1 DEF ClaimsInv
  <2>2. CASE e # d
    <3>1. c \in claims[e] /\ c \in Claim BY <1>2, <2>2 DEF ClaimsInv
    <3>2. ClaimOK(c) /\ c.work \in Work BY <3>1 DEF ClaimsInv, Claim
    <3> QED BY <3>2 DEF ClaimOK
  <2> QED BY <2>1, <2>2
<1> QED BY <1>1, <1>2 DEF ClaimsInv

-----------------------------------------------------------------------------
LEMMA BillingNextInv == BillingInv /\ [BillingNext]_billingVars => BillingInv'
<1> SUFFICES ASSUME BillingInv, [BillingNext]_billingVars PROVE BillingInv' OBVIOUS
<1> USE DEF BillingInv
<1>1. CASE UNCHANGED billingVars
    BY <1>1 DEF billingVars, gate, control, LedgerInv, GateInv, RowsInv, RowOK,
                ClaimsInv, ClaimOK, Keyable, Acted
<1>2. ASSUME NEW w \in Work,
             QuotaTx(w) \/ SumHeld(w) \/ ClaimUpload(w) \/ ClaimRollsBack(w)
               \/ MarkReady(w) \/ WorkFails(w)
      PROVE  BillingInv'
  <2>1. UNCHANGED <<row, claims, control>>
      BY <1>2 DEF QuotaTx, SumHeld, ClaimUpload, ClaimRollsBack, MarkReady, WorkFails
  <2>2. LedgerInv' /\ ClaimsInv'
      BY <2>1 DEF control, LedgerInv, Keyable, ClaimsInv, ClaimOK, Acted
  <2>3. /\ \E s \in Stage \ {"done"} : stage' = [stage EXCEPT ![w] = s]
        /\ lock' \subseteq Work /\ over' \in BOOLEAN /\ period' \in Nat
        /\ faults' \in 0 .. MaxFaults
    <3>1. CASE QuotaTx(w)
      <4>1. \E s \in Stage \ {"done"} : stage' = [stage EXCEPT ![w] = s]
          BY <3>1 DEF QuotaTx, Enter, Stage
      <4>2. lock' \subseteq Work /\ over' \in BOOLEAN
          BY <3>1 DEF QuotaTx, GateInv
      <4>3. period' \in Nat
          BY <3>1 DEF QuotaTx, GateInv
      <4>4. faults' \in 0 .. MaxFaults
          BY <3>1 DEF QuotaTx, GateInv, Fault
      <4> QED BY <4>1, <4>2, <4>3, <4>4
    <3>2. CASE SumHeld(w)
      <4>1. \E s \in Stage \ {"done"} : stage' = [stage EXCEPT ![w] = s]
          BY <3>2 DEF SumHeld, Enter, Stage
      <4>2. lock' \subseteq Work /\ over' \in BOOLEAN
          BY <3>2 DEF SumHeld, GateInv
      <4>3. period' \in Nat
          BY <3>2 DEF SumHeld, GateInv
      <4>4. faults' \in 0 .. MaxFaults
          BY <3>2 DEF SumHeld, GateInv, Fault
      <4> QED BY <4>1, <4>2, <4>3, <4>4
    <3>3. CASE ClaimUpload(w)
      <4>1. \E s \in Stage \ {"done"} : stage' = [stage EXCEPT ![w] = s]
          BY <3>3 DEF ClaimUpload, Enter, Stage
      <4>2. lock' \subseteq Work /\ over' \in BOOLEAN
          BY <3>3 DEF ClaimUpload, GateInv
      <4>3. period' \in Nat
          BY <3>3 DEF ClaimUpload, GateInv
      <4>4. faults' \in 0 .. MaxFaults
          BY <3>3 DEF ClaimUpload, GateInv, Fault
      <4> QED BY <4>1, <4>2, <4>3, <4>4
    <3>4. CASE ClaimRollsBack(w)
      <4>1. \E s \in Stage \ {"done"} : stage' = [stage EXCEPT ![w] = s]
          BY <3>4 DEF ClaimRollsBack, Enter, Stage
      <4>2. lock' \subseteq Work /\ over' \in BOOLEAN
          BY <3>4 DEF ClaimRollsBack, GateInv
      <4>3. period' \in Nat
          BY <3>4 DEF ClaimRollsBack, GateInv
      <4>4. faults' \in 0 .. MaxFaults
          BY <3>4 DEF ClaimRollsBack, GateInv, Fault
      <4> QED BY <4>1, <4>2, <4>3, <4>4
    <3>5. CASE MarkReady(w)
        BY <3>5 DEF MarkReady, Enter, Stage, GateInv, gate
    <3>6. CASE WorkFails(w)
        BY <3>6 DEF WorkFails, Enter, Stage, GateInv, gate
    <3> QED BY <1>2, <3>1, <3>2, <3>3, <3>4, <3>5, <3>6
  <2>4. GateInv' BY <2>3 DEF GateInv
  <2>5. RowsInv' BY <2>1, <2>3 DEF control, RowsInv, RowOK, GateInv, Acted
  <2> QED BY <2>2, <2>4, <2>5
<1>3. ASSUME NEW w \in Work, RecordUsageEvent(w) PROVE BillingInv'
  <2>1. /\ stage' = [stage EXCEPT ![w] = "done"]
        /\ row' = [row EXCEPT ![w] = [row[w] EXCEPT !.written = TRUE]]
        /\ UNCHANGED <<lock, saw, over, period, claims, late, entries, bookedIn, charged,
                       ignored, faults>>
      BY <1>3 DEF RecordUsageEvent, Enter, gate, control
  <2>2. LedgerInv' BY <2>1 DEF LedgerInv, Keyable
  <2>3. GateInv' BY <2>1 DEF GateInv, Stage
  <2>4. RowsInv' BY <2>1 DEF RowsInv, RowOK, Row, GateInv, Acted
  <2>5. \A x \in Work : row'[x].attempts = row[x].attempts BY <2>1 DEF RowsInv, Row
  <2>6. ClaimsInv' BY <2>1, <2>5 DEF ClaimsInv, ClaimOK, Claim, Acted
  <2> QED BY <2>2, <2>3, <2>4, <2>6
<1>4. ASSUME NEW w \in Work, ComesDue(w) PROVE BillingInv'
  <2>1. /\ row' = [row EXCEPT ![w] = [row[w] EXCEPT !.next = "due"]]
        /\ UNCHANGED <<stage, lock, saw, over, period, claims, late, entries, bookedIn,
                       charged, ignored, faults>>
      BY <1>4 DEF ComesDue, gate, control
  <2>2. LedgerInv' /\ GateInv' BY <2>1 DEF LedgerInv, GateInv, Keyable
  <2>3. RowsInv' BY <2>1 DEF RowsInv, RowOK, Row, Acted
  <2>4. \A x \in Work : row'[x].attempts = row[x].attempts BY <2>1 DEF RowsInv, Row
  <2>5. ClaimsInv' BY <2>1, <2>4 DEF ClaimsInv, ClaimOK, Claim, Acted
  <2> QED BY <2>2, <2>3, <2>5
<1>5. ASSUME NEW w \in Work, LateRequest(w) PROVE BillingInv'
  <2>1. UNCHANGED <<stage, lock, saw, over, period, row, claims, faults>> /\ late' \subseteq Work
      BY <1>5 DEF LateRequest, gate, LedgerInv
  <2>2. LedgerInv' /\ \A x \in Work : Acted(x) = 1 => (Acted(x))' = 1
    <3>1. CASE HandleUsage(w) BY <2>1, <3>1, HandleFacts
    <3>2. CASE UNCHANGED <<entries, bookedIn, charged, ignored>>
        BY <2>1, <3>2 DEF LedgerInv, Keyable, Acted
    <3> QED BY <1>5, <3>1, <3>2 DEF LateRequest
  <2>3. GateInv' BY <2>1 DEF GateInv
  <2>4. RowsInv' BY <2>1, <2>2, RowsKeep
  <2>5. ClaimsInv' BY <2>1, <2>2 DEF ClaimsInv, ClaimOK, Claim, Acted
  <2> QED BY <2>2, <2>3, <2>4, <2>5
<1>6. ASSUME NEW d \in Deliverers, ClaimBatch(d) PROVE BillingInv'
  <2>1. PICK S \in SUBSET Due :
           /\ row' = [w \in Work |->
                        IF w \in S THEN [row[w] EXCEPT !.attempts = @ + 1, !.next = "later"]
                                   ELSE row[w]]
           /\ claims' = [claims EXCEPT ![d] =
                 {[work |-> w, attempts |-> row[w].attempts + 1, sent |-> "no"] : w \in S}]
      BY <1>6 DEF ClaimBatch
  <2>2. UNCHANGED <<stage, lock, saw, over, period, late, entries, bookedIn, charged,
                    ignored, faults>>
      BY <1>6 DEF ClaimBatch, gate, control
  <2>3. LedgerInv' /\ GateInv' BY <2>2 DEF LedgerInv, GateInv, Keyable
  <2>6. S \subseteq Work /\ \A w \in S : row[w].next = "due" BY DEF Due
  <2>4. \A w \in Work :
           /\ row'[w] \in Row
           /\ row'[w].attempts = row[w].attempts + (IF w \in S THEN 1 ELSE 0)
           /\ RowOK(row'[w], stage[w], Acted(w))
    <3>1. ASSUME NEW w \in S
          PROVE  LET r == [row[w] EXCEPT !.attempts = row[w].attempts + 1, !.next = "later"]
                 IN  /\ r \in Row /\ r.attempts = row[w].attempts + 1
                     /\ RowOK(r, stage[w], Acted(w))
      <4>1. row[w] \in Row /\ RowOK(row[w], stage[w], Acted(w)) BY <2>6 DEF RowsInv
      <4> DEFINE r == [row[w] EXCEPT !.attempts = row[w].attempts + 1, !.next = "later"]
      <4>2. r \in Row
        <5>1. row[w].attempts + 1 \in Nat BY <4>1 DEF Row
        <5> DEFINE n == row[w].attempts + 1
        <5>2. n \in Nat BY <5>1
        <5> HIDE DEF n
        <5>3. [row[w] EXCEPT !.attempts = n, !.next = "later"] \in Row BY <4>1, <5>2 DEF Row
        <5> QED BY <5>3 DEF n
      <4>3. r.attempts = row[w].attempts + 1 /\ r.next = "later"
            /\ r.written = row[w].written /\ r.delivered = row[w].delivered
          BY <4>1 DEF Row
      <4>4. RowOK(r, stage[w], Acted(w)) BY <4>1, <4>3 DEF RowOK, Acted
      <4> QED BY <4>2, <4>3, <4>4
    <3>2. \A w \in S : row'[w] = [row[w] EXCEPT !.attempts = row[w].attempts + 1,
                                                !.next = "later"]
        BY <2>1, <2>6
    <3>3. \A w \in Work \ S : row'[w] = row[w] BY <2>1
    <3>4. \A w \in Work : row[w] \in Row /\ row[w].attempts \in Nat
                            /\ RowOK(row[w], stage[w], Acted(w))
        BY DEF RowsInv, Row
    <3>5. ASSUME NEW w \in Work
          PROVE  /\ row'[w] \in Row
                 /\ row'[w].attempts = row[w].attempts + (IF w \in S THEN 1 ELSE 0)
                 /\ RowOK(row'[w], stage[w], Acted(w))
      <4>1. CASE w \in S BY <3>1, <3>2, <4>1
      <4>2. CASE w \notin S BY <3>3, <3>4, <4>2
      <4> QED BY <4>1, <4>2
    <3> QED BY <3>5
  <2>10. \A w \in Work : (Acted(w))' = Acted(w) BY <2>2, ActedStays
  <2>5. row' \in [Work -> Row] /\ RowsInv' BY <2>1, <2>2, <2>4, <2>10 DEF RowsInv
  <2>7. claims' \in [Deliverers -> SUBSET Claim]
    <3>1. {[work |-> w, attempts |-> row[w].attempts + 1, sent |-> "no"] : w \in S} \subseteq Claim
        BY <2>6 DEF Claim, RowsInv, Row
    <3> QED BY <2>1, <3>1 DEF ClaimsInv
  <2>8. \A w \in Work : row[w].attempts <= row'[w].attempts
      BY <2>4 DEF RowsInv, Row
  <2>9. ASSUME NEW e \in Deliverers, NEW c \in claims'[e] PROVE ClaimOK(c)'
    <3>1. CASE e = d
      <4>1. PICK w \in S : c = [work |-> w, attempts |-> row[w].attempts + 1, sent |-> "no"]
          BY <2>1, <2>9, <3>1 DEF ClaimsInv
      <4>2. row'[w].attempts = row[w].attempts + 1 /\ row[w].attempts \in Nat
          BY <2>4, <2>6 DEF RowsInv, Row
      <4> QED BY <4>1, <4>2 DEF ClaimOK, Acted
    <3>2. CASE e # d
      <4>1. c \in claims[e] /\ c \in Claim BY <2>1, <2>9, <3>2 DEF ClaimsInv
      <4>2. ClaimOK(c) /\ c.work \in Work /\ c.attempts \in Nat BY <4>1 DEF ClaimsInv, Claim
      <4>3. row[c.work].attempts \in Nat /\ row'[c.work].attempts \in Nat
          BY <2>5, <4>2 DEF RowsInv, Row
      <4> QED BY <2>2, <2>8, <4>2, <4>3 DEF ClaimOK, Acted
    <3> QED BY <3>1, <3>2
  <2> QED BY <2>3, <2>5, <2>7, <2>9 DEF ClaimsInv
<1>7. ASSUME NEW d \in Deliverers, NEW c \in claims[d], Post(d, c) PROVE BillingInv'
  <2>1. c \in Claim /\ c.work \in Work /\ ClaimOK(c) BY DEF ClaimsInv, Claim
  <2>2. HandleUsage(c.work) /\ UNCHANGED <<stage, lock, saw, over, period, row, late, faults>>
      BY <1>7 DEF Post, gate
  <2>3. /\ LedgerInv'
        /\ \A x \in Work : Acted(x) = 1 => (Acted(x))' = 1
        /\ c.work \notin Refused => (Acted(c.work))' = 1
      BY <2>1, <2>2, HandleFacts DEF LedgerInv
  <2>4. GateInv' BY <2>2 DEF GateInv
  <2>5. RowsInv' BY <2>2, <2>3, RowsKeep
  <2> DEFINE n == [c EXCEPT !.sent = Answer(c.work)]
             S == (claims[d] \ {c}) \cup {n}
  <2>6. /\ n \in Claim /\ n.work = c.work /\ n.attempts = c.attempts
        /\ n.sent = "ok" => c.work \notin Refused
      BY <2>1 DEF Claim, Answer
  <2>7. ClaimOK(n)' BY <2>1, <2>2, <2>3, <2>6 DEF ClaimOK, Acted
  <2>8. \A x \in S : ClaimOK(x)'
    <3>1. ASSUME NEW x \in claims[d] PROVE ClaimOK(x)'
      <4>1. x \in Claim /\ x.work \in Work /\ ClaimOK(x) BY <3>1 DEF ClaimsInv, Claim
      <4> QED BY <4>1, <2>2, <2>3 DEF ClaimOK, Acted
    <3> QED BY <3>1, <2>7
  <2>9. claims' = [claims EXCEPT ![d] = S] BY <1>7 DEF Post, Sent
  <2>10. S \subseteq Claim BY <2>6 DEF ClaimsInv
  <2> HIDE DEF S, n
  <2>11. ClaimsInv' BY <2>2, <2>3, <2>8, <2>9, <2>10, ClaimsKeep
  <2> QED BY <2>3, <2>4, <2>5, <2>11
<1>8. ASSUME NEW d \in Deliverers, NEW c \in claims[d], PostTimesOut(d, c) PROVE BillingInv'
  <2>1. c \in Claim /\ c.work \in Work /\ ClaimOK(c) BY DEF ClaimsInv, Claim
  <2>2. /\ UNCHANGED <<stage, lock, saw, over, period, row, entries, bookedIn, charged,
                       ignored>>
        /\ late' = late \cup {c.work} /\ Fault
      BY <1>8 DEF PostTimesOut, gate
  <2>3. LedgerInv' BY <2>1, <2>2 DEF LedgerInv, Keyable
  <2>4. GateInv' BY <2>2 DEF GateInv, Fault
  <2>5. RowsInv' BY <2>2 DEF RowsInv, RowOK, Acted
  <2> DEFINE n == [c EXCEPT !.sent = "error"]
             S == (claims[d] \ {c}) \cup {n}
  <2>6. n \in Claim /\ n.work = c.work /\ n.attempts = c.attempts /\ n.sent = "error"
      BY <2>1 DEF Claim
  <2>7. \A x \in S : ClaimOK(x)' BY <2>1, <2>2, <2>6 DEF ClaimOK, ClaimsInv, Acted
  <2>8. claims' = [claims EXCEPT ![d] = S] BY <1>8 DEF PostTimesOut, Sent
  <2>9. S \subseteq Claim BY <2>6 DEF ClaimsInv
  <2> HIDE DEF S, n
  <2>10. ClaimsInv' BY <2>2, <2>7, <2>8, <2>9, ActedStays, ClaimsKeep
  <2> QED BY <2>3, <2>4, <2>5, <2>10
<1>9. ASSUME NEW d \in Deliverers, NEW c \in claims[d], WriteOutcome(d, c) PROVE BillingInv'
  <2>1. /\ c \in Claim /\ c.work \in Work /\ ClaimOK(c)
        /\ c.attempts \in Nat /\ c.sent \in {"no", "ok", "error"}
      BY DEF ClaimsInv, Claim
  <2>2. /\ row' = [row EXCEPT ![c.work] = Outcome(row[c.work], c)]
        /\ claims' = [claims EXCEPT ![d] = claims[d] \ {c}]
        /\ UNCHANGED <<stage, lock, saw, over, period, late, entries, bookedIn, charged,
                    ignored, faults>>
      BY <1>9 DEF WriteOutcome, gate, control
  <2>3. LedgerInv' /\ GateInv' BY <2>2 DEF LedgerInv, GateInv, Keyable
  <2>4. /\ Outcome(row[c.work], c) \in Row
        /\ Outcome(row[c.work], c).attempts = row[c.work].attempts
        /\ RowOK(Outcome(row[c.work], c), stage[c.work], Acted(c.work))
    <3>1. row[c.work] \in Row /\ RowOK(row[c.work], stage[c.work], Acted(c.work))
        BY <2>1 DEF RowsInv
    <3>2. CASE c.sent = "ok" BY <2>1, <3>1, <3>2 DEF Outcome, Row, RowOK, ClaimOK, Acted
    <3>3. CASE c.sent = "error" /\ c.attempts >= MaxAttempts
        BY <2>1, <3>1, <3>3 DEF Outcome, Row, RowOK, ClaimOK, Acted
    <3>4. CASE c.sent # "ok" /\ ~(c.sent = "error" /\ c.attempts >= MaxAttempts)
        BY <2>1, <3>1, <3>4 DEF Outcome, Row, RowOK, ClaimOK, Acted
    <3> QED BY <3>2, <3>3, <3>4
  <2>5. RowsInv'
    <3>1. row' \in [Work -> Row] BY <2>1, <2>2, <2>4 DEF RowsInv
    <3>2. ASSUME NEW w \in Work PROVE RowOK(row[w], stage[w], Acted(w))'
      <4>1. CASE w = c.work BY <2>2, <2>4, <4>1 DEF RowsInv, RowOK, Acted
      <4>2. CASE w # c.work BY <2>2, <4>2 DEF RowsInv, RowOK, Acted
      <4> QED BY <4>1, <4>2
    <3> QED BY <3>1, <3>2 DEF RowsInv
  <2>6. \A w \in Work : row[w].attempts = row'[w].attempts
      BY <2>1, <2>2, <2>4 DEF RowsInv
  <2>7. \A x \in claims[d] \ {c} : ClaimOK(x)'
      BY <2>2, <2>6 DEF ClaimsInv, ClaimOK, Claim, Acted
  <2>8. claims[d] \ {c} \in SUBSET Claim BY DEF ClaimsInv
  <2>9. ClaimsInv' BY <2>2, <2>6, <2>7, <2>8, ActedStays, ClaimsKeep
  <2> QED BY <2>3, <2>5, <2>9
<1>10. ASSUME NEW d \in Deliverers, DelivererRestarts(d) PROVE BillingInv'
  <2>1. /\ claims' = [claims EXCEPT ![d] = {}]
        /\ UNCHANGED <<stage, lock, saw, over, period, row, entries, bookedIn, charged,
                       ignored>>
        /\ Fault
      BY <1>10 DEF DelivererRestarts, gate
  <2>2. late' \subseteq Work
      BY <1>10 DEF DelivererRestarts, LedgerInv, ClaimsInv, Claim
  <2>3. LedgerInv' BY <2>1, <2>2 DEF LedgerInv, Keyable
  <2>4. GateInv' BY <2>1 DEF GateInv, Fault
  <2>5. RowsInv' BY <2>1 DEF RowsInv, RowOK, Acted
  <2>6. ClaimsInv' BY <2>1, ActedStays, ClaimsKeep, {} \in SUBSET Claim
  <2> QED BY <2>3, <2>4, <2>5, <2>6
<1>11. CASE PeriodRunsOut
    BY <1>11 DEF PeriodRunsOut, control, LedgerInv, GateInv, RowsInv, RowOK,
                 ClaimsInv, ClaimOK, Keyable, Acted
<1> QED
    BY <1>1, <1>2, <1>3, <1>4, <1>5, <1>6, <1>7, <1>8, <1>9, <1>10, <1>11
    DEF BillingNext, AdmissionStep, DelivererStep

(* Entries, charges, rows and claims stay consistent with each other in    *)
(* every run (usage.py, outbox.py and RecordUsage() together).             *)
THEOREM BillingInvariance == BillingSpec => []BillingInv
<1>1. BillingInit => BillingInv BY BillingInitInv
<1>2. BillingInv /\ [BillingNext]_billingVars => BillingInv' BY BillingNextInv
<1> QED BY <1>1, <1>2, PTL DEF BillingSpec

(* Redelivery of any kind, by any number of replicas, neither enters an    *)
(* event twice nor charges a key for it twice (RecordUsage()).             *)
THEOREM ChargedExactlyAsBooked == BillingSpec => []ChargedAsBooked
<1>1. BillingInv => ChargedAsBooked BY BillingInvImplies
<1> QED BY <1>1, BillingInvariance, PTL

(* Finished work is booked, waits in the outbox or counts as abandoned, at *)
(* whatever point replicas restart and requests fail (deliver_once()); or  *)
(* its kind of usage is one control-api may not know, and it has logged    *)
(* the event (handleInternalUsage()).                                      *)
THEOREM UsageIsKept == BillingSpec => []NoUsageIsLost
<1>1. BillingInv => NoUsageIsLost BY BillingInvImplies
<1> QED BY <1>1, BillingInvariance, PTL

-----------------------------------------------------------------------------
(* The sums of the gate.  MapThenSumSet() adds the first element of a set  *)
(* to the sum of the others; that such a function exists on the subsets of *)
(* every finite set, that there is one only and that any element may come  *)
(* first is shown by induction: the smallest set for which it fails.       *)
First(S) == CHOOSE x \in S : TRUE

SumsUp(g, U, f) ==
    g = [S \in SUBSET U |-> IF S = {} THEN 0 ELSE f[First(S)] + g[S \ {First(S)}]]

LEMMA TotalIs ==
    ASSUME NEW U, NEW f
    PROVE  Total(U, f) = (CHOOSE g : SumsUp(g, U, f))[U]
BY DEF Total, MapThenSumSet, MapThenFoldSet, SumsUp, First

LEMMA FirstIsIn == ASSUME NEW S, S # {} PROVE First(S) \in S
BY DEF First

(* Induction on finite sets, with sets of counterexamples.                 *)
LEMMA SmallestSet ==
    ASSUME NEW U, IsFiniteSet(U), NEW Bad \in SUBSET (SUBSET U), Bad # {}
    PROVE  \E S \in Bad : \A T \in SUBSET S : T # S => T \notin Bad
<1>1. IsWellFoundedOn(StrictSubsetOrdering(U), SUBSET U)
  <2>1. FiniteSubsetsOf(U) = SUBSET U BY FS_FiniteSubsetsOfFinite
  <2> QED BY <2>1, FS_StrictSubsetOrderingWellFounded
<1>2. PICK S \in Bad : \A T \in Bad : ~(<<T, S>> \in StrictSubsetOrdering(U))
    BY <1>1, WFMin
<1>3. ASSUME NEW T \in SUBSET S, T # S, T \in Bad PROVE FALSE
    BY <1>2, <1>3 DEF StrictSubsetOrdering
<1> QED BY <1>3

LEMMA SumsAgree ==
    ASSUME NEW U, IsFiniteSet(U), NEW V \in SUBSET U, NEW f, NEW g, NEW h,
           SumsUp(g, U, f), SumsUp(h, V, f)
    PROVE  g[V] = h[V]
<1> DEFINE Bad == {S \in SUBSET V : g[S] # h[S]}
<1> SUFFICES ASSUME V \in Bad PROVE FALSE OBVIOUS
<1>1. PICK S \in Bad : \A T \in SUBSET S : T # S => T \notin Bad
  <2>1. IsFiniteSet(V) BY FS_Subset
  <2>2. Bad \in SUBSET (SUBSET V) /\ Bad # {} OBVIOUS
  <2> HIDE DEF Bad
  <2> QED BY <2>1, <2>2, SmallestSet
<1>2. g[S] = (IF S = {} THEN 0 ELSE f[First(S)] + g[S \ {First(S)}])
    BY DEF SumsUp
<1>3. h[S] = (IF S = {} THEN 0 ELSE f[First(S)] + h[S \ {First(S)}])
    BY DEF SumsUp
<1>4. S # {} => g[S \ {First(S)}] = h[S \ {First(S)}]
    BY <1>1, FirstIsIn
<1> QED BY <1>2, <1>3, <1>4

LEMMA SumsExist ==
    ASSUME NEW U, IsFiniteSet(U), NEW f
    PROVE  \E g : SumsUp(g, U, f)
<1> DEFINE Bad == {S \in SUBSET U : ~ \E g : SumsUp(g, S, f)}
<1> SUFFICES ASSUME U \in Bad PROVE FALSE OBVIOUS
<1>1. PICK S \in Bad : \A T \in SUBSET S : T # S => T \notin Bad
  <2>1. Bad \in SUBSET (SUBSET U) /\ Bad # {} OBVIOUS
  <2> HIDE DEF Bad
  <2> QED BY <2>1, SmallestSet
<1> DEFINE sum(T) == (CHOOSE g : SumsUp(g, T, f))[T]
           whole == [T \in SUBSET S |->
                       IF T = {} THEN 0 ELSE f[First(T)] + sum(T \ {First(T)})]
<1>2. ASSUME NEW T \in SUBSET S, T # S
      PROVE  sum(T) = IF T = {} THEN 0 ELSE f[First(T)] + sum(T \ {First(T)})
  <2>1. PICK g : g = (CHOOSE h : SumsUp(h, T, f)) /\ SumsUp(g, T, f)
      BY <1>1, <1>2
  <2>2. sum(T) = IF T = {} THEN 0 ELSE f[First(T)] + g[T \ {First(T)}]
      BY <2>1 DEF SumsUp
  <2>3. CASE T = {} BY <2>2, <2>3
  <2>4. CASE T # {}
    <3> DEFINE R == T \ {First(T)}
    <3>1. R \in SUBSET S /\ R # S /\ R \subseteq T
        BY <2>4, FirstIsIn
    <3>2. PICK h : h = (CHOOSE g_1 : SumsUp(g_1, R, f)) /\ SumsUp(h, R, f)
        BY <1>1, <3>1
    <3>3. IsFiniteSet(T) BY FS_Subset
    <3> HIDE DEF R
    <3>4. g[R] = h[R] BY <2>1, <3>1, <3>2, <3>3, SumsAgree
    <3> QED BY <2>2, <2>4, <3>2, <3>4 DEF R
  <2> QED BY <2>3, <2>4
<1>3. ASSUME NEW T \in SUBSET S, T # {}
      PROVE  whole[T \ {First(T)}] = sum(T \ {First(T)})
  <2> DEFINE R == T \ {First(T)}
  <2>1. R \in SUBSET S /\ R # S BY <1>3, FirstIsIn
  <2>2. whole[R] = IF R = {} THEN 0 ELSE f[First(R)] + sum(R \ {First(R)})
      BY <2>1
  <2> HIDE DEF R, sum, whole
  <2>3. whole[R] = sum(R) BY <1>2, <2>1, <2>2
  <2> QED BY <2>3 DEF R
<1>4. SumsUp(whole, S, f)
  <2> HIDE DEF sum
  <2> QED BY <1>3 DEF SumsUp
<1> QED BY <1>1, <1>4

(* The sum of a finite set, by its first element and by any of them.       *)
LEMMA TotalRecursion ==
    ASSUME NEW S, IsFiniteSet(S), NEW f
    PROVE  Total(S, f) = IF S = {} THEN 0 ELSE f[First(S)] + Total(S \ {First(S)}, f)
<1> DEFINE T == S \ {First(S)}
<1>1. IsFiniteSet(T) /\ T \in SUBSET S BY FS_Subset
<1>2. PICK g : g = (CHOOSE g_1 : SumsUp(g_1, S, f)) /\ SumsUp(g, S, f)
    BY SumsExist
<1>3. PICK h : h = (CHOOSE g_1 : SumsUp(g_1, T, f)) /\ SumsUp(h, T, f)
    BY <1>1, SumsExist
<1>4. Total(S, f) = g[S] /\ Total(T, f) = h[T] BY <1>2, <1>3, TotalIs
<1> HIDE DEF T
<1>5. g[T] = h[T] BY <1>1, <1>2, <1>3, SumsAgree
<1>6. g[S] = IF S = {} THEN 0 ELSE f[First(S)] + g[T] BY <1>2 DEF SumsUp, T
<1> QED BY <1>4, <1>5, <1>6 DEF T

LEMMA TotalIsNat ==
    ASSUME NEW S, IsFiniteSet(S), NEW f, \A x \in S : f[x] \in Nat
    PROVE  Total(S, f) \in Nat
<1> DEFINE Bad == {T \in SUBSET S : Total(T, f) \notin Nat}
<1> SUFFICES ASSUME S \in Bad PROVE FALSE OBVIOUS
<1>1. PICK T \in Bad : \A R \in SUBSET T : R # T => R \notin Bad
  <2>1. Bad \in SUBSET (SUBSET S) /\ Bad # {} OBVIOUS
  <2> HIDE DEF Bad
  <2> QED BY <2>1, SmallestSet
<1>2. IsFiniteSet(T) BY FS_Subset
<1>3. T # {} => First(T) \in S /\ Total(T \ {First(T)}, f) \in Nat BY <1>1, FirstIsIn
<1>4. T = {} => Total(T, f) = 0 BY <1>2, TotalRecursion
<1>5. T # {} => Total(T, f) = f[First(T)] + Total(T \ {First(T)}, f) BY <1>2, TotalRecursion
<1>6. Total(T, f) \in Nat BY <1>3, <1>4, <1>5
<1> QED BY <1>6

LEMMA TotalSplits ==
    ASSUME NEW S, IsFiniteSet(S), NEW f, \A x \in S : f[x] \in Nat, NEW x \in S
    PROVE  Total(S, f) = f[x] + Total(S \ {x}, f)
<1> DEFINE Splits(T, z) == Total(T, f) = f[z] + Total(T \ {z}, f)
           Bad == {T \in SUBSET S : \E z \in T : ~Splits(T, z)}
<1> SUFFICES ASSUME S \in Bad PROVE FALSE OBVIOUS
<1>1. PICK T \in Bad : \A R \in SUBSET T : R # T => R \notin Bad
  <2>1. Bad \in SUBSET (SUBSET S) /\ Bad # {} OBVIOUS
  <2> HIDE DEF Bad
  <2> QED BY <2>1, SmallestSet
<1>2. PICK z \in T : ~Splits(T, z) BY <1>1
<1> DEFINE y == First(T)  Rest == (T \ {y}) \ {z}
<1>3. y \in T /\ IsFiniteSet(T) BY FirstIsIn, FS_Subset
<1>4. Splits(T, y) BY <1>3, TotalRecursion
<1>5. z # y BY <1>2, <1>4
<1>6. Splits(T \ {y}, z) /\ Splits(T \ {z}, y)
  <2>1. \A x_1 \in T : \A x_2 \in T \ {x_1} : Splits(T \ {x_1}, x_2)
      BY <1>1
  <2> HIDE DEF Splits
  <2> QED BY <1>2, <1>3, <1>5, <2>1
<1>7. (T \ {z}) \ {y} = Rest OBVIOUS
<1>8. f[y] \in Nat /\ f[z] \in Nat /\ Total(Rest, f) \in Nat
  <2>1. IsFiniteSet(Rest) BY <1>3, FS_Subset
  <2> QED BY <1>2, <1>3, <2>1, TotalIsNat
<1>9. Total(T \ {z}, f) = f[y] + Total(Rest, f) BY <1>6, <1>7
<1>10. Total(T \ {y}, f) = f[z] + Total(Rest, f) BY <1>6
<1> HIDE DEF Rest, y
<1>11. Total(T, f) = f[z] + Total(T \ {z}, f) BY <1>4, <1>8, <1>9, <1>10
<1> QED BY <1>2, <1>11

-----------------------------------------------------------------------------
(* The gate.  Neither the limit nor what an admission has summed would     *)
(* mean anything without the lock: while one admission is between its sums *)
(* and its insert no other is, so what is held can only shrink, and the    *)
(* sum it compares is still an upper bound.                                *)
HeldWork   == {w \in Work : stage[w] = "held"}
BookedWork == {w \in Work : entries[w] > 0}

LockInv ==
    /\ \A w \in Work : w \in lock <=> stage[w] \in {"locked", "judged"}
    /\ \A w, x \in lock : w = x

SumsInv ==
    /\ saw \in [Work -> Nat]
    /\ IsFiniteSet(HeldWork) /\ IsFiniteSet(BookedWork)
    /\ \A w \in Work : stage[w] = "judged" => Held <= saw[w]
    /\ Held <= Limit

QuotaInv == LockInv /\ SumsInv

LEMMA SumsAreNat ==
    ASSUME SumsInv, NEW p
    PROVE  Held \in Nat /\ Used(p) \in Nat
<1> DEFINE B == {w \in Work : entries[w] > 0 /\ bookedIn[w] = p}
<1>1. B \in SUBSET BookedWork BY DEF BookedWork
<1>2. IsFiniteSet(B) /\ IsFiniteSet(HeldWork) BY <1>1, FS_Subset DEF SumsInv
<1>3. \A w \in Work : Reserved[w] \in Nat /\ Pages[w] \in Nat BY DEF BillingAssumption
<1>4. Total(B, Pages) \in Nat
  <2>1. \A w \in B : Pages[w] \in Nat BY <1>3
  <2> HIDE DEF B
  <2> QED BY <1>2, <2>1, TotalIsNat
<1>5. Total(HeldWork, Reserved) \in Nat
  <2>1. \A w \in HeldWork : Reserved[w] \in Nat BY <1>3 DEF HeldWork
  <2> QED BY <1>2, <2>1, TotalIsNat
<1> QED BY <1>4, <1>5 DEF Used, Held, HeldWork

LEMMA QuotaInitInv == BillingInit => QuotaInv
<1> SUFFICES ASSUME BillingInit PROVE QuotaInv OBVIOUS
<1>1. HeldWork = {} /\ BookedWork = {} BY DEF BillingInit, HeldWork, BookedWork
<1>2. IsFiniteSet({}) BY FS_EmptySet
<1>3. Held = 0
  <2>1. Total({}, Reserved) = 0 BY <1>2, TotalRecursion
  <2> QED BY <1>1, <2>1 DEF Held, HeldWork
<1>4. LockInv BY DEF BillingInit, LockInv
<1>5. SumsInv BY <1>1, <1>2, <1>3 DEF BillingInit, SumsInv, BillingAssumption
<1> QED BY <1>4, <1>5 DEF QuotaInv

(* What is held, when one session comes, goes or does neither.             *)
LEMMA HeldIs == Held = Total(HeldWork, Reserved)
BY DEF Held, HeldWork

LEMMA HeldStays ==
    ASSUME HeldWork' = HeldWork
    PROVE  Held' = Held
BY DEF Held, HeldWork

LEMMA HeldGrows ==
    ASSUME SumsInv, NEW w \in Work, w \notin HeldWork, HeldWork' = HeldWork \cup {w}
    PROVE  IsFiniteSet(HeldWork') /\ Held' = Reserved[w] + Held
<1>1. IsFiniteSet(HeldWork) BY DEF SumsInv
<1>2. IsFiniteSet(HeldWork') BY <1>1, FS_AddElement
<1>3. \A x \in HeldWork' : Reserved[x] \in Nat BY DEF HeldWork, BillingAssumption
<1>4. HeldWork' \ {w} = HeldWork /\ w \in HeldWork' OBVIOUS
<1> DEFINE H == HeldWork'
<1>5. Total(H, Reserved) = Reserved[w] + Total(H \ {w}, Reserved)
  <2>1. IsFiniteSet(H) /\ w \in H /\ \A x \in H : Reserved[x] \in Nat BY <1>2, <1>3, <1>4
  <2> HIDE DEF H
  <2> QED BY <2>1, TotalSplits
<1>6. Held' = Total(H, Reserved) BY DEF Held, HeldWork
<1> QED BY <1>2, <1>4, <1>5, <1>6, HeldIs

LEMMA HeldShrinks ==
    ASSUME SumsInv, NEW w \in HeldWork, HeldWork' = HeldWork \ {w}
    PROVE  IsFiniteSet(HeldWork') /\ Held' <= Held /\ Held' \in Nat
<1>1. IsFiniteSet(HeldWork) BY DEF SumsInv
<1>2. IsFiniteSet(HeldWork') BY <1>1, FS_RemoveElement
<1>3. \A x \in HeldWork : Reserved[x] \in Nat BY DEF HeldWork, BillingAssumption
<1>4. Total(HeldWork, Reserved) = Reserved[w] + Total(HeldWork \ {w}, Reserved)
    BY <1>1, <1>3, TotalSplits
<1> DEFINE H == HeldWork \ {w}
<1>5. Total(H, Reserved) \in Nat
  <2>1. IsFiniteSet(H) /\ \A x \in H : Reserved[x] \in Nat BY <1>2, <1>3
  <2> HIDE DEF H
  <2> QED BY <2>1, TotalIsNat
<1>6. Held' = Total(H, Reserved) BY DEF Held, HeldWork
<1> QED BY <1>2, <1>3, <1>4, <1>5, <1>6, HeldIs

(* The steps of an admission; saw is 0 when it is not under way.           *)
LEMMA AdmissionKeepsQuota ==
    ASSUME BillingInv, QuotaInv, NEW w \in Work,
           \/ QuotaTx(w) \/ SumHeld(w) \/ ClaimRollsBack(w) \/ RecordUsageEvent(w)
           \/ ClaimUpload(w) /\ ~Fits(w)
           \/ (MarkReady(w) \/ WorkFails(w)) /\ stage[w] = "running"
    PROVE  QuotaInv'
<1> USE DEF QuotaInv
<1>1. stage \in [Work -> Stage] /\ period \in Nat /\ lock \subseteq Work
    BY DEF BillingInv, GateInv
<1>2. entries' = entries /\ HeldWork' = HeldWork
  <2>1. stage[w] # "held"
      BY DEF QuotaTx, SumHeld, ClaimRollsBack, ClaimUpload, RecordUsageEvent
  <2>2. entries' = entries /\ \E s \in Stage \ {"held"} : stage' = [stage EXCEPT ![w] = s]
      BY DEF QuotaTx, SumHeld, ClaimRollsBack, ClaimUpload, RecordUsageEvent, MarkReady,
             WorkFails, Enter, Stage, control
  <2> QED BY <1>1, <2>1, <2>2 DEF HeldWork
<1>3. Held' = Held BY <1>2, HeldStays
<1>4. IsFiniteSet(HeldWork') /\ IsFiniteSet(BookedWork')
    BY <1>2 DEF SumsInv, BookedWork
<1>5. Held \in Nat BY SumsAreNat
<1>6. CASE QuotaTx(w)
  <2>1. Used(period') \in Nat BY SumsAreNat
  <2>2. /\ lock = {} /\ lock' = {w} /\ saw' = [saw EXCEPT ![w] = Used(period')]
        /\ stage' = [stage EXCEPT ![w] = "locked"]
      BY <1>6 DEF QuotaTx, Unlocked, Enter
  <2>3. LockInv' BY <1>1, <2>2 DEF LockInv
  <2> HIDE DEF QuotaInv
  <2>4. SumsInv' BY <1>1, <1>3, <1>4, <2>1, <2>2 DEF SumsInv, QuotaInv
  <2> QED BY <2>3, <2>4 DEF QuotaInv
<1>7. CASE SumHeld(w)
  <2>1. /\ stage[w] = "locked" /\ lock' = lock /\ stage' = [stage EXCEPT ![w] = "judged"]
        /\ saw' = [saw EXCEPT ![w] = saw[w] + Held]
      BY <1>7 DEF SumHeld, Enter
  <2>2. LockInv' BY <1>1, <2>1 DEF LockInv
  <2>3. saw[w] \in Nat BY DEF SumsInv
  <2>4. SumsInv' BY <1>1, <1>3, <1>4, <1>5, <2>1, <2>3 DEF SumsInv
  <2> QED BY <2>2, <2>4
<1>8. CASE ClaimRollsBack(w) \/ (ClaimUpload(w) /\ ~Fits(w))
  <2>1. /\ lock' = lock \ {w} /\ saw' = [saw EXCEPT ![w] = 0]
        /\ stage' = [stage EXCEPT ![w] = "new"] \/ stage' = [stage EXCEPT ![w] = "refused"]
      BY <1>8 DEF ClaimRollsBack, ClaimUpload, Enter
  <2>2. LockInv' BY <1>1, <2>1 DEF LockInv
  <2>3. SumsInv' BY <1>1, <1>3, <1>4, <2>1 DEF SumsInv
  <2> QED BY <2>2, <2>3
<1>9. CASE RecordUsageEvent(w) \/ ((MarkReady(w) \/ WorkFails(w)) /\ stage[w] = "running")
  <2>1. /\ UNCHANGED <<lock, saw>> /\ stage[w] \in {"running", "held"}
        /\ \E s \in {"running", "failed", "done"} : stage' = [stage EXCEPT ![w] = s]
      BY <1>9 DEF RecordUsageEvent, MarkReady, WorkFails, Enter, gate
  <2>2. LockInv' BY <1>1, <2>1 DEF LockInv
  <2>3. SumsInv' BY <1>1, <1>3, <1>4, <2>1 DEF SumsInv
  <2> QED BY <2>2, <2>3
<1> QED BY <1>6, <1>7, <1>8, <1>9

(* An admission that fits: its sum still bounds what is held, so what is   *)
(* held with it fits as well, and nobody else is being admitted.           *)
LEMMA FittingKeepsQuota ==
    ASSUME BillingInv, QuotaInv, NEW w \in Work, ClaimUpload(w), Fits(w)
    PROVE  QuotaInv'
<1>1. stage \in [Work -> Stage] /\ lock \subseteq Work
    BY DEF BillingInv, GateInv
<1>2. /\ stage[w] = "judged" /\ lock' = lock \ {w} /\ saw' = [saw EXCEPT ![w] = 0]
      /\ stage' = [stage EXCEPT ![w] = "held"] /\ entries' = entries
    BY DEF ClaimUpload, Enter, control
<1>3. w \notin HeldWork /\ HeldWork' = HeldWork \cup {w}
    BY <1>1, <1>2 DEF HeldWork
<1>4. IsFiniteSet(HeldWork') /\ Held' = Reserved[w] + Held
    BY <1>3, HeldGrows DEF QuotaInv
<1>5. Held' <= Limit
  <2>1. Held \in Nat /\ Held <= saw[w] /\ saw[w] \in Nat
      BY <1>2, SumsAreNat DEF QuotaInv, SumsInv
  <2>2. saw[w] + Reserved[w] <= Limit /\ Reserved[w] \in Nat /\ Limit \in Nat
      BY DEF Fits, BillingAssumption
  <2> QED BY <1>4, <2>1, <2>2
<1>6. \A x \in Work : stage'[x] \notin {"locked", "judged"}
    BY <1>1, <1>2 DEF QuotaInv, LockInv
<1>7. LockInv' BY <1>1, <1>2, <1>6 DEF QuotaInv, LockInv
<1>8. IsFiniteSet(BookedWork') BY <1>2 DEF QuotaInv, SumsInv, BookedWork
<1>9. saw' \in [Work -> Nat] BY <1>2 DEF QuotaInv, SumsInv
<1>10. SumsInv' BY <1>4, <1>5, <1>6, <1>8, <1>9 DEF SumsInv
<1> QED BY <1>7, <1>10 DEF QuotaInv

(* A session that is no longer open: what is held shrinks.                 *)
LEMMA ReleaseKeepsQuota ==
    ASSUME BillingInv, QuotaInv, NEW w \in Work, MarkReady(w) \/ WorkFails(w),
           stage[w] = "held"
    PROVE  QuotaInv'
<1>1. stage \in [Work -> Stage]
    BY DEF BillingInv, GateInv
<1>2. /\ \E s \in {"running", "failed"} : stage' = [stage EXCEPT ![w] = s]
      /\ UNCHANGED <<lock, saw, entries>>
    BY DEF MarkReady, WorkFails, Enter, gate, control
<1>3. w \in HeldWork /\ HeldWork' = HeldWork \ {w}
    BY <1>1, <1>2 DEF HeldWork
<1>4. IsFiniteSet(HeldWork') /\ Held' <= Held /\ Held' \in Nat
    BY <1>3, HeldShrinks DEF QuotaInv
<1>5. Held \in Nat /\ Held <= Limit /\ Limit \in Nat
    BY SumsAreNat DEF QuotaInv, SumsInv, BillingAssumption
<1>6. LockInv' BY <1>1, <1>2 DEF QuotaInv, LockInv
<1>7. IsFiniteSet(BookedWork') BY <1>2 DEF QuotaInv, SumsInv, BookedWork
<1>8. \A x \in Work : stage'[x] = "judged" => Held' <= saw'[x]
  <2>1. \A x \in Work : stage'[x] = "judged" => Held <= saw[x] /\ saw[x] \in Nat
      BY <1>1, <1>2 DEF QuotaInv, SumsInv
  <2> QED BY <1>2, <1>4, <1>5, <2>1
<1>9. saw' \in [Work -> Nat] BY <1>2 DEF QuotaInv, SumsInv
<1>10. Held' <= Limit BY <1>4, <1>5
<1>11. SumsInv' BY <1>4, <1>7, <1>8, <1>9, <1>10 DEF SumsInv
<1> QED BY <1>6, <1>11 DEF QuotaInv

(* Delivery adds at most one entry and leaves the gate alone.              *)
LEMMA DeliveryKeepsQuota ==
    ASSUME QuotaInv, UNCHANGED <<stage, lock, saw>>,
           \/ entries' = entries
           \/ \E w \in Work : entries' = [entries EXCEPT ![w] = entries[w] + 1]
    PROVE  QuotaInv'
<1>1. HeldWork' = HeldWork /\ Held' = Held BY DEF HeldWork, Held
<1>2. LockInv' BY DEF QuotaInv, LockInv
<1>3. IsFiniteSet(BookedWork')
  <2>1. CASE entries' = entries BY <2>1 DEF QuotaInv, SumsInv, BookedWork
  <2>2. ASSUME NEW w \in Work, entries' = [entries EXCEPT ![w] = entries[w] + 1]
        PROVE  IsFiniteSet(BookedWork')
    <3>1. IsFiniteSet(BookedWork \cup {w}) BY FS_AddElement DEF QuotaInv, SumsInv
    <3>2. BookedWork' \in SUBSET (BookedWork \cup {w}) BY <2>2 DEF BookedWork
    <3> QED BY <3>1, <3>2, FS_Subset
  <2> QED BY <2>1, <2>2
<1>4. SumsInv' BY <1>1, <1>3 DEF QuotaInv, SumsInv
<1> QED BY <1>2, <1>4 DEF QuotaInv

LEMMA BookAddsOne ==
    ASSUME NEW w \in Work, HandleUsage(w)
    PROVE  \/ entries' = entries
           \/ \E x \in Work : entries' = [entries EXCEPT ![x] = entries[x] + 1]
BY DEF HandleUsage, Ignore, Book

LEMMA QuotaNextInv ==
    BillingInv /\ QuotaInv /\ [BillingNext]_billingVars => QuotaInv'
<1> SUFFICES ASSUME BillingInv, QuotaInv, [BillingNext]_billingVars PROVE QuotaInv' OBVIOUS
<1>1. ASSUME NEW w \in Work, AdmissionStep(w) PROVE QuotaInv'
  <2>1. CASE QuotaTx(w) \/ SumHeld(w) \/ ClaimRollsBack(w) \/ RecordUsageEvent(w)
      BY <1>1, <2>1, AdmissionKeepsQuota
  <2>2. CASE ClaimUpload(w)
      BY <1>1, <2>2, AdmissionKeepsQuota, FittingKeepsQuota
  <2>3. CASE MarkReady(w) \/ WorkFails(w)
    <3>1. stage[w] \in {"held", "running"} BY <2>3 DEF MarkReady, WorkFails
    <3> QED BY <2>3, <3>1, AdmissionKeepsQuota, ReleaseKeepsQuota
  <2> QED BY <1>1, <2>1, <2>2, <2>3 DEF AdmissionStep
<1>2. ASSUME NEW w \in Work, LateRequest(w) PROVE QuotaInv'
    BY <1>2, BookAddsOne, DeliveryKeepsQuota DEF LateRequest, gate
<1>3. ASSUME NEW d \in Deliverers, NEW c \in claims[d], Post(d, c) PROVE QuotaInv'
  <2>1. c.work \in Work BY DEF BillingInv, ClaimsInv, Claim
  <2> QED BY <1>3, <2>1, BookAddsOne, DeliveryKeepsQuota DEF Post, gate
<1>4. ASSUME UNCHANGED <<stage, lock, saw, entries>> PROVE QuotaInv'
    BY <1>4, DeliveryKeepsQuota
<1>5. ASSUME NEW d \in Deliverers, DelivererStep(d) PROVE QuotaInv'
  <2>1. CASE ClaimBatch(d) \/ DelivererRestarts(d)
      BY <1>4, <2>1 DEF ClaimBatch, DelivererRestarts, gate, control
  <2>2. ASSUME NEW c \in claims[d], PostTimesOut(d, c) \/ WriteOutcome(d, c) PROVE QuotaInv'
      BY <1>4, <2>2 DEF PostTimesOut, WriteOutcome, gate, control
  <2> QED BY <1>3, <1>5, <2>1, <2>2 DEF DelivererStep
<1>6. ASSUME NEW w \in Work, ComesDue(w) PROVE QuotaInv'
    BY <1>4, <1>6 DEF ComesDue, gate, control
<1>7. CASE PeriodRunsOut BY <1>4, <1>7 DEF PeriodRunsOut, control
<1>8. CASE UNCHANGED billingVars BY <1>4, <1>8 DEF billingVars, gate, control
<1> QED BY <1>1, <1>2, <1>5, <1>6, <1>7, <1>8 DEF BillingNext

(* The quota row is locked by one admission at most, which has not summed  *)
(* less than is held (quotaTx(), ClaimUpload()).                           *)
THEOREM QuotaInvariance == BillingSpec => []QuotaInv
<1>1. BillingInit => QuotaInv BY QuotaInitInv
<1>2. BillingInv /\ QuotaInv /\ [BillingNext]_billingVars => QuotaInv' BY QuotaNextInv
<1> QED BY <1>1, <1>2, BillingInvariance, PTL DEF BillingSpec

(* Uploads admitted at the same time never hold more than the limit        *)
(* together, for any number of uploads and periods, and whenever entries   *)
(* are booked in between (quotaTx(), ClaimUpload()).                       *)
THEOREM QuotaIsKept == BillingSpec => []HeldFits
<1>1. QuotaInv => HeldFits BY DEF QuotaInv, SumsInv, HeldFits
<1> QED BY <1>1, QuotaInvariance, PTL

(* Rows, claims, ledger, gate and sums keep their types.                   *)
THEOREM BillingTypes == BillingSpec => []BillingTypeOK
<1>1. ASSUME BillingInv, QuotaInv PROVE BillingTypeOK
  <2>1. charged \in [Work -> Nat] /\ entries \in [Work -> Nat]
      BY <1>1 DEF BillingInv, LedgerInv
  <2>2. saw \in [Work -> Nat] BY <1>1 DEF QuotaInv, SumsInv
  <2> QED BY <1>1, <2>1, <2>2
      DEF BillingInv, LedgerInv, GateInv, RowsInv, ClaimsInv, BillingTypeOK
<1> QED BY <1>1, QuotaInvariance, BillingInvariance, PTL

-----------------------------------------------------------------------------
(* UsageBilling implements EventOutbox.  What is still missing for it is   *)
(* that only work that is done is claimed, requested and delivered.        *)
WrittenInv ==
    /\ \A w \in Work : row[w].written => stage[w] = "done"
    /\ \A w \in Work : row[w].delivered => row[w].written
    /\ \A d \in Deliverers : \A c \in claims[d] : row[c.work].written
    /\ \A w \in late : row[w].written

UsageInv == BillingInv /\ WrittenInv

LEMMA WorkOf ==
    ASSUME BillingInv, NEW d \in Deliverers, NEW c \in claims[d]
    PROVE  c \in Claim /\ c.work \in Work /\ ClaimOK(c)
BY DEF BillingInv, ClaimsInv, Claim

LEMMA WrittenStays ==
    ASSUME UsageInv, stage' = stage,
           \A w \in Work : /\ row'[w].written = row[w].written
                           /\ row'[w].delivered => row[w].written,
           \A w \in late' : w \in Work /\ row[w].written,
           \A d \in Deliverers : \A c \in claims'[d] : c.work \in Work /\ row[c.work].written
    PROVE  WrittenInv'
BY DEF UsageInv, WrittenInv

(* Neither a claim nor an outcome unwrites a row; only success delivers.   *)
LEMMA BatchRows ==
    ASSUME row \in [Work -> Row], NEW S \in SUBSET Work,
           row' = [w \in Work |->
                     IF w \in S THEN [row[w] EXCEPT !.attempts = @ + 1, !.next = "later"]
                                ELSE row[w]],
           NEW w \in Work
    PROVE  row'[w].written = row[w].written /\ row'[w].delivered = row[w].delivered
<1> DEFINE n == row[w].attempts + 1
<1>1. row'[w] = [row[w] EXCEPT !.attempts = n, !.next = "later"] \/ row'[w] = row[w] BY Zenon
<1> HIDE DEF n
<1>2. row[w] \in Row OBVIOUS
<1>3. CASE row'[w] = [row[w] EXCEPT !.attempts = n, !.next = "later"]
  <2>1. ASSUME NEW r \in Row
        PROVE  LET s == [r EXCEPT !.attempts = n, !.next = "later"]
               IN  s.written = r.written /\ s.delivered = r.delivered
      BY DEF Row
  <2> QED BY <1>2, <1>3, <2>1, Zenon
<1> QED BY <1>1, <1>3

LEMMA OutcomeFields ==
    ASSUME NEW r \in Row, NEW c \in Claim
    PROVE  /\ Outcome(r, c).written = r.written
           /\ Outcome(r, c).delivered = (r.delivered \/ c.sent = "ok")
<1>1. CASE c.sent = "ok" BY <1>1 DEF Outcome, Row
<1>2. CASE c.sent = "error" /\ c.attempts >= MaxAttempts BY <1>2 DEF Outcome, Row
<1>3. CASE c.sent # "ok" /\ ~(c.sent = "error" /\ c.attempts >= MaxAttempts)
    BY <1>3 DEF Outcome, Row
<1> QED BY <1>1, <1>2, <1>3

LEMMA WrittenNext == UsageInv /\ [BillingNext]_billingVars => WrittenInv'
<1> SUFFICES ASSUME UsageInv, [BillingNext]_billingVars PROVE WrittenInv' OBVIOUS
<1>0. /\ \A w \in late : w \in Work /\ row[w].written
      /\ \A d \in Deliverers : \A c \in claims[d] : c.work \in Work /\ row[c.work].written
      /\ \A w \in Work : row[w].delivered => row[w].written
      /\ row \in [Work -> Row] /\ stage \in [Work -> Stage]
      /\ claims \in [Deliverers -> SUBSET Claim]
    BY WorkOf DEF UsageInv, WrittenInv, BillingInv, LedgerInv, RowsInv, GateInv, ClaimsInv
<1>1. CASE UNCHANGED billingVars
    BY <1>0, <1>1, WrittenStays DEF billingVars, gate, control
<1>2. ASSUME NEW w \in Work,
             QuotaTx(w) \/ SumHeld(w) \/ ClaimUpload(w) \/ ClaimRollsBack(w)
               \/ MarkReady(w) \/ WorkFails(w)
      PROVE  WrittenInv'
  <2>1. UNCHANGED <<row, claims, late>>
      BY <1>2 DEF QuotaTx, SumHeld, ClaimUpload, ClaimRollsBack, MarkReady, WorkFails, control
  <2>2. stage[w] # "done" /\ \E s : stage' = [stage EXCEPT ![w] = s]
      BY <1>2 DEF QuotaTx, SumHeld, ClaimUpload, ClaimRollsBack, MarkReady, WorkFails, Enter
  <2>3. \A x \in Work : stage[x] = "done" => stage'[x] = "done" BY <1>0, <2>2
  <2> QED BY <2>1, <2>3 DEF UsageInv, WrittenInv
<1>3. ASSUME NEW w \in Work, RecordUsageEvent(w) PROVE WrittenInv'
  <2>1. /\ stage' = [stage EXCEPT ![w] = "done"]
        /\ row' = [row EXCEPT ![w] = [row[w] EXCEPT !.written = TRUE]]
        /\ claims' = claims /\ late' = late
      BY <1>3 DEF RecordUsageEvent, Enter, control
  <2>2. /\ \A x \in Work \ {w} : row'[x] = row[x] /\ stage'[x] = stage[x]
        /\ row'[w].written /\ stage'[w] = "done"
      BY <1>0, <2>1 DEF Row
  <2>3. \A x \in Work : row[x].written => row'[x].written BY <2>2
  <2>4. \A x \in Work : row'[x].written => stage'[x] = "done"
      BY <2>2 DEF UsageInv, WrittenInv
  <2>5. \A x \in Work : row'[x].delivered => row'[x].written BY <1>0, <2>2
  <2> QED BY <1>0, <2>1, <2>3, <2>4, <2>5 DEF WrittenInv
<1>4. ASSUME NEW w \in Work, ComesDue(w) PROVE WrittenInv'
  <2>1. /\ row' = [row EXCEPT ![w] = [row[w] EXCEPT !.next = "due"]]
        /\ stage' = stage /\ claims' = claims /\ late' = late
      BY <1>4 DEF ComesDue, control
  <2>2. \A x \in Work : row'[x].written = row[x].written /\ row'[x].delivered = row[x].delivered
      BY <1>0, <2>1 DEF Row
  <2> QED BY <1>0, <2>1, <2>2, WrittenStays
<1>5. ASSUME NEW w \in Work, LateRequest(w) PROVE WrittenInv'
  <2>1. UNCHANGED <<stage, row, claims>> /\ late' \subseteq late BY <1>5 DEF LateRequest
  <2> QED BY <1>0, <2>1, WrittenStays
<1>6. ASSUME NEW d \in Deliverers, ClaimBatch(d) PROVE WrittenInv'
  <2>1. PICK S \in SUBSET Due :
           /\ row' = [w \in Work |->
                        IF w \in S THEN [row[w] EXCEPT !.attempts = @ + 1, !.next = "later"]
                                   ELSE row[w]]
           /\ claims' = [claims EXCEPT ![d] =
                 {[work |-> w, attempts |-> row[w].attempts + 1, sent |-> "no"] : w \in S}]
      BY <1>6 DEF ClaimBatch
  <2>2. stage' = stage /\ late' = late BY <1>6 DEF ClaimBatch, control
  <2> S \in SUBSET Work BY DEF Due
  <2>3. \A w \in Work : row'[w].written = row[w].written /\ row'[w].delivered = row[w].delivered
      BY <1>0, <2>1, BatchRows
  <2>4. ASSUME NEW e \in Deliverers, NEW c \in claims'[e]
        PROVE  c.work \in Work /\ row[c.work].written
    <3>1. CASE e = d
      <4>1. PICK w \in S : c = [work |-> w, attempts |-> row[w].attempts + 1, sent |-> "no"]
          BY <1>0, <2>1, <2>4, <3>1
      <4> QED BY <4>1 DEF Due
    <3>2. CASE e # d BY <1>0, <2>1, <2>4, <3>2
    <3> QED BY <3>1, <3>2
  <2> QED BY <1>0, <2>2, <2>3, <2>4, WrittenStays
<1>7. ASSUME NEW d \in Deliverers, NEW c \in claims[d],
             Post(d, c) \/ PostTimesOut(d, c) \/ WriteOutcome(d, c)
      PROVE  WrittenInv'
  <2>1. c \in Claim /\ c.work \in Work /\ row[c.work].written BY <1>0, WorkOf DEF UsageInv
  <2>2. stage' = stage /\ late' \subseteq late \cup {c.work}
      BY <1>7 DEF Post, PostTimesOut, WriteOutcome, control
  <2>3. \E T : /\ claims' = [claims EXCEPT ![d] = T]
               /\ \A x \in T : x \in claims[d] \/ x.work = c.work
    <3>1. ASSUME NEW s, Sent(d, c, s) PROVE
          /\ claims' = [claims EXCEPT ![d] = (claims[d] \ {c}) \cup {[c EXCEPT !.sent = s]}]
          /\ [c EXCEPT !.sent = s].work = c.work
        BY <2>1, <3>1 DEF Sent, Claim
    <3>2. ASSUME NEW s, Sent(d, c, s)
          PROVE  \E T : /\ claims' = [claims EXCEPT ![d] = T]
                        /\ \A x \in T : x \in claims[d] \/ x.work = c.work
      <4> DEFINE n == [c EXCEPT !.sent = s]
                 T == (claims[d] \ {c}) \cup {n}
      <4>1. n.work = c.work BY <3>1, <3>2
      <4>2. claims' = [claims EXCEPT ![d] = T] BY <3>1, <3>2
      <4> HIDE DEF n
      <4>3. \A x \in T : x \in claims[d] \/ x.work = c.work BY <4>1
      <4> QED BY <4>2, <4>3
    <3>3. CASE Post(d, c) \/ PostTimesOut(d, c)
      <4>1. \E s : Sent(d, c, s) BY <3>3, Zenon DEF Post, PostTimesOut
      <4> QED BY <3>2, <4>1
    <3>4. CASE WriteOutcome(d, c) BY <3>4 DEF WriteOutcome
    <3> QED BY <1>7, <3>3, <3>4
  <2>4. \A e \in Deliverers : \A x \in claims'[e] : x.work \in Work /\ row[x.work].written
      BY <1>0, <2>1, <2>3
  <2>5. \A w \in Work : /\ row'[w].written = row[w].written
                        /\ row'[w].delivered => row[w].written
    <3>1. CASE Post(d, c) \/ PostTimesOut(d, c) BY <1>0, <3>1 DEF Post, PostTimesOut
    <3>2. CASE WriteOutcome(d, c)
      <4>1. row' = [row EXCEPT ![c.work] = Outcome(row[c.work], c)]
          BY <3>2 DEF WriteOutcome
      <4>2. Outcome(row[c.work], c).written = row[c.work].written
          BY <1>0, <2>1, OutcomeFields
      <4> QED BY <1>0, <2>1, <4>1, <4>2
    <3> QED BY <1>7, <3>1, <3>2
  <2> QED BY <1>0, <2>1, <2>2, <2>4, <2>5, WrittenStays
<1>8. ASSUME NEW d \in Deliverers, DelivererRestarts(d) PROVE WrittenInv'
  <2>1. /\ claims' = [claims EXCEPT ![d] = {}] /\ UNCHANGED <<stage, row>>
        /\ late' = late \/ \E c \in claims[d] : late' = late \cup {c.work}
      BY <1>8 DEF DelivererRestarts
  <2>2. \A w \in late' : w \in Work /\ row[w].written BY <1>0, <2>1
  <2>3. \A e \in Deliverers : \A c \in claims'[e] : c \in claims[e] BY <1>0, <2>1
  <2> QED BY <1>0, <2>1, <2>2, <2>3, WrittenStays
<1>9. CASE PeriodRunsOut BY <1>0, <1>9, WrittenStays DEF PeriodRunsOut, control
<1> QED
    BY <1>1, <1>2, <1>3, <1>4, <1>5, <1>6, <1>7, <1>8, <1>9
    DEF BillingNext, AdmissionStep, DelivererStep

LEMMA UsageInitInv == BillingInit => UsageInv
BY BillingInitInv DEF BillingInit, UsageInv, WrittenInv

LEMMA UsageNextInv == UsageInv /\ [BillingNext]_billingVars => UsageInv'
BY BillingNextInv, WrittenNext DEF UsageInv

(* What a step of one row may do to its status without a booking.          *)
LEMMA OneUsageMoves ==
    ASSUME entries' = entries, ignored' = ignored, NEW w \in Work,
           \A x \in Work \ {w} : row'[x] = row[x],
           \/ UsageStatus(row'[w]) = UsageStatus(row[w])
           \/ UsageStatus(row[w]) = "none" /\ UsageStatus(row'[w]) = "open"
           \/ /\ UsageStatus(row[w]) = "open" /\ UsageStatus(row'[w]) = "delivered"
              /\ Acted(w) = 1
    PROVE  [Outbox!Next]_(Outbox!outboxVars)
<1> DEFINE status == [x \in Work |-> UsageStatus(row[x])]
           new == UsageStatus(row'[w])
<1>0. \A x \in Work : (Acted(x))' = Acted(x) BY DEF Acted
<1>1. status' = [status EXCEPT ![w] = new] BY Zenon
<1>2. CASE new = UsageStatus(row[w])
  <2>1. status' = status BY <1>2, Zenon
  <2> QED BY <1>0, <2>1 DEF Outbox!outboxVars
<1>3. CASE UsageStatus(row[w]) = "none" /\ new = "open"
    BY <1>0, <1>1, <1>3 DEF Outbox!Submit, Outbox!Next
<1>4. CASE UsageStatus(row[w]) = "open" /\ new = "delivered" /\ Acted(w) = 1
    BY <1>0, <1>1, <1>4 DEF Outbox!Acknowledge, Outbox!Next
<1> QED BY <1>2, <1>3, <1>4

LEMMA NoUsageMoves ==
    ASSUME \A x \in Work : (Acted(x))' = Acted(x),
           \A x \in Work : /\ row'[x].written = row[x].written
                           /\ row'[x].delivered = row[x].delivered
    PROVE  [Outbox!Next]_(Outbox!outboxVars)
<1>1. \A x \in Work : UsageStatus(row'[x]) = UsageStatus(row[x]) BY DEF UsageStatus
<1> QED BY <1>1 DEF Outbox!outboxVars

(* The first entry of an event, or the first line in the log about it, is  *)
(* the event taking effect; whatever follows does nothing.                 *)
LEMMA HandleRefines ==
    ASSUME UsageInv, NEW w \in Work, row[w].written, HandleUsage(w), row' = row
    PROVE  [Outbox!Next]_(Outbox!outboxVars)
<1>0. \A x \in Work : entries[x] \in 0 .. 1 BY DEF UsageInv, BillingInv, LedgerInv
<1>1. /\ \A x \in Work \ {w} : (Acted(x))' = Acted(x)
      /\ (Acted(w))' = Acted(w) \/ (Acted(w) = 0 /\ (Acted(w))' = 1)
  <2>1. CASE Ignore(w) BY <1>0, <2>1 DEF Ignore, Acted
  <2>2. CASE Book(w) /\ ignored' = ignored
    <3>1. CASE w \in Refused \/ ~Fresh(w)
        BY <2>2, <3>1 DEF Book, Acted
    <3>2. CASE ~(w \in Refused \/ ~Fresh(w))
      <4>1. entries[w] = 0 /\ entries' = [entries EXCEPT ![w] = 1]
          BY <2>2, <3>2 DEF Book, Fresh, UsageInv, BillingInv, LedgerInv
      <4>2. entries'[w] = 1 /\ \A x \in Work \ {w} : entries'[x] = entries[x]
          BY <4>1 DEF UsageInv, BillingInv, LedgerInv
      <4> QED BY <2>2, <4>1, <4>2 DEF Acted
    <3> QED BY <3>1, <3>2
  <2> QED BY <2>1, <2>2 DEF HandleUsage
<1>2. CASE (Acted(w))' = Acted(w)
  <2>1. \A x \in Work : (Acted(x))' = Acted(x) BY <1>1, <1>2
  <2> QED BY <2>1, NoUsageMoves
<1>3. CASE Acted(w) = 0 /\ (Acted(w))' = 1
  <2>1. UsageStatus(row[w]) # "none" BY DEF UsageStatus
  <2> DEFINE effects == [x \in Work |-> Acted(x)]
  <2>2. effects' = [effects EXCEPT ![w] = 1] BY <1>1, <1>3
  <2>3. Outbox!TakeEffect(w) BY <1>3, <2>1, <2>2 DEF Outbox!TakeEffect
  <2> QED BY <2>3 DEF Outbox!Next
<1> QED BY <1>1, <1>2, <1>3

LEMMA UsageInitRefines == BillingInit => Outbox!Init
BY DEF BillingInit, Outbox!Init, UsageStatus, Acted

LEMMA UsageStepRefines == UsageInv /\ [BillingNext]_billingVars => [Outbox!Next]_(Outbox!outboxVars)
<1> SUFFICES ASSUME UsageInv, [BillingNext]_billingVars
             PROVE  [Outbox!Next]_(Outbox!outboxVars)
    OBVIOUS
<1>0. row \in [Work -> Row] /\ entries \in [Work -> 0 .. 1]
    BY DEF UsageInv, BillingInv, RowsInv, LedgerInv
<1>1. ASSUME UNCHANGED <<row, entries, ignored>> PROVE [Outbox!Next]_(Outbox!outboxVars)
    BY <1>1, NoUsageMoves DEF Acted
<1>2. ASSUME NEW w \in Work, AdmissionStep(w), ~RecordUsageEvent(w)
      PROVE  UNCHANGED <<row, entries, ignored>>
    BY <1>2 DEF AdmissionStep, QuotaTx, SumHeld, ClaimUpload, ClaimRollsBack, MarkReady,
                WorkFails, control
<1>3. ASSUME NEW w \in Work, RecordUsageEvent(w) PROVE [Outbox!Next]_(Outbox!outboxVars)
  <2>1. /\ row' = [row EXCEPT ![w] = [row[w] EXCEPT !.written = TRUE]]
        /\ stage[w] = "running" /\ entries' = entries /\ ignored' = ignored
      BY <1>3 DEF RecordUsageEvent, control
  <2>2. ~row[w].written /\ ~row[w].delivered BY <2>1 DEF UsageInv, WrittenInv
  <2>3. row'[w].written /\ ~row'[w].delivered BY <1>0, <2>1, <2>2 DEF Row
  <2>4. UsageStatus(row[w]) = "none" /\ UsageStatus(row'[w]) = "open"
      BY <2>2, <2>3 DEF UsageStatus
  <2>5. \A x \in Work \ {w} : row'[x] = row[x] BY <1>0, <2>1
  <2> QED BY <2>1, <2>4, <2>5, OneUsageMoves
<1>4. ASSUME NEW w \in Work, ComesDue(w) PROVE [Outbox!Next]_(Outbox!outboxVars)
  <2>1. row' = [row EXCEPT ![w] = [row[w] EXCEPT !.next = "due"]]
        /\ \A x \in Work : (Acted(x))' = Acted(x)
      BY <1>4 DEF ComesDue, control, Acted
  <2>2. \A x \in Work : row'[x].written = row[x].written /\ row'[x].delivered = row[x].delivered
      BY <1>0, <2>1 DEF Row
  <2> QED BY <2>1, <2>2, NoUsageMoves
<1>5. ASSUME NEW w \in Work, LateRequest(w) PROVE [Outbox!Next]_(Outbox!outboxVars)
  <2>1. row[w].written /\ row' = row BY <1>5 DEF LateRequest, UsageInv, WrittenInv
  <2>2. CASE HandleUsage(w) BY <2>1, <2>2, HandleRefines
  <2>3. CASE UNCHANGED <<entries, bookedIn, charged, ignored>> BY <1>1, <2>1, <2>3
  <2> QED BY <1>5, <2>2, <2>3 DEF LateRequest
<1>6. ASSUME NEW d \in Deliverers, ClaimBatch(d) PROVE [Outbox!Next]_(Outbox!outboxVars)
  <2>1. \A x \in Work : (Acted(x))' = Acted(x) BY <1>6 DEF ClaimBatch, control, Acted
  <2>2. PICK S \in SUBSET Due :
           row' = [w \in Work |->
                     IF w \in S THEN [row[w] EXCEPT !.attempts = @ + 1, !.next = "later"]
                                ELSE row[w]]
      BY <1>6 DEF ClaimBatch
  <2> S \in SUBSET Work BY DEF Due
  <2>3. \A w \in Work : row'[w].written = row[w].written /\ row'[w].delivered = row[w].delivered
      BY <1>0, <2>2, BatchRows
  <2> QED BY <2>1, <2>3, NoUsageMoves
<1>7. ASSUME NEW d \in Deliverers, NEW c \in claims[d],
             Post(d, c) \/ PostTimesOut(d, c) \/ WriteOutcome(d, c)
      PROVE  [Outbox!Next]_(Outbox!outboxVars)
  <2>0. c \in Claim /\ c.work \in Work /\ ClaimOK(c) /\ row[c.work].written
      BY WorkOf DEF UsageInv, WrittenInv
  <2>1. CASE Post(d, c)
    <3>1. HandleUsage(c.work) /\ row' = row BY <2>1 DEF Post
    <3> QED BY <2>0, <3>1, HandleRefines
  <2>2. CASE PostTimesOut(d, c) BY <1>1, <2>2 DEF PostTimesOut
  <2>3. CASE WriteOutcome(d, c)
    <3> DEFINE w == c.work
    <3>1. row' = [row EXCEPT ![w] = Outcome(row[w], c)]
          /\ entries' = entries /\ ignored' = ignored
        BY <2>3 DEF WriteOutcome, control
    <3>2. /\ row'[w].written
          /\ row'[w].delivered = (row[w].delivered \/ c.sent = "ok")
        BY <1>0, <2>0, <3>1, OutcomeFields
    <3>3. \A x \in Work \ {w} : row'[x] = row[x] BY <1>0, <3>1
    <3>4. c.sent = "ok" => Acted(w) = 1 BY <2>0 DEF ClaimOK
    <3>5. w \in Work /\ row[w].written BY <2>0
    <3> HIDE DEF w
    <3>6. \/ UsageStatus(row'[w]) = UsageStatus(row[w])
          \/ /\ UsageStatus(row[w]) = "open" /\ UsageStatus(row'[w]) = "delivered"
             /\ Acted(w) = 1
        BY <3>2, <3>4, <3>5 DEF UsageStatus
    <3> QED BY <3>1, <3>3, <3>5, <3>6, OneUsageMoves
  <2> QED BY <1>7, <2>1, <2>2, <2>3
<1>8. ASSUME NEW d \in Deliverers, DelivererRestarts(d)
      PROVE  UNCHANGED <<row, entries, ignored>>
    BY <1>8 DEF DelivererRestarts
<1>9. CASE PeriodRunsOut BY <1>1, <1>9 DEF PeriodRunsOut, control
<1>10. CASE UNCHANGED billingVars BY <1>1, <1>10 DEF billingVars, control
<1> QED
    BY <1>1, <1>2, <1>3, <1>4, <1>5, <1>6, <1>7, <1>8, <1>9, <1>10
    DEF BillingNext, DelivererStep

(* However often an event is posted, by whom, and whatever becomes of the  *)
(* answers, control-api acts on an event as EventOutbox allows: once,      *)
(* after it was written, and before it is marked delivered.  It acts by    *)
(* the entry in its ledger, or, of a kind it does not know, by its log.    *)
THEOREM UsageImplementsOutbox == BillingSpec => UsageKeepsOutbox
<1>1. BillingSpec => []UsageInv BY UsageInitInv, UsageNextInv, PTL DEF BillingSpec
<1> QED BY <1>1, UsageInitRefines, UsageStepRefines, PTL
        DEF BillingSpec, UsageKeepsOutbox, Outbox!Spec

=============================================================================
