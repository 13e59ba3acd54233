-------------------------- MODULE LocalParse_proofs --------------------------
(* Proofs about LocalParse, for any number of versions, processes,         *)
(* attempts and stops.  That every parse ends is left to TLC.              *)
EXTENDS LocalParse, TLAPS

USE LocalParseAssumption

(* The inductive invariant.  A loop may work on for a task that was taken  *)
(* over, cancelled or deleted meanwhile; what keeps it from writing is the *)
(* generation, and that works because the generations loops hold were all  *)
(* given out by the row, each to one loop.  The row of a deleted version   *)
(* loses count, but nothing claims it any more.                            *)
OwnGeneration(p, q) ==
    /\ Working(p) /\ Working(q) /\ loop[p].of = loop[q].of
    /\ task[loop[p].of].status # "none"
    /\ loop[p].generation = loop[q].generation
    => p = q

LoopsInv ==
    /\ \A p \in Loops : GivenOut(p)
    /\ \A p, q \in Loops : OwnGeneration(p, q)

ParseInv == LocalParseTypeOK /\ RowsFollow /\ LoopsInv

LEMMA ParseInitInv == LocalParseInit => ParseInv
<1> SUFFICES ASSUME LocalParseInit PROVE ParseInv OBVIOUS
<1>1. version \in [Versions -> VersionRow]
    BY DEF LocalParseInit, VersionRow, VersionState
<1>2. task \in [Versions -> TaskRow]
    BY DEF LocalParseInit, NoTask, TaskRow, TaskStatus
<1>3. loop \in [Loops -> LoopState]
    BY DEF LocalParseInit, Idle, LoopState
<1>4. stops \in 0 .. MaxStops BY DEF LocalParseInit
<1>5. RowsFollow BY DEF LocalParseInit, RowsFollow, RowsAgree, NoTask
<1>6. LoopsInv BY DEF LocalParseInit, LoopsInv, GivenOut, OwnGeneration, Working, Idle
<1> QED BY <1>1, <1>2, <1>3, <1>4, <1>5, <1>6 DEF ParseInv, LocalParseTypeOK

LEMMA OneHolderFollows == LoopsInv => OneHolder
BY DEF LoopsInv, GivenOut, OwnGeneration, Working, OneHolder, HoldsTask

-----------------------------------------------------------------------------
(* RowsAgree() as a relation of the two states, before and after a step.   *)
Agree(state, status) ==
    /\ state \in {"absent", "deleted"} => status = "none"
    /\ state = "queued"    => status = "queued"
    /\ state = "parsing"   => status = "running"
    /\ state = "ready"     => status = "succeeded"
    /\ state = "failed"    => status \in {"failed", "cancelled"}
    /\ state = "withdrawn" => status \in {"succeeded", "failed", "cancelled"}

LEMMA AgreeNow ==
    ASSUME NEW v \in Versions, version[v].state \in VersionState
    PROVE  RowsAgree(v) <=> Agree(version[v].state, task[v].status)
BY DEF RowsAgree, Agree, VersionState

LEMMA AgreeThen ==
    ASSUME NEW v \in Versions, version'[v].state \in VersionState
    PROVE  RowsAgree(v)' <=> Agree(version'[v].state, task'[v].status)
BY DEF RowsAgree, Agree, VersionState

(* What any step makes of the rows of a version: they keep their types and *)
(* agree, a generation never goes back while the row is there, a row that  *)
(* is gone does not return, and an outcome stays.                          *)
GoesOn(v) ==
    version[v].state # "absent" =>
        /\ version'[v].state # "absent"
        /\ task'[v].status # "none" =>
              task[v].status # "none" /\ task[v].generation <= task'[v].generation

OutcomeStays(v) ==
    /\ version[v].state = "withdrawn" => version'[v].state \in {"withdrawn", "deleted"}
    /\ version[v].state \in {"ready", "failed"} =>
          version'[v].state \in {version[v].state, "withdrawn", "deleted"}

VersionStep(v) ==
    /\ version'[v] \in VersionRow /\ task'[v] \in TaskRow
    /\ RowsAgree(v)' /\ GoesOn(v) /\ OutcomeStays(v)

RowsStep ==
    /\ version' \in [Versions -> VersionRow] /\ task' \in [Versions -> TaskRow]
    /\ \A v \in Versions : VersionStep(v)

LEMMA UnmovedStep ==
    ASSUME ParseInv, NEW v \in Versions, version'[v] = version[v], task'[v] = task[v]
    PROVE  VersionStep(v)
<1>1. version[v] \in VersionRow /\ task[v] \in TaskRow /\ RowsAgree(v)
    BY DEF ParseInv, LocalParseTypeOK, RowsFollow
<1>2. task[v].generation \in Nat /\ version[v].state \in VersionState
    BY <1>1 DEF TaskRow, VersionRow
<1>3. RowsAgree(v)' BY <1>1, <1>2, AgreeNow, AgreeThen
<1>4. GoesOn(v) /\ OutcomeStays(v) BY <1>2 DEF GoesOn, OutcomeStays
<1> QED BY <1>1, <1>3, <1>4 DEF VersionStep

LEMMA UnmovedRows ==
    ASSUME ParseInv, UNCHANGED <<version, task>>
    PROVE  RowsStep
<1>1. version' \in [Versions -> VersionRow] /\ task' \in [Versions -> TaskRow]
    BY DEF ParseInv, LocalParseTypeOK
<1>2. \A v \in Versions : VersionStep(v) BY UnmovedStep
<1> QED BY <1>1, <1>2 DEF RowsStep

(* One version moves.                                                      *)
LEMMA OneMoves ==
    ASSUME ParseInv, NEW v \in Versions, NEW r \in VersionRow, NEW t \in TaskRow,
           version' = [version EXCEPT ![v] = r], task' = [task EXCEPT ![v] = t],
           RowsAgree(v)', GoesOn(v), OutcomeStays(v)
    PROVE  RowsStep
<1>1. version' \in [Versions -> VersionRow] /\ task' \in [Versions -> TaskRow]
      /\ version'[v] = r /\ task'[v] = t
      /\ \A u \in Versions : u # v => version'[u] = version[u] /\ task'[u] = task[u]
    BY DEF ParseInv, LocalParseTypeOK
<1>2. VersionStep(v) BY <1>1 DEF VersionStep
<1>3. \A u \in Versions : u # v => VersionStep(u) BY <1>1, UnmovedStep
<1> QED BY <1>1, <1>2, <1>3 DEF RowsStep

(* As most steps do it: another state, another status, no less generation. *)
LEMMA StateMoves ==
    ASSUME ParseInv, NEW v \in Versions, NEW s \in VersionState \ {"absent"}, NEW t \in TaskRow,
           version' = [version EXCEPT ![v].state = s], task' = [task EXCEPT ![v] = t],
           Agree(s, t.status), version[v].state \in {"ready", "failed"} => s = "withdrawn",
           version[v].state # "withdrawn", task[v].status # "none",
           task[v].generation <= t.generation
    PROVE  RowsStep /\ task'[v] = t
<1>1. version[v] \in VersionRow BY DEF ParseInv, LocalParseTypeOK
<1> DEFINE r == [version[v] EXCEPT !.state = s]
<1>2. r \in VersionRow /\ version' = [version EXCEPT ![v] = r] BY <1>1 DEF VersionRow
<1>3. version'[v] = r /\ r.state = s /\ task'[v] = t
    BY <1>1, <1>2 DEF ParseInv, LocalParseTypeOK, VersionRow
<1> HIDE DEF r
<1>4. GoesOn(v) /\ OutcomeStays(v) BY <1>3 DEF GoesOn, OutcomeStays
<1>5. RowsAgree(v)' BY <1>3, AgreeThen
<1> QED BY <1>2, <1>3, <1>4, <1>5, OneMoves

-----------------------------------------------------------------------------
(* The steps of a loop.                                                    *)
LEMMA RowFacts ==
    ASSUME ParseInv, NEW v \in Versions
    PROVE  /\ version[v] \in VersionRow /\ task[v] \in TaskRow
           /\ version[v].state \in VersionState /\ Agree(version[v].state, task[v].status)
           /\ task[v].generation \in Nat /\ task[v].attempts \in 0 .. MaxParseAttempts
           /\ version \in [Versions -> VersionRow] /\ task \in [Versions -> TaskRow]
<1>1. version[v] \in VersionRow /\ task[v] \in TaskRow /\ RowsAgree(v)
      /\ version \in [Versions -> VersionRow] /\ task \in [Versions -> TaskRow]
    BY DEF ParseInv, LocalParseTypeOK, RowsFollow
<1>2. version[v].state \in VersionState /\ task[v].generation \in Nat
      /\ task[v].attempts \in 0 .. MaxParseAttempts
    BY <1>1 DEF VersionRow, TaskRow
<1> QED BY <1>1, <1>2, AgreeNow

LEMMA ClaimedRow ==
    ASSUME NEW t \in TaskRow, t.attempts < MaxParseAttempts
    PROVE  /\ Claimed(t) \in TaskRow /\ Claimed(t).status = "running"
           /\ Claimed(t).generation = t.generation + 1
<1> DEFINE g == t.generation + 1  n == t.attempts + 1
<1>1. g \in Nat /\ n \in 0 .. MaxParseAttempts BY DEF TaskRow
<1>2. Claimed(t) = [t EXCEPT !.status = "running", !.generation = g, !.attempts = n,
                             !.lease = "live"]
    BY DEF Claimed
<1> HIDE DEF g, n
<1>3. Claimed(t) \in TaskRow /\ Claimed(t).status = "running" /\ Claimed(t).generation = g
    BY <1>1, <1>2 DEF TaskRow, TaskStatus
<1> QED BY <1>3 DEF g

LEMMA ClaimStep ==
    ASSUME ParseInv, NEW p \in Loops, ClaimParse(p)
    PROVE  /\ RowsStep
           /\ \/ loop' = loop
              \/ \E v \in Versions :
                    /\ version[v].state # "absent" /\ task[v].status # "none"
                    /\ task'[v].generation = task[v].generation + 1
                    /\ loop' = [loop EXCEPT ![p] = [pc |-> "working", of |-> v,
                                                    generation |-> task'[v].generation]]
<1>1. PICK v \in Versions :
          /\ ParseClaimable(v)
          /\ IF task[v].attempts >= MaxParseAttempts
             THEN /\ task' = [task EXCEPT ![v].status = "failed"]
                  /\ version' = [version EXCEPT ![v].state = "failed"]
                  /\ UNCHANGED loop
             ELSE /\ task' = [task EXCEPT ![v] = Claimed(@)]
                  /\ version' = [version EXCEPT ![v].state = "parsing"]
                  /\ loop' = [loop EXCEPT ![p] =
                        [pc |-> "working", of |-> v, generation |-> Claimed(task[v]).generation]]
    BY DEF ClaimParse
<1>2. /\ version[v] \in VersionRow /\ task[v] \in TaskRow
      /\ version[v].state \in VersionState /\ Agree(version[v].state, task[v].status)
      /\ task[v].generation \in Nat /\ task[v].attempts \in 0 .. MaxParseAttempts
      /\ version \in [Versions -> VersionRow] /\ task \in [Versions -> TaskRow]
    BY RowFacts
<1>3. task[v].status \in {"queued", "running"} /\ version[v].state \in {"queued", "parsing"}
    BY <1>1, <1>2 DEF ParseClaimable, Agree, VersionState
<1>4. CASE task[v].attempts >= MaxParseAttempts
  <2> DEFINE t == [task[v] EXCEPT !.status = "failed"]
  <2>1. t \in TaskRow /\ t.generation = task[v].generation /\ t.status = "failed"
      BY <1>2 DEF TaskRow, TaskStatus
  <2>2. task' = [task EXCEPT ![v] = t] /\ version' = [version EXCEPT ![v].state = "failed"]
      BY <1>1, <1>2, <1>4
  <2> HIDE DEF t
  <2>3. Agree("failed", t.status) BY <2>1 DEF Agree
  <2>4. "failed" \in VersionState \ {"absent"} BY DEF VersionState
  <2>5. task[v].generation <= t.generation BY <1>2, <2>1
  <2>6. version[v].state \notin {"ready", "failed", "withdrawn"} /\ task[v].status # "none"
      BY <1>3
  <2>7. RowsStep BY <2>1, <2>2, <2>3, <2>4, <2>5, <2>6, StateMoves
  <2> QED BY <1>1, <1>4, <2>7
<1>5. CASE task[v].attempts < MaxParseAttempts
  <2> DEFINE t == Claimed(task[v])
  <2>1. t \in TaskRow /\ t.generation = task[v].generation + 1 /\ t.status = "running"
      BY <1>2, <1>5, ClaimedRow
  <2>2. task' = [task EXCEPT ![v] = t] /\ version' = [version EXCEPT ![v].state = "parsing"]
        /\ loop' = [loop EXCEPT ![p] = [pc |-> "working", of |-> v,
                                        generation |-> t.generation]]
      BY <1>1, <1>2, <1>5
  <2> HIDE DEF t
  <2>3. Agree("parsing", t.status) BY <2>1 DEF Agree
  <2>4. "parsing" \in VersionState \ {"absent"} BY DEF VersionState
  <2>5. task[v].generation <= t.generation BY <1>2, <2>1
  <2>6. version[v].state \notin {"absent", "ready", "failed", "withdrawn"}
        /\ task[v].status # "none"
      BY <1>3
  <2>7. RowsStep /\ task'[v] = t BY <2>1, <2>2, <2>3, <2>4, <2>5, <2>6, StateMoves
  <2> QED BY <2>1, <2>2, <2>6, <2>7
<1> QED BY <1>2, <1>4, <1>5

LEMMA WorkStepFacts ==
    ASSUME ParseInv, NEW p \in Loops, WorkStep(p)
    PROVE  /\ RowsStep
           /\ \/ loop' = loop \/ Leave(p)
              \/ loop' = [loop EXCEPT ![p] = Idle]
              \/ \E pc \in {"ended", "down"} : loop' = [loop EXCEPT ![p] = [Idle EXCEPT !.pc = pc]]
<1> DEFINE v == loop[p].of
<1>1. CASE FinishWork(p) BY <1>1, UnmovedRows DEF FinishWork
<1>2. CASE ~FinishWork(p) /\ ~HoldsTask(p)
    BY <1>2, UnmovedRows DEF WorkStep, PublishParse, FailParse, RenewParse
<1>3. CASE ~FinishWork(p) /\ HoldsTask(p)
  <2>1. v \in Versions /\ task[v].status = "running"
      BY <1>3 DEF ParseInv, LoopsInv, GivenOut, Working, HoldsTask, WorkStep,
                  PublishParse, FailParse, RenewParse
  <2>2. /\ version[v] \in VersionRow /\ task[v] \in TaskRow
        /\ version[v].state \in VersionState /\ Agree(version[v].state, task[v].status)
        /\ task[v].generation \in Nat
        /\ version \in [Versions -> VersionRow] /\ task \in [Versions -> TaskRow]
      BY <2>1, RowFacts
  <2>3. version[v].state = "parsing"
      BY <2>1, <2>2 DEF Agree, VersionState
  <2>4. \E s \in {"ready", "failed", "parsing"}, st \in {"succeeded", "failed", "running"},
           ls \in {"none", "live", "expired"} :
           /\ version' = [version EXCEPT ![v].state = s]
           /\ task' = [task EXCEPT ![v] = [task[v] EXCEPT !.status = st, !.lease = ls]]
           /\ <<s, st>> \in {<<"ready", "succeeded">>, <<"failed", "failed">>,
                             <<"parsing", "running">>}
    <3>1. CASE PublishParse(p)
      <4>1. /\ version' = [version EXCEPT ![v].state = "ready"]
            /\ task' = [task EXCEPT ![v] = [task[v] EXCEPT !.status = "succeeded",
                                                           !.lease = "none"]]
          BY <1>3, <2>1, <2>2, <3>1 DEF PublishParse
      <4> QED BY <4>1
    <3>2. CASE FailParse(p)
      <4>1. /\ version' = [version EXCEPT ![v].state = "failed"]
            /\ task' = [task EXCEPT ![v] = [task[v] EXCEPT !.status = "failed",
                                                           !.lease = task[v].lease]]
          BY <1>3, <2>1, <2>2, <3>2 DEF FailParse, TaskRow
      <4>2. task[v].lease \in {"none", "live", "expired"} BY <2>2 DEF TaskRow
      <4> QED BY <4>1, <4>2
    <3>3. CASE RenewParse(p)
      <4>1. version' = version /\ task' = [task EXCEPT ![v].lease = "live"]
          BY <1>3, <3>3 DEF RenewParse
      <4>2. version' = [version EXCEPT ![v].state = "parsing"]
          BY <2>1, <2>2, <2>3, <4>1 DEF VersionRow
      <4>3. task' = [task EXCEPT ![v] = [task[v] EXCEPT !.status = "running",
                                                        !.lease = "live"]]
          BY <2>1, <2>2, <4>1 DEF TaskRow
      <4> QED BY <4>2, <4>3
    <3> QED BY <1>3, <3>1, <3>2, <3>3 DEF WorkStep
  <2>5. PICK s \in {"ready", "failed", "parsing"}, st \in {"succeeded", "failed", "running"},
             ls \in {"none", "live", "expired"} :
           /\ version' = [version EXCEPT ![v].state = s]
           /\ task' = [task EXCEPT ![v] = [task[v] EXCEPT !.status = st, !.lease = ls]]
           /\ <<s, st>> \in {<<"ready", "succeeded">>, <<"failed", "failed">>,
                             <<"parsing", "running">>}
      BY <2>4
  <2> DEFINE t == [task[v] EXCEPT !.status = st, !.lease = ls]
  <2>6. t \in TaskRow /\ t.generation = task[v].generation /\ t.status = st
      BY <2>2 DEF TaskRow, TaskStatus
  <2>7. s \in VersionState \ {"absent"} BY DEF VersionState
  <2> HIDE DEF t
  <2>8. task' = [task EXCEPT ![v] = t] BY <2>5 DEF t
  <2>9. Agree(s, t.status) BY <2>5, <2>6 DEF Agree
  <2>10. task[v].generation <= t.generation /\ task[v].status # "none"
         /\ version[v].state \notin {"ready", "failed", "withdrawn"}
      BY <2>1, <2>2, <2>3, <2>6
  <2>11. RowsStep BY <2>1, <2>5, <2>6, <2>7, <2>8, <2>9, <2>10, StateMoves
  <2> QED BY <1>3, <2>11 DEF WorkStep, PublishParse, FailParse, RenewParse
<1>4. \/ loop' = loop \/ Leave(p)
      \/ loop' = [loop EXCEPT ![p] = Idle]
      \/ loop' = [loop EXCEPT ![p] = [Idle EXCEPT !.pc = "ended"]]
    BY DEF WorkStep, PublishParse, FailParse, RenewParse, FinishWork
<1> QED BY <1>1, <1>2, <1>3, <1>4

-----------------------------------------------------------------------------
(* The steps of the user, and the lease that runs out.                     *)
LEMMA CreateRows ==
    ASSUME ParseInv, NEW v \in Versions, CreateVersion(v)
    PROVE  RowsStep
<1>1. /\ version[v] \in VersionRow /\ task[v] \in TaskRow
      /\ version[v].state \in VersionState /\ Agree(version[v].state, task[v].status)
      /\ version \in [Versions -> VersionRow] /\ task \in [Versions -> TaskRow]
    BY RowFacts
<1>2. PICK n \in {v} \cup {version[u].resource : u \in {w \in Versions : Exists(w)}},
           imported \in BOOLEAN :
          /\ version' = [version EXCEPT ![v] =
                [state |-> IF imported THEN "ready" ELSE "queued", resource |-> n]]
          /\ task' = [task EXCEPT ![v].status = IF imported THEN "succeeded" ELSE "queued"]
    BY DEF CreateVersion
<1>3. n \in Nat BY <1>1 DEF Versions, VersionRow
<1>4. PICK s \in {"ready", "queued"}, st \in {"succeeded", "queued"} :
          /\ version' = [version EXCEPT ![v] = [state |-> s, resource |-> n]]
          /\ task' = [task EXCEPT ![v].status = st]
          /\ Agree(s, st)
    BY <1>2 DEF Agree
<1> DEFINE r == [state |-> s, resource |-> n]  t == [task[v] EXCEPT !.status = st]
<1>5. r \in VersionRow /\ r.state = s BY <1>3 DEF VersionRow, VersionState
<1>6. t \in TaskRow /\ t.status = st BY <1>1 DEF TaskRow, TaskStatus
<1>7. version' = [version EXCEPT ![v] = r] /\ task' = [task EXCEPT ![v] = t] BY <1>1, <1>4
<1> HIDE DEF r, t
<1>8. version'[v] = r /\ task'[v] = t BY <1>1, <1>7
<1>9. version[v].state = "absent" BY DEF CreateVersion
<1>10. GoesOn(v) /\ OutcomeStays(v) BY <1>9 DEF GoesOn, OutcomeStays
<1>11. version'[v].state \in VersionState BY <1>5, <1>8 DEF VersionRow
<1>12. RowsAgree(v)' BY <1>4, <1>5, <1>6, <1>8, <1>11, AgreeThen
<1> QED BY <1>5, <1>6, <1>7, <1>10, <1>12, OneMoves

LEMMA FencedRow ==
    ASSUME NEW t \in TaskRow
    PROVE  /\ Fence(t) \in TaskRow /\ Fence(t).status = "cancelled"
           /\ t.generation <= Fence(t).generation
<1> DEFINE g == t.generation + 1
<1>1. g \in Nat /\ t.generation <= g BY DEF TaskRow
<1>2. Fence(t) = [t EXCEPT !.status = "cancelled", !.generation = g] BY DEF Fence
<1> HIDE DEF g
<1> QED BY <1>1, <1>2 DEF TaskRow, TaskStatus

LEMMA CancelRows ==
    ASSUME ParseInv, NEW v \in Versions, CancelParse(v)
    PROVE  RowsStep
<1>1. /\ version[v].state \in VersionState /\ Agree(version[v].state, task[v].status)
      /\ task[v] \in TaskRow
    BY RowFacts
<1>2. /\ version' = [version EXCEPT ![v].state = "failed"]
      /\ task' = [task EXCEPT ![v] = Fence(task[v])]
      /\ task[v].status \in {"queued", "running"}
    BY DEF CancelParse, Pending
<1>3. version[v].state \notin {"ready", "failed", "withdrawn"} /\ task[v].status # "none"
    BY <1>1, <1>2 DEF Agree
<1>4. /\ Fence(task[v]) \in TaskRow /\ Fence(task[v]).status = "cancelled"
      /\ task[v].generation <= Fence(task[v]).generation
    BY <1>1, FencedRow
<1>5. Agree("failed", Fence(task[v]).status) BY <1>4 DEF Agree
<1>6. "failed" \in VersionState \ {"absent"} BY DEF VersionState
<1> QED BY <1>2, <1>3, <1>4, <1>5, <1>6, StateMoves

LEMMA WithdrawRows ==
    ASSUME ParseInv, NEW v \in Versions, WithdrawVersion(v)
    PROVE  RowsStep
<1>1. /\ version[v].state \in VersionState /\ Agree(version[v].state, task[v].status)
      /\ task[v] \in TaskRow /\ task[v].generation \in Nat /\ task \in [Versions -> TaskRow]
    BY RowFacts
<1>2. version' = [version EXCEPT ![v].state = "withdrawn"] BY DEF WithdrawVersion
<1>3. version[v].state \notin {"absent", "deleted", "withdrawn"} BY DEF WithdrawVersion, Exists
<1>4. PICK t \in TaskRow :
          /\ task' = [task EXCEPT ![v] = t] /\ task[v].generation <= t.generation
          /\ Agree("withdrawn", t.status)
  <2>1. CASE Pending(v)
    <3>1. task' = [task EXCEPT ![v] = Fence(task[v])] BY <2>1 DEF WithdrawVersion
    <3>2. /\ Fence(task[v]) \in TaskRow /\ Fence(task[v]).status = "cancelled"
          /\ task[v].generation <= Fence(task[v]).generation
        BY <1>1, FencedRow
    <3>3. Agree("withdrawn", Fence(task[v]).status) BY <3>2 DEF Agree
    <3> QED BY <3>1, <3>2, <3>3
  <2>2. CASE ~Pending(v)
    <3>1. task' = [task EXCEPT ![v] = task[v]] BY <1>1, <2>2 DEF WithdrawVersion
    <3>2. Agree("withdrawn", task[v].status)
        BY <1>1, <1>3, <2>2 DEF Agree, Pending, VersionState
    <3>3. task[v].generation <= task[v].generation BY <1>1
    <3> QED BY <1>1, <3>1, <3>2, <3>3
  <2> QED BY <2>1, <2>2
<1>5. task[v].status # "none" BY <1>1, <1>3 DEF Agree, VersionState
<1>6. "withdrawn" \in VersionState \ {"absent"} BY DEF VersionState
<1> QED BY <1>2, <1>3, <1>4, <1>5, <1>6, StateMoves

LEMMA LeaseRows ==
    ASSUME ParseInv, NEW v \in Versions, ParseLeaseRunsOut(v)
    PROVE  RowsStep
<1>1. /\ version[v] \in VersionRow /\ task[v] \in TaskRow /\ task[v].generation \in Nat
      /\ version[v].state \in VersionState /\ Agree(version[v].state, task[v].status)
      /\ version \in [Versions -> VersionRow] /\ task \in [Versions -> TaskRow]
    BY RowFacts
<1>2. task[v].status = "running" BY DEF ParseLeaseRunsOut
<1>3. version[v].state = "parsing" BY <1>1, <1>2 DEF Agree, VersionState
<1> DEFINE t == [task[v] EXCEPT !.lease = "expired"]
<1>4. t \in TaskRow /\ t.status = task[v].status /\ t.generation = task[v].generation
    BY <1>1 DEF TaskRow
<1>5. version' = [version EXCEPT ![v].state = "parsing"]
    BY <1>1, <1>3 DEF ParseLeaseRunsOut, VersionRow
<1>6. task' = [task EXCEPT ![v] = t] BY <1>1 DEF ParseLeaseRunsOut
<1> HIDE DEF t
<1>7. Agree("parsing", t.status) /\ task[v].generation <= t.generation
    BY <1>1, <1>3, <1>4
<1>8. "parsing" \in VersionState \ {"absent"} BY DEF VersionState
<1> QED BY <1>2, <1>3, <1>4, <1>5, <1>6, <1>7, <1>8, StateMoves

(* Deletion takes whole versions, none of them with a pending task.        *)
LEMMA DeleteRows ==
    ASSUME ParseInv, NEW V, DeleteVersions(V)
    PROVE  RowsStep
<1>1. version \in [Versions -> VersionRow] /\ task \in [Versions -> TaskRow]
    BY DEF ParseInv, LocalParseTypeOK
<1>2. NoTask \in TaskRow BY DEF NoTask, TaskRow, TaskStatus
<1>3. \A v \in Versions :
          /\ v \in V => /\ version'[v] = [version[v] EXCEPT !.state = "deleted"]
                        /\ task'[v] = NoTask
          /\ v \notin V => version'[v] = version[v] /\ task'[v] = task[v]
    BY DEF DeleteVersions
<1>4. ASSUME NEW v \in Versions PROVE VersionStep(v)
  <2>1. CASE v \notin V BY <1>3, <2>1, UnmovedStep
  <2>2. CASE v \in V
    <3>1. version'[v] \in VersionRow /\ version'[v].state = "deleted" /\ task'[v] = NoTask
        BY <1>1, <1>3, <2>2 DEF VersionRow, VersionState
    <3>2. "deleted" \in VersionState /\ Agree("deleted", NoTask.status)
        BY DEF VersionState, Agree, NoTask
    <3>3. RowsAgree(v)' BY <3>1, <3>2, AgreeThen
    <3>4. GoesOn(v) /\ OutcomeStays(v) BY <3>1 DEF GoesOn, OutcomeStays, NoTask
    <3> QED BY <1>2, <3>1, <3>3, <3>4 DEF VersionStep
  <2> QED BY <2>1, <2>2
<1>5. version' \in [Versions -> VersionRow] /\ task' \in [Versions -> TaskRow]
  <2>1. \A v \in Versions : version'[v] \in VersionRow /\ task'[v] \in TaskRow
      BY <1>4 DEF VersionStep
  <2> QED BY <2>1 DEF DeleteVersions
<1> QED BY <1>4, <1>5 DEF RowsStep

-----------------------------------------------------------------------------
(* The loops keep to what the rows gave out.  A loop that goes on works    *)
(* for the generation it worked for; only a claim gives out a new one.     *)
Onward(p) ==
    Working(p)' => /\ Working(p) /\ loop'[p].of = loop[p].of
                   /\ loop'[p].generation = loop[p].generation

LEMMA OnwardGivenOut ==
    ASSUME ParseInv, RowsStep, NEW p \in Loops, Onward(p)
    PROVE  GivenOut(p)'
<1> SUFFICES ASSUME Working(p)' PROVE GivenOut(p)' BY DEF GivenOut
<1> DEFINE v == loop[p].of
<1>1. Working(p) /\ loop'[p].of = v /\ loop'[p].generation = loop[p].generation BY DEF Onward
<1>2. /\ v \in Versions /\ version[v].state # "absent"
      /\ task[v].status # "none" => loop[p].generation <= task[v].generation
    BY <1>1 DEF ParseInv, LoopsInv, GivenOut
<1>3. GoesOn(v) /\ task'[v] \in TaskRow BY <1>2 DEF RowsStep, VersionStep
<1>4. loop[p].generation \in Nat /\ task[v].generation \in Nat /\ task'[v].generation \in Nat
    BY <1>2, <1>3, RowFacts DEF ParseInv, LocalParseTypeOK, LoopState, TaskRow
<1>5. version'[v].state # "absent" BY <1>2, <1>3 DEF GoesOn
<1>6. ASSUME task'[v].status # "none" PROVE loop[p].generation <= task'[v].generation
  <2>1. task[v].status # "none" /\ task[v].generation <= task'[v].generation
      BY <1>2, <1>3, <1>6 DEF GoesOn
  <2> QED BY <1>2, <1>4, <2>1
<1> HIDE DEF v
<1> QED BY <1>1, <1>2, <1>5, <1>6 DEF GivenOut

LEMMA OnwardOwn ==
    ASSUME ParseInv, RowsStep, NEW p \in Loops, NEW q \in Loops, Onward(p), Onward(q)
    PROVE  OwnGeneration(p, q)'
<1> SUFFICES ASSUME Working(p)', Working(q)', loop'[p].of = loop'[q].of,
                    task'[loop'[p].of].status # "none",
                    loop'[p].generation = loop'[q].generation
             PROVE  p = q
    BY DEF OwnGeneration
<1>1. /\ Working(p) /\ Working(q) /\ loop[p].of = loop[q].of
      /\ loop[p].generation = loop[q].generation /\ task'[loop[p].of].status # "none"
    BY DEF Onward
<1>2. loop[p].of \in Versions /\ version[loop[p].of].state # "absent"
    BY <1>1 DEF ParseInv, LoopsInv, GivenOut
<1>3. task[loop[p].of].status # "none" BY <1>1, <1>2 DEF RowsStep, VersionStep, GoesOn
<1>4. OwnGeneration(p, q) BY DEF ParseInv, LoopsInv
<1> QED BY <1>1, <1>3, <1>4 DEF OwnGeneration

LEMMA LoopsGoOn ==
    ASSUME ParseInv, RowsStep, \A p \in Loops : Onward(p)
    PROVE  LoopsInv'
BY OnwardGivenOut, OnwardOwn DEF LoopsInv

(* The loop that claimed holds more than any other was given.              *)
LEMMA LoopsClaim ==
    ASSUME ParseInv, RowsStep, NEW p \in Loops, NEW v \in Versions,
           version[v].state # "absent", task[v].status # "none",
           task'[v].generation = task[v].generation + 1,
           loop' = [loop EXCEPT ![p] = [pc |-> "working", of |-> v,
                                        generation |-> task'[v].generation]]
    PROVE  LoopsInv'
<1>1. /\ loop'[p].of = v /\ loop'[p].generation = task'[v].generation
      /\ \A q \in Loops : q # p => loop'[q] = loop[q]
    BY DEF ParseInv, LocalParseTypeOK
<1>2. \A q \in Loops : q # p => Onward(q) BY <1>1 DEF Onward, Working
<1>3. version'[v].state # "absent" /\ task[v].generation \in Nat
    BY RowFacts DEF RowsStep, VersionStep, GoesOn
<1>4. GivenOut(p)' BY <1>1, <1>3 DEF GivenOut
<1>5. ASSUME NEW q \in Loops, q # p, Working(q), loop[q].of = v
      PROVE  loop[q].generation # task'[v].generation
  <2>1. loop[q].generation <= task[v].generation BY <1>5 DEF ParseInv, LoopsInv, GivenOut
  <2>2. loop[q].generation \in Nat BY DEF ParseInv, LocalParseTypeOK, LoopState
  <2> QED BY <1>3, <2>1, <2>2
<1>6. ASSUME NEW q \in Loops, q # p
      PROVE  OwnGeneration(p, q)' /\ OwnGeneration(q, p)'
  <2>1. ~(/\ Working(q)' /\ loop'[q].of = loop'[p].of
          /\ loop'[q].generation = loop'[p].generation)
      BY <1>1, <1>5, <1>6 DEF Working
  <2> QED BY <2>1 DEF OwnGeneration
<1>7. OwnGeneration(p, p)' BY DEF OwnGeneration
<1>8. \A q \in Loops : GivenOut(q)' BY <1>2, <1>4, OnwardGivenOut
<1>9. \A q, r \in Loops : OwnGeneration(q, r)' BY <1>2, <1>6, <1>7, OnwardOwn
<1> QED BY <1>8, <1>9 DEF LoopsInv

(* A loop that is set to a state without work.                             *)
LEMMA LoopRests ==
    ASSUME ParseInv, RowsStep, NEW p \in Loops, NEW r \in LoopState, r.pc # "working",
           loop' = [loop EXCEPT ![p] = r]
    PROVE  LoopsInv' /\ loop' \in [Loops -> LoopState]
<1>1. loop' \in [Loops -> LoopState] BY DEF ParseInv, LocalParseTypeOK
<1>2. \A q \in Loops : Onward(q)
  <2>1. loop'[p].pc # "working" /\ \A q \in Loops : q # p => loop'[q] = loop[q]
      BY DEF ParseInv, LocalParseTypeOK
  <2> QED BY <2>1 DEF Onward, Working
<1> QED BY <1>1, <1>2, LoopsGoOn

LEMMA LoopsStay ==
    ASSUME ParseInv, RowsStep, loop' = loop
    PROVE  LoopsInv' /\ loop' \in [Loops -> LoopState]
<1>1. \A q \in Loops : Onward(q) BY DEF Onward, Working
<1> QED BY <1>1, LoopsGoOn DEF ParseInv, LocalParseTypeOK

LEMMA RestingStates ==
    /\ Idle \in LoopState /\ Idle.pc # "working"
    /\ \A pc \in {"ended", "down"} :
          [Idle EXCEPT !.pc = pc] \in LoopState /\ [Idle EXCEPT !.pc = pc].pc # "working"
    /\ \A l \in LoopState :
          [l EXCEPT !.pc = "leaving"] \in LoopState /\ [l EXCEPT !.pc = "leaving"].pc # "working"
BY LocalParseAssumption DEF Idle, LoopState

-----------------------------------------------------------------------------
LoopsStep == LoopsInv' /\ loop' \in [Loops -> LoopState]

LEMMA WorkLoops ==
    ASSUME ParseInv, RowsStep, NEW p \in Loops,
           \/ loop' = loop \/ Leave(p)
           \/ loop' = [loop EXCEPT ![p] = Idle]
           \/ \E pc \in {"ended", "down"} : loop' = [loop EXCEPT ![p] = [Idle EXCEPT !.pc = pc]]
    PROVE  LoopsStep
<1>1. CASE loop' = loop BY <1>1, LoopsStay DEF LoopsStep
<1>2. CASE Leave(p)
  <2>1. loop[p] \in LoopState BY DEF ParseInv, LocalParseTypeOK
  <2>2. loop' = [loop EXCEPT ![p] = [loop[p] EXCEPT !.pc = "leaving"]]
      BY <1>2 DEF Leave, ParseInv, LocalParseTypeOK
  <2> QED BY <2>1, <2>2, RestingStates, LoopRests DEF LoopsStep
<1>3. CASE loop' = [loop EXCEPT ![p] = Idle]
    BY <1>3, RestingStates, LoopRests DEF LoopsStep
<1>4. ASSUME NEW pc \in {"ended", "down"}, loop' = [loop EXCEPT ![p] = [Idle EXCEPT !.pc = pc]]
      PROVE  LoopsStep
    BY <1>4, RestingStates, LoopRests DEF LoopsStep
<1> QED BY <1>1, <1>2, <1>3, <1>4

(* Every step in terms of the above.                                       *)
LEMMA ParseStep ==
    ASSUME ParseInv, [LocalParseNext]_parseVars
    PROVE  RowsStep /\ LoopsStep /\ stops' \in 0 .. MaxStops
<1>1. stops \in 0 .. MaxStops BY DEF ParseInv, LocalParseTypeOK
<1>2. StopsOnce => stops' \in 0 .. MaxStops BY <1>1 DEF StopsOnce
<1>3. CASE UNCHANGED parseVars
    BY <1>1, <1>3, UnmovedRows, LoopsStay DEF parseVars, LoopsStep
<1>4. ASSUME NEW p \in Loops, ClaimParse(p)
      PROVE  RowsStep /\ LoopsStep /\ stops' \in 0 .. MaxStops
  <2>1. RowsStep BY <1>4, ClaimStep
  <2>2. CASE loop' = loop BY <1>1, <1>4, <2>1, <2>2, LoopsStay DEF LoopsStep, ClaimParse
  <2>3. ASSUME NEW v \in Versions, version[v].state # "absent", task[v].status # "none",
               task'[v].generation = task[v].generation + 1,
               loop' = [loop EXCEPT ![p] = [pc |-> "working", of |-> v,
                                            generation |-> task'[v].generation]]
        PROVE  LoopsStep
    <3>1. LoopsInv' BY <2>1, <2>3, LoopsClaim
    <3>2. task[v].generation \in Nat /\ v \in 0 .. MaxVersions BY RowFacts DEF Versions
    <3>3. [pc |-> "working", of |-> v, generation |-> task'[v].generation] \in LoopState
        BY <2>3, <3>2 DEF LoopState
    <3>4. loop' \in [Loops -> LoopState] BY <2>3, <3>3 DEF ParseInv, LocalParseTypeOK
    <3> QED BY <3>1, <3>4 DEF LoopsStep
  <2>4. stops' = stops BY <1>4 DEF ClaimParse
  <2> QED BY <1>1, <1>4, <2>1, <2>2, <2>3, <2>4, ClaimStep
<1>5. ASSUME NEW p \in Loops, WorkStep(p)
      PROVE  RowsStep /\ LoopsStep /\ stops' \in 0 .. MaxStops
  <2>1. RowsStep BY <1>5, WorkStepFacts
  <2>2. LoopsStep BY <1>5, <2>1, WorkStepFacts, WorkLoops
  <2>3. stops' = stops
      BY <1>5 DEF WorkStep, PublishParse, FailParse, RenewParse, FinishWork
  <2> QED BY <1>1, <2>1, <2>2, <2>3
<1>6. ASSUME NEW p \in Loops, ProcessStops(p) \/ ProcessStarts(p)
      PROVE  RowsStep /\ LoopsStep /\ stops' \in 0 .. MaxStops
  <2>1. RowsStep BY <1>6, UnmovedRows DEF ProcessStops, ProcessStarts
  <2>2. LoopsStep BY <1>6, <2>1, WorkLoops DEF ProcessStops, ProcessStarts
  <2> QED BY <1>1, <1>2, <1>6, <2>1, <2>2 DEF ProcessStops, ProcessStarts
<1>7. ASSUME NEW v \in Versions, UserStep(v)
      PROVE  RowsStep /\ LoopsStep /\ stops' \in 0 .. MaxStops
  <2>1. RowsStep BY <1>7, CreateRows, CancelRows, WithdrawRows DEF UserStep
  <2>2. loop' = loop /\ stops' = stops
      BY <1>7 DEF UserStep, CreateVersion, CancelParse, WithdrawVersion
  <2> QED BY <1>1, <2>1, <2>2, LoopsStay DEF LoopsStep
<1>8. ASSUME NEW v \in Versions, ParseLeaseRunsOut(v)
      PROVE  RowsStep /\ LoopsStep /\ stops' \in 0 .. MaxStops
  <2>1. loop' = loop /\ (stops' = stops \/ StopsOnce) BY <1>8 DEF ParseLeaseRunsOut
  <2> QED BY <1>1, <1>2, <1>8, <2>1, LeaseRows, LoopsStay DEF LoopsStep
<1>9. ASSUME NEW V, DeleteVersions(V)
      PROVE  RowsStep /\ LoopsStep /\ stops' \in 0 .. MaxStops
  <2>1. loop' = loop /\ stops' = stops BY <1>9 DEF DeleteVersions
  <2> QED BY <1>1, <1>9, <2>1, DeleteRows, LoopsStay DEF LoopsStep
<1> QED BY <1>3, <1>4, <1>5, <1>6, <1>7, <1>8, <1>9 DEF LocalParseNext

LEMMA ParseInvStep == ParseInv /\ [LocalParseNext]_parseVars => ParseInv'
<1> SUFFICES ASSUME ParseInv, [LocalParseNext]_parseVars PROVE ParseInv' OBVIOUS
<1>1. RowsStep /\ LoopsStep /\ stops' \in 0 .. MaxStops BY ParseStep
<1>2. LocalParseTypeOK' BY <1>1 DEF LocalParseTypeOK, RowsStep, LoopsStep
<1>3. RowsFollow' BY <1>1 DEF RowsFollow, RowsStep, VersionStep
<1> QED BY <1>1, <1>2, <1>3 DEF ParseInv, LoopsStep

(* The inductive invariant holds: what loops hold was given out by the     *)
(* claim of store.py, each generation to one of them.                      *)
THEOREM ParseInvariance == LocalParseSpec => []ParseInv
<1>1. LocalParseInit => ParseInv BY ParseInitInv
<1>2. ParseInv /\ [LocalParseNext]_parseVars => ParseInv' BY ParseInvStep
<1> QED BY <1>1, <1>2, PTL DEF LocalParseSpec

(* Every variable keeps its type; in particular the stored attempts stay   *)
(* within the limit that claim() compares them with.                       *)
THEOREM LocalParseTypes == LocalParseSpec => []LocalParseTypeOK
<1>1. ParseInv => LocalParseTypeOK BY DEF ParseInv
<1> QED BY <1>1, ParseInvariance, PTL

(* The version row and its task row tell one story, whatever was           *)
(* cancelled, withdrawn, deleted or taken over between two transactions,   *)
(* and no loop works with a generation that was not given out.             *)
THEOREM VersionsFollowTasks == LocalParseSpec => []VersionFollowsTask
<1>1. ParseInv => VersionFollowsTask BY DEF ParseInv, LoopsInv, VersionFollowsTask
<1> QED BY <1>1, ParseInvariance, PTL

(* At most one loop holds the running generation of a task, for any number *)
(* of processes on one workspace.                                          *)
THEOREM HoldersAreAlone == LocalParseSpec => []OneHolder
<1>1. ParseInv => OneHolder BY OneHolderFollows DEF ParseInv
<1> QED BY <1>1, ParseInvariance, PTL

(* An outcome changes only by withdrawal or deletion, and a withdrawn      *)
(* version never authorizes again.                                         *)
THEOREM OutcomesAreFinal == LocalParseSpec => OutcomesStay
<1>1. ASSUME ParseInv, [LocalParseNext]_parseVars
      PROVE  \A v \in Versions : OutcomeStays(v)
    BY <1>1, ParseStep DEF RowsStep, VersionStep
<1> QED BY <1>1, ParseInvariance, PTL DEF LocalParseSpec, OutcomesStay, OutcomeStays

=============================================================================
