---------------------- MODULE FederationExecution_proofs ----------------------
(* Proofs about FederationExecution, for any number of executions, tasks,  *)
(* attempts, mishaps, and resumes that overlap.  That every execution ends *)
(* is left to TLC.                                                         *)
EXTENDS FederationExecution, TLAPS

USE ExecutionAssumption

(* The inductive invariant.  What a run does with a row is only known when *)
(* the row exists, so a run is for an execution and an open task has one.  *)
(* A retry writes the row whatever has become of it since it was read, so  *)
(* the count of usage has to follow the successes written over.            *)
QueueInv ==
    /\ phase \in [Tasks -> {"absent", "open", "succeeded", "failed", "cancelled"}]
    /\ payload \in [Tasks -> Executions \cup {NoExec}]
    /\ \A t \in Tasks : phase[t] = "open" => payload[t] \in Executions

RowInv ==
    /\ exec \in [Executions -> ExecRow]
    /\ wins \in [Executions -> Nat] /\ revived \in [Executions -> Nat]
    /\ MeteredIffSucceeded
    /\ \A x \in Executions : exec[x].state = "none" => exec[x].generation = 0

RunInv ==
    /\ run \in [RunId -> Run]
    /\ \A r \in RunId : run[r].pc # "none" => run[r].of \in Executions

MiscInv ==
    /\ cancelling \in [Executions -> {"no", "decided", "written", "done"}]
    /\ found \subseteq Executions
    /\ mishaps \in 0 .. MaxMishaps

ExecInv == QueueInv /\ RowInv /\ RunInv /\ MiscInv

LEMMA ExecInitInv == ExecInit => ExecInv
<1> SUFFICES ASSUME ExecInit PROVE ExecInv OBVIOUS
<1>1. QueueInv BY DEF ExecInit, Queue!Init, QueueInv
<1>2. RowInv
    BY DEF ExecInit, RowInv, MeteredIffSucceeded, ExecRow, State, Live
<1>3. RunInv BY DEF ExecInit, RunInv, NoRun, Run, RunPC
<1>4. MiscInv BY DEF ExecInit, MiscInv
<1> QED BY <1>1, <1>2, <1>3, <1>4 DEF ExecInv

-----------------------------------------------------------------------------
(* The queue: an open task is for an execution, whoever touches it.        *)

LEMMA EnqueueKeeps ==
    ASSUME QueueInv, NEW x \in Executions, Enqueue(x)
    PROVE  QueueInv'
<1>1. CASE \E t \in Tasks : owner[t] = x
    BY <1>1 DEF Enqueue, queueVars, QueueInv
<1>2. CASE ~ \E t \in Tasks : owner[t] = x
  <2>1. PICK t \in Tasks : /\ phase' = [phase EXCEPT ![t] = "open"]
                           /\ payload' = [payload EXCEPT ![t] = x]
      BY <1>2 DEF Enqueue, Queue!Accept
  <2> QED BY <2>1 DEF QueueInv
<1> QED BY <1>1, <1>2

LEMMA CloseKeeps ==
    ASSUME QueueInv, NEW t \in Tasks, UNCHANGED payload,
           \/ Queue!Succeed(t) \/ Queue!Fail({t}) \/ Queue!Cancel(t) \/ Queue!Take({t})
           \/ UNCHANGED <<phase, owner, takes>>
    PROVE  QueueInv'
<1>1. \/ UNCHANGED phase
      \/ \E end \in {"succeeded", "failed", "cancelled"} :
            phase' = [u \in Tasks |-> IF u \in {t} THEN end ELSE phase[u]]
    BY DEF Queue!Succeed, Queue!Fail, Queue!Cancel, Queue!Take, Queue!Close
<1> QED BY <1>1 DEF QueueInv

LEMMA QueueNextInv == ExecInv /\ ExecNext => QueueInv'
<1> SUFFICES ASSUME ExecInv, ExecNext PROVE QueueInv' OBVIOUS
<1> USE DEF ExecInv
<1>1. ASSUME UNCHANGED queueVars PROVE QueueInv'
    BY <1>1 DEF queueVars, QueueInv
<1>2. ASSUME NEW r \in RunId, RunStep(r) \/ SucceedUnanswered(r) \/ CrashRun(r)
      PROVE  QueueInv'
  <2>1. CASE EndRun(r)
    <3>1. UNCHANGED payload /\ (Newest(r) => Queue!Succeed(r[1]))
          /\ (~Newest(r) => UNCHANGED <<phase, owner, takes>>)
        BY <2>1 DEF EndRun
    <3>2. CASE Newest(r)
      <4>1. r[1] \in Tasks BY <3>2 DEF Newest, TaskRuns
      <4> QED BY <3>1, <3>2, <4>1, CloseKeeps
    <3>3. CASE ~Newest(r) BY <3>1, <3>3 DEF QueueInv
    <3> QED BY <3>2, <3>3
  <2>2. CASE ~EndRun(r)
    <3>1. UNCHANGED queueVars
        BY <1>2, <2>2 DEF RunStep, ClaimExecution, Refresh, Succeed, WorkRaises,
                          FinishFailed, SucceedUnanswered, CrashRun
    <3> QED BY <3>1, <1>1
  <2> QED BY <2>1, <2>2
<1>3. ASSUME NEW t \in Tasks, TakeTask(t) \/ GiveUp(t) PROVE QueueInv'
  <2>1. UNCHANGED payload /\ (Queue!Take({t}) \/ Queue!Fail({t}))
      BY <1>3 DEF TakeTask, GiveUp
  <2> QED BY <2>1, CloseKeeps
<1>4. ASSUME NEW c \in Coordinators, RetryExecution(c) PROVE QueueInv'
  <2>1. Enqueue(run[c].of) BY <1>4 DEF RetryExecution
  <2>2. run[c].of \in Executions
      BY <1>4 DEF RetryExecution, RunInv, RunId
  <2> QED BY <2>1, <2>2, EnqueueKeeps
<1>5. ASSUME NEW c \in Coordinators, NEW x \in Executions, Visit(c, x) PROVE QueueInv'
    BY <1>1, <1>5 DEF Visit
<1>6. ASSUME NEW x \in Executions,
             \/ Admit(x) \/ Cancel(x) \/ Sweep(x)
             \/ LeaseRunsOut(x) \/ HeartbeatExecution(x)
      PROVE  QueueInv'
  <2>1. CASE Admit(x) BY <2>1, EnqueueKeeps DEF Admit
  <2>2. CASE CancelByDedupe(x)
    <3>1. CASE \E t \in Tasks : owner[t] = x
      <4>1. PICK t \in Tasks : Queue!Cancel(t) BY <2>2, <3>1 DEF CancelByDedupe
      <4>2. UNCHANGED payload BY <2>2 DEF CancelByDedupe
      <4> QED BY <4>1, <4>2, CloseKeeps
    <3>2. CASE ~ \E t \in Tasks : owner[t] = x
        BY <2>2, <3>2 DEF CancelByDedupe, QueueInv
    <3> QED BY <3>1, <3>2
  <2>3. CASE ~Admit(x) /\ ~CancelByDedupe(x)
    <3>1. UNCHANGED queueVars
        BY <1>6, <2>3 DEF Cancel, CancelRequest, CancelExecution, CancelCrashes, Sweep,
           SweepLease, FindDeadTask, MarkDeadTask, LeaseRunsOut, HeartbeatExecution
    <3> QED BY <3>1, <1>1
  <2> QED BY <2>1, <2>2, <2>3
<1> QED BY <1>2, <1>3, <1>4, <1>5, <1>6 DEF ExecNext

-----------------------------------------------------------------------------
(* The rows.  Every write of a row but one is made only of a row that has  *)
(* no result yet; the exception, a retry, puts it back to queued: a failed *)
(* row that is as it was read, or whatever it has written over.            *)
Moves(x) ==
    /\ exec[x].state \in {"none"} \cup Live /\ exec'[x].state # "none"
    /\ exec'[x].generation >= exec[x].generation
    /\ wins'[x] = IF exec'[x].state = "succeeded" THEN wins[x] + 1 ELSE wins[x]
    /\ revived'[x] = revived[x]

IsRetried(x) ==
    /\ exec'[x].state = "queued"
    /\ wins'[x] = wins[x]
    /\ revived'[x] = IF exec[x].state = "succeeded" THEN revived[x] + 1 ELSE revived[x]
    /\ WrittenOver(x) \/ (Retryable(exec[x]) /\ exec'[x].generation >= exec[x].generation)

Kept(x) == exec'[x] = exec[x] /\ wins'[x] = wins[x] /\ revived'[x] = revived[x]

RowsTyped ==
    /\ exec' \in [Executions -> ExecRow]
    /\ wins' \in [Executions -> Nat] /\ revived' \in [Executions -> Nat]

OneRowMoves == RowsTyped /\ \A x \in Executions : Kept(x) \/ Moves(x)

(* A write of one row that leaves the usage alone.                         *)
LEMMA WriteMoves ==
    ASSUME RowInv, NEW x \in Executions, NEW e \in ExecRow,
           exec' = [exec EXCEPT ![x] = e], UNCHANGED <<wins, revived>>,
           exec[x].state \in {"none"} \cup Live, e.state \notin {"none", "succeeded"},
           e.generation >= exec[x].generation
    PROVE  OneRowMoves
BY DEF RowInv, OneRowMoves, RowsTyped, Kept, Moves

LEMMA NothingMoves ==
    ASSUME RowInv, UNCHANGED <<exec, wins, revived>>
    PROVE  OneRowMoves
BY DEF RowInv, OneRowMoves, RowsTyped, Kept

(* Records with some of their fields replaced, one field at a time.        *)
LEMMA RowEdit ==
    ASSUME NEW e \in ExecRow, NEW s, NEW g, NEW c
    PROVE  [e EXCEPT !.state = s, !.error = c, !.generation = g]
             = [state |-> s, generation |-> g, lease |-> e.lease, error |-> c]
<1>1. [e EXCEPT !.state = s]
        = [state |-> s, generation |-> e.generation, lease |-> e.lease, error |-> e.error]
    BY DEF ExecRow
<1>2. [[state |-> s, generation |-> e.generation, lease |-> e.lease, error |-> e.error]
          EXCEPT !.error = c]
        = [state |-> s, generation |-> e.generation, lease |-> e.lease, error |-> c]
    OBVIOUS
<1>3. [[state |-> s, generation |-> e.generation, lease |-> e.lease, error |-> c]
          EXCEPT !.generation = g]
        = [state |-> s, generation |-> g, lease |-> e.lease, error |-> c]
    OBVIOUS
<1> QED BY <1>1, <1>2, <1>3

LEMMA RunEdit ==
    ASSUME NEW h \in Run, NEW p, NEW g
    PROVE  [h EXCEPT !.pc = p, !.generation = g] = [pc |-> p, of |-> h.of, generation |-> g]
<1>1. [h EXCEPT !.pc = p] = [pc |-> p, of |-> h.of, generation |-> h.generation]
    BY DEF Run
<1>2. [[pc |-> p, of |-> h.of, generation |-> h.generation] EXCEPT !.generation = g]
        = [pc |-> p, of |-> h.of, generation |-> g]
    OBVIOUS
<1> QED BY <1>1, <1>2

(* What each operation does to the row it is about.                        *)
LEMMA RunStepRows ==
    ASSUME ExecInv, NEW r \in RunId, RunStep(r) \/ SucceedUnanswered(r) \/ CrashRun(r)
    PROVE  OneRowMoves
<1> DEFINE x == run[r].of
           e == exec[x]
<1> USE DEF ExecInv
<1>0. RowInv BY DEF ExecInv
<1>1. CASE UNCHANGED <<exec, wins, revived>> BY <1>0, <1>1, NothingMoves
<1>2. run[r].pc # "none" /\ x \in Executions
    BY DEF RunInv, RunStep, ClaimExecution, Refresh, Succeed, WorkRaises, FinishFailed,
           EndRun, SucceedUnanswered, CrashRun
<1>3. e \in ExecRow /\ wins[x] \in Nat BY <1>2 DEF RowInv
<1>4. CASE ClaimExecution(r) /\ ClaimableExecution(e)
  <2> DEFINE f == [state |-> "running", generation |-> e.generation + 1,
                   lease |-> "live", error |-> e.error]
  <2>1. exec' = [exec EXCEPT ![x] = f] /\ UNCHANGED <<wins, revived>>
      BY <1>2, <1>3, <1>4 DEF ClaimExecution, RowInv, ExecRow
  <2>2. f \in ExecRow /\ f.generation >= e.generation /\ f.state \notin {"none", "succeeded"}
      BY <1>3 DEF ExecRow, State, Live
  <2>3. e.state \in {"none"} \cup Live BY <1>4 DEF ClaimableExecution, Live
  <2> HIDE DEF f
  <2> QED BY <1>0, <1>2, <2>1, <2>2, <2>3, WriteMoves
<1>5. CASE FinishFailed(r) /\ Fenced(e, run[r])
  <2> DEFINE f == [state |-> "failed", generation |-> e.generation,
                   lease |-> "none", error |-> "result"]
  <2>1. exec' = [exec EXCEPT ![x] = f] /\ UNCHANGED <<wins, revived>>
      BY <1>2, <1>3, <1>5 DEF FinishFailed, RowInv, ExecRow
  <2>2. f \in ExecRow /\ f.generation >= e.generation /\ f.state \notin {"none", "succeeded"}
      BY <1>3 DEF ExecRow, State, Live
  <2>3. e.state \in {"none"} \cup Live BY <1>5 DEF Fenced
  <2> HIDE DEF f
  <2> QED BY <1>0, <1>2, <2>1, <2>2, <2>3, WriteMoves
<1>6. CASE WriteSuccess(r) /\ Fenced(e, run[r])
  <2> DEFINE f == [state |-> "succeeded", generation |-> e.generation,
                   lease |-> "none", error |-> "none"]
  <2>0. revived' = revived
      BY DEF RunStep, ClaimExecution, Refresh, Succeed, WorkRaises, FinishFailed, EndRun,
             SucceedUnanswered, CrashRun
  <2>1. exec' = [exec EXCEPT ![x] = f] /\ wins' = [wins EXCEPT ![x] = wins[x] + 1]
    <3>1. exec' = [exec EXCEPT ![x] = f] BY <1>2, <1>3, <1>6 DEF WriteSuccess, RowInv, ExecRow
    <3>2. wins' = [wins EXCEPT ![x] = wins[x] + 1] BY <1>6 DEF WriteSuccess
    <3> QED BY <3>1, <3>2
  <2>2. f \in ExecRow /\ f.generation >= e.generation /\ f.state = "succeeded"
      BY <1>3 DEF ExecRow, State, Live
  <2>3. e.state \in {"none"} \cup Live BY <1>6 DEF Fenced
  <2> HIDE DEF f
  <2> QED BY <1>2, <1>3, <2>0, <2>1, <2>2, <2>3 DEF RowInv, OneRowMoves, RowsTyped, Kept, Moves
<1> QED
  BY <1>1, <1>4, <1>5, <1>6 DEF RunStep, ClaimExecution, Refresh, Succeed, WorkRaises,
     FinishFailed, EndRun, SucceedUnanswered, CrashRun, WriteSuccess

LEMMA UnrunMoves ==
    ASSUME RowInv, NEW x \in Executions, Unrun(x), exec[x].state \in Live, UNCHANGED <<wins, revived>>
    PROVE  OneRowMoves
<1> DEFINE e == exec[x]
           f == [state |-> "failed", generation |-> e.generation + 1,
                 lease |-> "none", error |-> "unrun"]
<1>1. e \in ExecRow BY DEF RowInv
<1>2. exec' = [exec EXCEPT ![x] = f] BY <1>1 DEF Unrun, RowInv, ExecRow
<1>3. f \in ExecRow /\ f.generation >= e.generation /\ f.state \notin {"none", "succeeded"}
    BY <1>1 DEF ExecRow, State
<1> HIDE DEF f
<1> QED BY <1>2, <1>3, WriteMoves

LEMMA OtherRows ==
    ASSUME ExecInv, NEW x \in Executions,
           \/ Admit(x) \/ Cancel(x) \/ Sweep(x)
           \/ LeaseRunsOut(x) \/ HeartbeatExecution(x)
    PROVE  OneRowMoves
<1> DEFINE e == exec[x]
<1> USE DEF ExecInv
<1>0. RowInv BY DEF ExecInv
<1>1. CASE UNCHANGED <<exec, wins, revived>> BY <1>0, <1>1, NothingMoves
<1>2. e \in ExecRow BY DEF RowInv
<1>3. CASE Admit(x)
  <2> DEFINE f == [state |-> "queued", generation |-> 1, lease |-> e.lease, error |-> e.error]
  <2>1. exec' = [exec EXCEPT ![x] = f] /\ UNCHANGED <<wins, revived>>
      BY <1>2, <1>3 DEF Admit, RowInv, ExecRow
  <2>2. f \in ExecRow /\ f.state \notin {"none", "succeeded"} BY <1>2 DEF ExecRow, State, Live
  <2>3. e.state = "none" /\ f.generation >= e.generation BY <1>0, <1>3 DEF Admit, RowInv
  <2> HIDE DEF f
  <2> QED BY <1>0, <2>1, <2>2, <2>3, WriteMoves
<1>4. CASE CancelExecution(x) /\ e.state \in Live
  <2> DEFINE f == [state |-> "cancelled", generation |-> e.generation + 1,
                   lease |-> "none", error |-> "result"]
  <2>1. exec' = [exec EXCEPT ![x] = f] /\ UNCHANGED <<wins, revived>>
      BY <1>2, <1>4 DEF CancelExecution, RowInv, ExecRow
  <2>2. f \in ExecRow /\ f.generation >= e.generation /\ f.state \notin {"none", "succeeded"}
      BY <1>2 DEF ExecRow, State
  <2> HIDE DEF f
  <2> QED BY <1>0, <1>4, <2>1, <2>2, WriteMoves
<1>5. CASE SweepLease(x)
    BY <1>0, <1>5, UnrunMoves DEF SweepLease, Abandoned
<1>6. CASE MarkDeadTask(x) /\ Waiting(e)
    BY <1>0, <1>6, UnrunMoves DEF MarkDeadTask, Waiting, Live
<1>7. CASE LeaseRunsOut(x) \/ HeartbeatExecution(x)
  <2>1. PICK l \in {"live", "expired"} : exec' = [exec EXCEPT ![x].lease = l]
      BY <1>7 DEF LeaseRunsOut, HeartbeatExecution
  <2> DEFINE f == [state |-> e.state, generation |-> e.generation,
                   lease |-> l, error |-> e.error]
  <2>0. [e EXCEPT !.lease = l] = f BY <1>2 DEF ExecRow
  <2>2. exec' = [exec EXCEPT ![x] = f]
    <3>1. exec' = [exec EXCEPT ![x] = [e EXCEPT !.lease = l]] BY <2>1
    <3> QED BY <2>0, <3>1
  <2>3. UNCHANGED <<wins, revived>> /\ e.state \in Live
      BY <1>7 DEF LeaseRunsOut, HeartbeatExecution, Live
  <2>4. f \in ExecRow /\ f.generation >= e.generation /\ f.state \in Live
      BY <1>2, <2>3 DEF ExecRow
  <2> HIDE DEF f
  <2> QED BY <1>0, <2>2, <2>3, <2>4, WriteMoves DEF Live
<1> QED
  BY <1>1, <1>3, <1>4, <1>5, <1>6, <1>7 DEF Cancel, CancelRequest, CancelExecution,
     CancelByDedupe, CancelCrashes, Sweep, FindDeadTask, MarkDeadTask

(* The retry writes one more than the generation it has read.              *)
AnyRowMoves ==
    RowsTyped /\ \A x \in Executions : Kept(x) \/ Moves(x) \/ IsRetried(x)

LEMMA RetriedRow ==
    ASSUME ExecInv, NEW c \in Coordinators, RetryExecution(c)
    PROVE  AnyRowMoves
<1> DEFINE x == run[c].of
           e == exec[x]
           f == [state |-> "queued", generation |-> run[c].generation + 1,
                 lease |-> e.lease, error |-> "none"]
<1>1. run[c].pc = "retry" /\ c \in RunId BY DEF RetryExecution, RunId
<1>2. x \in Executions /\ run[c] \in Run /\ run[c].generation \in Nat
    BY <1>1 DEF ExecInv, RunInv, Run
<1>3. e \in ExecRow /\ revived \in [Executions -> Nat] BY <1>2 DEF ExecInv, RowInv
<1>4. run'[c].pc = "start"
  <2>1. run' = [run EXCEPT ![c] = [run[c] EXCEPT !.pc = "start"]]
      BY DEF RetryExecution, Goto
  <2>2. run'[c] = [run[c] EXCEPT !.pc = "start"] BY <1>1, <2>1 DEF ExecInv, RunInv
  <2> QED BY <1>2, <2>2 DEF Run
<1>5. exec' = [exec EXCEPT ![x] = f] /\ wins' = wins
  <2>1. /\ exec' = [exec EXCEPT ![x].state = "queued", ![x].error = "none",
                                ![x].generation = run[c].generation + 1]
        /\ wins' = wins
      BY DEF RetryExecution
  <2>2. exec' = [exec EXCEPT ![x] = [e EXCEPT !.state = "queued", !.error = "none",
                                             !.generation = run[c].generation + 1]]
      BY <1>2, <2>1 DEF ExecInv, RowInv
  <2>3. [e EXCEPT !.state = "queued", !.error = "none",
                  !.generation = run[c].generation + 1] = f
      BY <1>3, RowEdit
  <2> HIDE DEF f
  <2> QED BY <2>1, <2>2, <2>3
<1>6. f \in ExecRow /\ f.state = "queued" /\ f.generation = run[c].generation + 1
    BY <1>2, <1>3 DEF ExecRow, State, Live
<1>7. /\ revived' \in [Executions -> Nat]
      /\ revived'[x] = IF e.state = "succeeded" THEN revived[x] + 1 ELSE revived[x]
      /\ \A y \in Executions \ {x} : revived'[y] = revived[y]
  <2>1. revived' = IF e.state = "succeeded"
                   THEN [revived EXCEPT ![x] = revived[x] + 1] ELSE revived
      BY DEF RetryExecution
  <2> HIDE DEF x, e
  <2> QED BY <1>2, <1>3, <2>1
<1> HIDE DEF f
<1>8. RowsTyped BY <1>2, <1>5, <1>6, <1>7 DEF ExecInv, RowInv, RowsTyped
<1>9. exec'[x] = f BY <1>2, <1>5 DEF ExecInv, RowInv
<1>10. WrittenOver(x) \/ (Retryable(e) /\ exec'[x].generation >= e.generation)
  <2>1. CASE StaleRetry(c) BY <1>4, <2>1 DEF WrittenOver
  <2>2. CASE ~StaleRetry(c)
    <3>1. Retryable(e) /\ e.generation = run[c].generation BY <1>1, <2>2 DEF StaleRetry
    <3> QED BY <1>2, <1>6, <1>9, <3>1
  <2> QED BY <2>1, <2>2
<1>11. IsRetried(x) BY <1>5, <1>6, <1>7, <1>9, <1>10 DEF IsRetried
<1>12. \A y \in Executions \ {x} : Kept(y) BY <1>5, <1>7 DEF ExecInv, RowInv, Kept
<1> QED BY <1>8, <1>11, <1>12 DEF AnyRowMoves

LEMMA NextRows ==
    ASSUME ExecInv, ExecNext
    PROVE  OneRowMoves \/ \E c \in Coordinators : RetryExecution(c)
<1>1. ASSUME NEW t \in Tasks, TakeTask(t) \/ GiveUp(t) PROVE OneRowMoves
    BY <1>1, NothingMoves DEF ExecInv, TakeTask, GiveUp
<1>2. ASSUME NEW c \in Coordinators, NEW x \in Executions, Visit(c, x)
      PROVE  OneRowMoves
    BY <1>2, NothingMoves DEF ExecInv, Visit
<1> QED BY <1>1, <1>2, RunStepRows, OtherRows DEF ExecNext

LEMMA NextAnyRow ==
    ASSUME ExecInv, ExecNext
    PROVE  AnyRowMoves
<1>1. CASE OneRowMoves BY <1>1 DEF OneRowMoves, AnyRowMoves
<1> QED BY <1>1, NextRows, RetriedRow

LEMMA RowNextInv ==
    ASSUME ExecInv, ExecNext
    PROVE  RowInv'
<1>1. AnyRowMoves BY NextAnyRow
<1>2. ASSUME NEW x \in Executions
      PROVE  /\ wins'[x] = revived'[x] + IF exec'[x].state = "succeeded" THEN 1 ELSE 0
             /\ exec'[x].state = "none" => exec'[x].generation = 0
  <2>0. wins[x] \in Nat /\ revived[x] \in Nat BY DEF ExecInv, RowInv
  <2>1. wins[x] = revived[x] + IF exec[x].state = "succeeded" THEN 1 ELSE 0
      BY DEF ExecInv, RowInv, MeteredIffSucceeded
  <2>2. exec[x].state = "none" => exec[x].generation = 0 BY DEF ExecInv, RowInv
  <2>3. CASE Kept(x) BY <2>1, <2>2, <2>3 DEF Kept
  <2>4. CASE Moves(x)
    <3>1. exec[x].state # "succeeded" BY <2>4 DEF Moves, Live
    <3> QED BY <2>0, <2>1, <2>4, <3>1 DEF Moves
  <2>5. CASE IsRetried(x) BY <2>0, <2>1, <2>5 DEF IsRetried
  <2> QED BY <1>1, <2>3, <2>4, <2>5 DEF AnyRowMoves
<1> QED BY <1>1, <1>2 DEF RowInv, AnyRowMoves, RowsTyped, MeteredIffSucceeded

-----------------------------------------------------------------------------
(* The runs: one is only ever started for an execution that exists.        *)
RunMoves(r) ==
    /\ run' \in [RunId -> Run]
    /\ \A s \in RunId \ {r} : run'[s] = run[s]
    /\ run'[r].pc # "none" => run'[r].of \in Executions

LEMMA StepRuns ==
    ASSUME ExecInv, NEW r \in RunId, RunStep(r) \/ SucceedUnanswered(r) \/ CrashRun(r)
    PROVE  RunMoves(r)
<1>0. run \in [RunId -> Run] /\ run[r] \in Run /\ (run[r].pc # "none" => run[r].of \in Executions)
    BY DEF ExecInv, RunInv
<1>1. CASE EndRun(r) \/ CrashRun(r)
  <2>1. run' = [run EXCEPT ![r] = NoRun] BY <1>1 DEF EndRun, CrashRun
  <2>2. NoRun \in Run /\ NoRun.pc = "none" BY DEF NoRun, Run, RunPC
  <2> QED BY <1>0, <2>1, <2>2 DEF RunMoves
<1>2. CASE Refresh(r)
  <2> DEFINE g == [pc |-> "working", of |-> run[r].of,
                   generation |-> exec[run[r].of].generation]
  <2>1. run[r].of \in Executions BY <1>0, <1>2 DEF Refresh
  <2>2. exec[run[r].of].generation \in Nat BY <2>1 DEF ExecInv, RowInv, ExecRow
  <2>3. run' = [run EXCEPT ![r] = g]
    <3>1. run' = [run EXCEPT ![r] = [run[r] EXCEPT !.pc = "working",
                                        !.generation = exec[run[r].of].generation]]
        BY <1>0, <1>2 DEF Refresh
    <3>2. [run[r] EXCEPT !.pc = "working",
                         !.generation = exec[run[r].of].generation] = g
        BY <1>0, RunEdit
    <3> HIDE DEF g
    <3> QED BY <3>1, <3>2
  <2>4. g \in Run /\ g.pc = "working" /\ g.of \in Executions
      BY <1>0, <2>1, <2>2 DEF Run, RunPC
  <2> HIDE DEF g
  <2> QED BY <1>0, <2>3, <2>4 DEF RunMoves
<1>3. CASE ~EndRun(r) /\ ~CrashRun(r) /\ ~Refresh(r)
  <2>1. PICK pc \in {"claimed", "over", "failing"} : run' = [run EXCEPT ![r].pc = pc]
      BY <1>3 DEF RunStep, ClaimExecution, Succeed, WorkRaises, FinishFailed,
                  SucceedUnanswered, Goto
  <2>2. run[r].pc # "none"
      BY <1>3 DEF RunStep, ClaimExecution, Succeed, WorkRaises, FinishFailed,
                  SucceedUnanswered
  <2> DEFINE g == [run[r] EXCEPT !.pc = pc]
  <2>3. g \in Run /\ g.pc = pc /\ g.of = run[r].of BY <1>0 DEF Run, RunPC
  <2>4. run' = [run EXCEPT ![r] = g] BY <2>1
  <2> HIDE DEF g
  <2>5. run' \in [RunId -> Run] /\ run'[r] = g BY <1>0, <2>3, <2>4
  <2>6. \A s \in RunId \ {r} : run'[s] = run[s] BY <1>0, <2>4
  <2> QED BY <1>0, <2>2, <2>3, <2>5, <2>6 DEF RunMoves
<1> QED BY <1>1, <1>2, <1>3

(* What starts or goes on without being one of a run's own steps.          *)
LEMMA OtherRuns ==
    ASSUME ExecInv, ExecNext
    PROVE  \/ \E r \in RunId : RunMoves(r)
           \/ UNCHANGED run
           \/ \E c \in Coordinators, x \in Executions : Visit(c, x)
           \/ \E c \in Coordinators : RetryExecution(c)
<1>1. RunInv BY DEF ExecInv
<1>2. ASSUME NEW t \in Tasks, TakeTask(t) PROVE UNCHANGED run \/ \E r \in RunId : RunMoves(r)
  <2> DEFINE r == <<t, takes[t] + 1>>
             g == [pc |-> "start", of |-> payload[t], generation |-> 0]
  <2>1. payload[t] \in Executions
    <3>1. phase[t] = "open" BY <1>2 DEF TakeTask, Queue!Take
    <3> QED BY <3>1 DEF ExecInv, QueueInv
  <2>2. g \in Run /\ g.pc = "start" /\ g.of \in Executions BY <2>1 DEF Run, RunPC
  <2>3. run' = [run EXCEPT ![r] = g] BY <1>2 DEF TakeTask
  <2> HIDE DEF g, r
  <2>4. CASE r \in RunId
    <3>1. RunMoves(r) BY <1>1, <2>2, <2>3, <2>4 DEF RunInv, RunMoves
    <3> QED BY <2>4, <3>1
  <2>5. CASE r \notin RunId
    <3>1. run' = run BY <1>1, <2>3, <2>5 DEF RunInv
    <3> QED BY <3>1
  <2> QED BY <2>4, <2>5
<1>3. ASSUME NEW t \in Tasks, GiveUp(t) PROVE UNCHANGED run
    BY <1>3 DEF GiveUp
<1>4. ASSUME NEW x \in Executions,
             \/ Admit(x) \/ Cancel(x) \/ Sweep(x)
             \/ LeaseRunsOut(x) \/ HeartbeatExecution(x)
      PROVE  UNCHANGED run
    BY <1>4 DEF Admit, Cancel, CancelRequest, CancelExecution, CancelByDedupe, CancelCrashes,
       Sweep, SweepLease, FindDeadTask, MarkDeadTask, LeaseRunsOut, HeartbeatExecution
<1> QED BY <1>2, <1>3, <1>4, StepRuns DEF ExecNext

LEMMA RunNextInv ==
    ASSUME ExecInv, ExecNext
    PROVE  RunInv'
<1>0. RunInv /\ RowInv BY DEF ExecInv
<1>1. ASSUME NEW r \in RunId, RunMoves(r) PROVE RunInv'
    BY <1>0, <1>1 DEF RunMoves, RunInv
<1>2. CASE UNCHANGED run BY <1>0, <1>2 DEF RunInv
<1>3. ASSUME NEW c \in Coordinators, NEW x \in Executions, Visit(c, x) PROVE RunInv'
  <2>0. c \in RunId BY DEF RunId
  <2>1. PICK g \in Run : run' = [run EXCEPT ![c] = g] /\ g.of = x
    <3>1. CASE run' = [run EXCEPT ![c] = [pc |-> "start", of |-> x, generation |-> 0]]
      <4> DEFINE h == [pc |-> "start", of |-> x, generation |-> 0]
      <4>1. h \in Run /\ h.of = x BY DEF Run, RunPC
      <4> HIDE DEF h
      <4> QED BY <3>1, <4>1 DEF h
    <3>2. CASE run' = [run EXCEPT ![c] = [pc |-> "retry", of |-> x,
                                          generation |-> exec[x].generation]]
      <4>1. exec[x].generation \in Nat BY <1>0 DEF RowInv, ExecRow
      <4>2. [pc |-> "retry", of |-> x, generation |-> exec[x].generation] \in Run
          BY <4>1 DEF Run, RunPC
      <4> QED BY <3>2, <4>2
    <3> QED BY <1>3, <3>1, <3>2 DEF Visit
  <2> QED BY <1>0, <2>0, <2>1 DEF RunInv
<1>4. ASSUME NEW c \in Coordinators, RetryExecution(c) PROVE RunInv'
  <2>0. c \in RunId BY DEF RunId
  <2>1. run' = [run EXCEPT ![c].pc = "start"] /\ run[c].pc = "retry"
      BY <1>4 DEF RetryExecution, Goto
  <2> DEFINE g == [run[c] EXCEPT !.pc = "start"]
  <2>2. run[c] \in Run /\ run[c].of \in Executions BY <1>0, <2>0, <2>1 DEF RunInv
  <2>3. g \in Run /\ g.of = run[c].of BY <2>2 DEF Run, RunPC
  <2>4. run' = [run EXCEPT ![c] = g] BY <2>1
  <2> HIDE DEF g
  <2> QED BY <1>0, <2>0, <2>2, <2>3, <2>4 DEF RunInv
<1> QED BY <1>1, <1>2, <1>3, <1>4, OtherRuns

LEMMA MiscNextInv ==
    ASSUME ExecInv, ExecNext
    PROVE  MiscInv'
<1> USE DEF ExecInv, MiscInv, Mishap
<1>1. ASSUME NEW r \in RunId, RunStep(r) \/ SucceedUnanswered(r) \/ CrashRun(r)
      PROVE  MiscInv'
    BY <1>1 DEF RunStep, ClaimExecution, Refresh, Succeed, WorkRaises, FinishFailed,
                EndRun, SucceedUnanswered, CrashRun
<1>2. ASSUME NEW t \in Tasks, TakeTask(t) \/ GiveUp(t) PROVE MiscInv'
    BY <1>2 DEF TakeTask, GiveUp
<1>3. ASSUME NEW c \in Coordinators,
             RetryExecution(c) \/ \E x \in Executions : Visit(c, x)
      PROVE  MiscInv'
    BY <1>3 DEF RetryExecution, Visit
<1>4. ASSUME NEW x \in Executions, Cancel(x) PROVE MiscInv'
    BY <1>4 DEF Cancel, CancelRequest, CancelExecution, CancelByDedupe, CancelCrashes
<1>5. ASSUME NEW x \in Executions,
             Admit(x) \/ Sweep(x) \/ LeaseRunsOut(x) \/ HeartbeatExecution(x)
      PROVE  MiscInv'
    BY <1>5 DEF Admit, Sweep, SweepLease, FindDeadTask, MarkDeadTask, LeaseRunsOut,
                HeartbeatExecution
<1> QED BY <1>1, <1>2, <1>3, <1>4, <1>5 DEF ExecNext

-----------------------------------------------------------------------------
LEMMA ExecStutter == ExecInv /\ UNCHANGED execVars => ExecInv'
BY DEF execVars, queueVars, ExecInv, QueueInv, RowInv, MeteredIffSucceeded, RunInv,
       MiscInv

(* Every reachable state satisfies the invariant.                          *)
THEOREM ExecInvariance == ExecSpec => []ExecInv
<1>1. ExecInv /\ [ExecNext]_execVars => ExecInv'
  <2> SUFFICES ASSUME ExecInv, [ExecNext]_execVars PROVE ExecInv' OBVIOUS
  <2>1. CASE UNCHANGED execVars BY <2>1, ExecStutter
  <2>2. CASE ExecNext
    <3>1. QueueInv' BY <2>2, QueueNextInv
    <3>2. RowInv' BY <2>2, RowNextInv
    <3>3. RunInv' BY <2>2, RunNextInv
    <3>4. MiscInv' BY <2>2, MiscNextInv
    <3> QED BY <3>1, <3>2, <3>3, <3>4 DEF ExecInv
  <2> QED BY <2>1, <2>2
<1> QED BY <1>1, ExecInitInv, PTL DEF ExecSpec

(* Every variable of the executions keeps its type (ExecTypeOK).           *)
THEOREM ExecTypes == ExecSpec => []ExecTypeOK
<1>1. ExecInv => ExecTypeOK
    BY DEF ExecInv, QueueInv, RowInv, RunInv, MiscInv, ExecTypeOK
<1> QED BY <1>1, ExecInvariance, PTL

(* Usage is recorded once by each success and by nothing else, for any     *)
(* number of runs, takeovers, crashes, lost answers and overlapping        *)
(* resumes; a success that a stale retry has put back stays counted.       *)
THEOREM MeteredOnce == ExecSpec => []MeteredIffSucceeded
<1>1. ExecInv => MeteredIffSucceeded BY DEF ExecInv, RowInv
<1> QED BY <1>1, ExecInvariance, PTL

(* Nothing but a retry of a row that has changed since it was read writes  *)
(* over a result, makes the generation go back, or takes a row nobody ran  *)
(* from its failure for anything but to be run.                            *)
THEOREM ResultIsFinal == ExecSpec => OutcomeIsFinal
<1> DEFINE Stays(x) ==
        /\ exec'[x].generation >= exec[x].generation
        /\ Settled(exec[x]) => exec'[x] = exec[x]
        /\ Retryable(exec[x]) => exec'[x] = exec[x] \/ exec'[x].state = "queued"
<1>1. ASSUME ExecInv, [ExecNext]_execVars, NEW x \in Executions
      PROVE  WrittenOver(x) \/ Stays(x)
  <2>0. exec[x].generation \in Nat BY <1>1 DEF ExecInv, RowInv, ExecRow
  <2>1. CASE Kept(x) BY <2>0, <2>1 DEF Kept
  <2>2. CASE Moves(x) BY <2>2 DEF Moves, Settled, Retryable, Live
  <2>3. CASE IsRetried(x) BY <2>3 DEF IsRetried, Settled, Retryable
  <2>4. CASE ExecNext BY <1>1, <2>1, <2>2, <2>3, <2>4, NextAnyRow DEF AnyRowMoves
  <2>5. CASE UNCHANGED execVars BY <2>1, <2>5 DEF execVars, Kept
  <2> QED BY <1>1, <2>4, <2>5
<1>2. ExecInv /\ [ExecNext]_execVars =>
        [\A x \in Executions :
            \/ WrittenOver(x)
            \/ /\ exec'[x].generation >= exec[x].generation
               /\ Settled(exec[x]) => exec'[x] = exec[x]
               /\ Retryable(exec[x]) => exec'[x] = exec[x] \/ exec'[x].state = "queued"]_execVars
    BY <1>1
<1> QED BY <1>2, ExecInvariance, PTL DEF ExecSpec, OutcomeIsFinal

=============================================================================
