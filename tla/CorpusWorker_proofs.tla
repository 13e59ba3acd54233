------------------------- MODULE CorpusWorker_proofs -------------------------
(* Proofs about CorpusWorker: its invariants and action properties hold for *)
(* every set of tasks, keys and workers, every attempts limit, concurrency *)
(* and number of restarts.                                                 *)
EXTENDS CorpusWorker, TLAPS

(* The inductive invariant.  KeyGuardsOpenTask and OpenRowIsReachable are   *)
(* part of it because the key and the lease of an open row are what the    *)
(* next statement on that row relies on.                                   *)
IInv ==
    /\ QueueTypeOK
    /\ FenceIsExclusive
    /\ GenerationCountsTakes
    /\ QueuedHasNoRun
    /\ OpenRowIsReachable
    /\ KeyGuardsOpenTask

USE TaskQueueAssumption, CorpusWorkerAssumption
    DEF Active, Terminal, Leased

LEMMA InitInv == QueueInit => IInv
BY SMT DEF QueueInit, IInv, QueueTypeOK, FenceIsExclusive, GenerationCountsTakes, QueuedHasNoRun,
    OpenRowIsReachable, KeyGuardsOpenTask, RowsInit, NoRow, TaskRow, LoopPC

-----------------------------------------------------------------------------
(* The invariant speaks of rows and runs.  These lemmas say what a change   *)
(* of either must satisfy to keep it, so that each action is left with its  *)
(* own statement on the table.                                             *)

RunsInv ==
    /\ runs \subseteq Run
    /\ FenceIsExclusive
    /\ QueuedHasNoRun
    /\ \A r \in runs : r.pc = "retrying" => r.generation < MaxAttempts

RowOK(row) ==
    /\ row \in TaskRow
    /\ row.generation = IF row.status = "cancelled" THEN row.attempts + 1
                                                    ELSE row.attempts
    /\ row.status = "absent" => row.attempts = 0
    /\ row.status = "queued" => row.attempts < MaxAttempts /\ row.lease = "none"
    /\ row.status \in Leased => row.lease # "none"
    /\ row.key # NoKey => row.status \in Active

RowsInv ==
    /\ DOMAIN rows = Tasks
    /\ rows = [t \in Tasks |-> rows[t]]
    /\ \A t \in Tasks : RowOK(rows[t])
    /\ \A t, u \in Tasks : rows[t].key # NoKey /\ rows[t].key = rows[u].key => t = u

LoopInv ==
    /\ loop \in [Workers -> LoopPC]
    /\ swept \in [Workers -> SUBSET Tasks]
    /\ restarts \in 0 .. MaxRestarts

LEMMA InvParts == IInv <=> RunsInv /\ RowsInv /\ LoopInv
BY SMT DEF IInv, RunsInv, RowsInv, RowOK, LoopInv, QueueTypeOK, FenceIsExclusive,
   GenerationCountsTakes, QueuedHasNoRun, OpenRowIsReachable, KeyGuardsOpenTask

LEMMA InvPartsNext == IInv' <=> RunsInv' /\ RowsInv' /\ LoopInv'
BY SMT DEF IInv, RunsInv, RowsInv, RowOK, LoopInv, QueueTypeOK, FenceIsExclusive,
   GenerationCountsTakes, QueuedHasNoRun, OpenRowIsReachable, KeyGuardsOpenTask

(* What the rows may do for the runs that move on or end beside them: no    *)
(* generation goes back, and no row returns to the queue under the         *)
(* generation of a run that is still there.                                *)
Forward ==
    \A t \in Tasks :
        /\ rows'[t].generation \in Nat
        /\ rows'[t].generation >= rows[t].generation
        /\ rows'[t].status = "queued" =>
              \A r \in runs' : r.task = t => r.generation < rows'[t].generation

LEMMA MoveInv ==
    ASSUME RunsInv, RowsInv, Forward, NEW r \in runs, NEW pc \in RunPC, Move(r, pc),
           pc = "retrying" => r.generation < MaxAttempts
    PROVE  RunsInv'
BY SMT DEF RunsInv, RowsInv, RowOK, TaskRow, Forward, Move, FenceIsExclusive, QueuedHasNoRun, Run

LEMMA EndInv ==
    ASSUME RunsInv, RowsInv, Forward, runs' \subseteq runs
    PROVE  RunsInv'
BY SMT DEF RunsInv, RowsInv, RowOK, TaskRow, Forward, FenceIsExclusive, QueuedHasNoRun, Run

LEMMA StillForward ==
    ASSUME RunsInv, RowsInv, UNCHANGED rows,
           \A r \in runs' : \E s \in runs : r.task = s.task /\ r.generation = s.generation
    PROVE  Forward
BY SMT DEF RunsInv, RowsInv, RowOK, TaskRow, Forward, QueuedHasNoRun

(* The rows each statement writes are good rows.                           *)
LEMMA QueuedOK ==
    ASSUME NEW k \in Keys \cup {NoKey}, NEW d \in BOOLEAN
    PROVE  RowOK(QueuedRow(k, d))
<1>0. 0 \in Nat /\ 0 \in 0 .. MaxAttempts
  BY SMT
<1>1. NoRow \in TaskRow /\ QueuedRow(k, d) \in TaskRow
  BY <1>0, Zenon DEF NoRow, QueuedRow, TaskRow
<1>2. /\ QueuedRow(k, d).status = "queued"
      /\ QueuedRow(k, d).generation = 0
      /\ QueuedRow(k, d).attempts = 0
      /\ QueuedRow(k, d).lease = "none"
  BY Zenon DEF NoRow, QueuedRow
<1>3. QED
  BY <1>1, <1>2, SMT DEF RowOK

LEMMA ClaimedOK ==
    ASSUME NEW row, RowOK(row), ClaimableRow(row)
    PROVE  RowOK(ClaimedRow(row))
<1>1. row.generation + 1 \in Nat /\ row.attempts + 1 \in 0 .. MaxAttempts
  BY SMT DEF RowOK, TaskRow, ClaimableRow
<1>2. ClaimedRow(row) \in TaskRow
  BY <1>1, Zenon DEF ClaimedRow, TaskRow, RowOK
<1>3. QED
  BY <1>2, SMT DEF RowOK, TaskRow, ClaimableRow, ClaimedRow

LEMMA CancelledOK ==
    ASSUME NEW row, RowOK(row), row.status \in Active
    PROVE  RowOK(CancelledRow(row))
<1>1. row.generation + 1 \in Nat
  BY SMT DEF RowOK, TaskRow
<1>2. CancelledRow(row) \in TaskRow
  BY <1>1, Zenon DEF CancelledRow, TaskRow, RowOK
<1>3. QED
  BY <1>2, SMT DEF RowOK, TaskRow, CancelledRow

LEMMA OutcomeOK ==
    ASSUME NEW row, RowOK(row), row.status \in Active
    PROVE  /\ RowOK(SucceededRow(row))
           /\ RowOK(FailedRow(row))
           /\ RowOK(PoisonedRow(row))
           /\ row.attempts < MaxAttempts => RowOK(RequeuedRow(row))
<1>1. /\ SucceededRow(row) \in TaskRow
      /\ FailedRow(row) \in TaskRow
      /\ PoisonedRow(row) \in TaskRow
      /\ RequeuedRow(row) \in TaskRow
  BY Zenon DEF SucceededRow, FailedRow, PoisonedRow, RequeuedRow, TaskRow, RowOK
<1>2. QED
  BY <1>1, SMT DEF RowOK, TaskRow, SucceededRow, FailedRow, PoisonedRow, RequeuedRow

LEMMA ClockOK ==
    ASSUME NEW row, RowOK(row)
    PROVE  /\ row.status \in Leased => RowOK(RenewedRow(row))
           /\ row.status \in Leased => RowOK([row EXCEPT !.lease = "expired"])
           /\ RowOK([row EXCEPT !.due = TRUE])
<1>1. /\ RenewedRow(row) \in TaskRow
      /\ [row EXCEPT !.lease = "expired"] \in TaskRow
      /\ [row EXCEPT !.due = TRUE] \in TaskRow
  BY Zenon DEF RenewedRow, TaskRow, RowOK
<1>2. QED
  BY <1>1, SMT DEF RowOK, TaskRow, RenewedRow

(* A statement that rewrites some rows, each to a good row that keeps its   *)
(* key or gives it back, keeps the table good.                             *)
LEMMA UpdateInv ==
    ASSUME RowsInv, rows' = [t \in Tasks |-> rows'[t]],
           \A t \in Tasks :
              \/ rows'[t] = rows[t]
              \/ RowOK(rows'[t]) /\ rows'[t].key \in {rows[t].key, NoKey}
    PROVE  RowsInv'
BY SMT DEF RowsInv

LEMMA RewriteInv ==
    ASSUME RunsInv, RowsInv, NEW t \in Tasks, NEW row, Rewrite(t, row),
           RowOK(row), row.key \in {rows[t].key, NoKey},
           row.generation >= rows[t].generation,
           row.status = "queued" =>
              \A r \in runs' : r.task = t => r.generation < row.generation,
           \A r \in runs' : \E s \in runs : r.task = s.task /\ r.generation = s.generation
    PROVE  RowsInv' /\ Forward
<1>1. /\ rows'[t] = row
      /\ \A u \in Tasks \ {t} : rows'[u] = rows[u]
      /\ rows' = [u \in Tasks |-> rows'[u]]
  BY SMT DEF Rewrite, RowsInv
<1>2. RowsInv'
  BY <1>1, UpdateInv
<1>3. Forward
  BY <1>1, SMT DEF Forward, RowsInv, RunsInv, RowOK, TaskRow, QueuedHasNoRun
<1>4. QED BY <1>2, <1>3

LEMMA RunsAreRuns ==
    ASSUME RunsInv, NEW r \in runs
    PROVE  /\ r \in Run
           /\ r.task \in Tasks
           /\ r.generation \in 1 .. rows[r.task].generation
BY SMT DEF RunsInv, Run, FenceIsExclusive

-----------------------------------------------------------------------------
(* One lemma for the steps of a run, one for a process, one for the rest.  *)

LEMMA RunStepInv ==
    ASSUME RunsInv, RowsInv, LoopInv, NEW r \in runs, RunStep(r)
    PROVE  RunsInv' /\ RowsInv' /\ LoopInv'
<1> DEFINE t == r.task
           row == rows[t]
<1>0. /\ r \in Run
      /\ t \in Tasks
      /\ RowOK(row)
      /\ row.generation \in Nat
  <2>1. r \in Run /\ t \in Tasks BY RunsAreRuns
  <2>2. RowOK(row) BY <2>1 DEF RowsInv
  <2>3. QED BY <2>1, <2>2, SMT DEF RowOK, TaskRow
<1>L. UNCHANGED <<loop, swept, restarts>> => LoopInv'
  BY SMT DEF LoopInv
<1>K. UNCHANGED rows => RowsInv'
  BY SMT DEF RowsInv, RowOK, TaskRow
<1>E. EndRun(r) => runs' \subseteq runs
  BY DEF EndRun
<1>T. ASSUME \/ runs' \subseteq runs
             \/ \E pc \in RunPC : Move(r, pc)
      PROVE  \A q \in runs' : \E s \in runs : q.task = s.task /\ q.generation = s.generation
  BY <1>T, <1>0, SMT DEF Move, Run
<1>M. ASSUME UNCHANGED rows, UNCHANGED <<loop, swept, restarts>>,
             \/ runs' \subseteq runs
             \/ \E pc \in RunPC : /\ Move(r, pc)
                                  /\ pc = "retrying" => r.generation < MaxAttempts
      PROVE  RunsInv' /\ RowsInv' /\ LoopInv'
  <2>1. Forward
    BY <1>M, <1>T, StillForward, Zenon
  <2>2. RunsInv'
    BY <1>M, <2>1, EndInv, MoveInv
  <2>3. QED BY <1>M, <2>2, <1>K, <1>L
<1>1. CASE HandlerEnds(r)
  BY <1>1, <1>M, Zenon DEF HandlerEnds, RunPC
<1>2. CASE Heartbeat(r)
  <2>1. /\ row.status \in Leased
        /\ Rewrite(t, RenewedRow(row))
        /\ runs' = runs
    BY <1>2 DEF Heartbeat, Holds
  <2>2. RenewedRow(row).key = row.key /\ RenewedRow(row).generation = row.generation
        /\ RenewedRow(row).status = "running"
    BY <1>0, SMT DEF RenewedRow, RowOK, TaskRow
  <2>3. RowOK(RenewedRow(row)) BY <1>0, <2>1, ClockOK
  <2>4. \A q \in runs' : \E s \in runs : q.task = s.task /\ q.generation = s.generation
    BY <2>1
  <2>5. RowsInv' /\ Forward
    BY <1>0, <2>1, <2>2, <2>3, <2>4, RewriteInv, SMT
  <2>6. QED BY <1>2, <2>1, <2>5, <1>L, EndInv DEF Heartbeat
<1>3. CASE HeartbeatRefused(r)
  BY <1>3, <1>M, <1>E, Zenon DEF HeartbeatRefused, RunPC
<1>4. CASE HeartbeatRaises(r)
  BY <1>4, <1>M, Zenon DEF HeartbeatRaises, RunPC
<1>5. CASE DeadlinePasses(r)
  <2> DEFINE late == [r EXCEPT !.overdue = TRUE]
  <2>1. /\ late \in Run
        /\ late.task = t
        /\ late.generation = r.generation
        /\ late.pc = "working"
    BY <1>5, <1>0, Zenon DEF DeadlinePasses, Run
  <2>2. runs' = (runs \ {r}) \cup {late} /\ UNCHANGED rows
    BY <1>5 DEF DeadlinePasses
  <2> HIDE DEF late
  <2>3. RunsInv'
    BY <2>1, <2>2, SMT DEF RunsInv, FenceIsExclusive, QueuedHasNoRun
  <2>4. QED BY <1>5, <2>3, <1>K, <1>L DEF DeadlinePasses
<1>6. CASE DeadlineStops(r)
  BY <1>6, <1>M, <1>E, Zenon DEF DeadlineStops, RunPC
<1>S. ASSUME Holds(t, r.generation), Rewrite(t, SucceededRow(row)),
             \/ runs' \subseteq runs
             \/ \E pc \in RunPC : Move(r, pc)
      PROVE  RowsInv' /\ Forward
  <2>1. SucceededRow(row).key = NoKey /\ SucceededRow(row).generation = row.generation
        /\ SucceededRow(row).status = "succeeded" /\ row.status \in Active
    BY <1>S, <1>0, SMT DEF SucceededRow, RowOK, TaskRow, Holds
  <2>2. QED
    BY <1>S, <1>0, <1>T, <2>1, OutcomeOK, RewriteInv, SMT
<1>7. CASE Succeed(r)
  <2>1. runs' \subseteq runs BY <1>7, <1>E DEF Succeed
  <2>2. CASE Holds(t, r.generation)
    BY <1>7, <2>1, <2>2, <1>S, <1>L, EndInv DEF Succeed
  <2>3. CASE ~Holds(t, r.generation)
    BY <1>7, <2>1, <2>3, <1>M DEF Succeed
  <2>4. QED BY <2>2, <2>3
<1>8. CASE SucceedRaises(r)
  <2>1. Move(r, "failing") /\ "failing" \in RunPC BY <1>8 DEF SucceedRaises, RunPC
  <2>2. CASE UNCHANGED rows
    BY <1>8, <2>1, <2>2, <1>M DEF SucceedRaises
  <2>3. CASE ~UNCHANGED rows
    BY <1>8, <2>1, <2>3, <1>S, <1>L, MoveInv DEF SucceedRaises
  <2>4. QED BY <2>2, <2>3
<1>9. CASE FailRead(r)
  <2>1. CASE ~MayFail(t, r.generation)
    BY <1>9, <2>1, <1>M, <1>E DEF FailRead
  <2>2. CASE MayFail(t, r.generation) /\ row.attempts < MaxAttempts
    <3>1. r.generation < MaxAttempts
      BY <1>0, <2>2, SMT DEF MayFail, RowOK, TaskRow
    <3>2. QED BY <1>9, <2>2, <3>1, <1>M, Zenon DEF FailRead, RunPC
  <2>3. CASE MayFail(t, r.generation) /\ ~(row.attempts < MaxAttempts)
    BY <1>9, <2>3, <1>M, Zenon DEF FailRead, RunPC
  <2>4. QED BY <2>1, <2>2, <2>3
<1>10. CASE FailWrite(r)
  <2>0. EndRun(r) /\ runs' \subseteq runs BY <1>10, <1>E DEF FailWrite
  <2>1. CASE ~MayFail(t, r.generation)
    BY <1>10, <2>0, <2>1, <1>M DEF FailWrite
  <2>2. CASE MayFail(t, r.generation) /\ r.pc = "retrying"
    <3>1. row.status \in Active /\ row.attempts < MaxAttempts
      <4>1. row.generation = r.generation /\ row.status \in Active
        BY <2>2 DEF MayFail
      <4>2. r.generation < MaxAttempts
        BY <2>2 DEF RunsInv
      <4>3. QED BY <1>0, <4>1, <4>2, SMT DEF RowOK, TaskRow
    <3>2. /\ RequeuedRow(row).key = row.key
          /\ RequeuedRow(row).generation = row.generation
      BY <1>0, SMT DEF RequeuedRow, RowOK, TaskRow
    <3>3. \A q \in runs' : q.task = t => q.generation < row.generation
      BY <1>0, <2>0, <2>2, SMT DEF EndRun, MayFail, RunsInv, FenceIsExclusive, Run
    <3>4. RowsInv' /\ Forward
      BY <1>0, <1>10, <1>T, <2>0, <2>2, <3>1, <3>2, <3>3, OutcomeOK, RewriteInv, SMT DEF FailWrite
    <3>5. QED BY <1>10, <2>0, <3>4, <1>L, EndInv DEF FailWrite
  <2>3. CASE MayFail(t, r.generation) /\ r.pc # "retrying"
    <3>1. /\ row.status \in Active
          /\ FailedRow(row).key = NoKey
          /\ FailedRow(row).generation = row.generation
          /\ FailedRow(row).status = "failed"
      BY <2>3, <1>0, SMT DEF MayFail, FailedRow, RowOK, TaskRow
    <3>2. RowsInv' /\ Forward
      BY <1>0, <1>10, <1>T, <2>0, <2>3, <3>1, OutcomeOK, RewriteInv, SMT DEF FailWrite
    <3>3. QED BY <1>10, <2>0, <3>2, <1>L, EndInv DEF FailWrite
  <2>4. QED BY <2>1, <2>2, <2>3
<1>11. CASE FailRaises(r)
  BY <1>11, <1>M, <1>E DEF FailRaises
<1>12. QED
  BY <1>1, <1>2, <1>3, <1>4, <1>5, <1>6, <1>7, <1>8, <1>9, <1>10, <1>11 DEF RunStep

LEMMA ClaimInv ==
    ASSUME RunsInv, RowsInv, NEW w \in Workers, NEW S \in SUBSET Claimable,
           ClaimRows(S), runs' = runs \cup {NewRun(w, t) : t \in S}
    PROVE  RunsInv' /\ RowsInv'
<1>1. ASSUME NEW t \in S
      PROVE  /\ t \in Tasks
             /\ RowOK(rows'[t])
             /\ rows'[t].key = rows[t].key
             /\ rows'[t].generation = rows[t].generation + 1
             /\ rows'[t].status = "claimed"
             /\ rows[t].generation \in Nat
  <2>1. t \in Tasks /\ ClaimableRow(rows[t])
    BY DEF Claimable
  <2>2. rows'[t] = ClaimedRow(rows[t])
    BY <2>1 DEF ClaimRows
  <2>3. RowOK(rows[t])
    BY <2>1 DEF RowsInv
  <2>4. RowOK(rows'[t])
    BY <2>1, <2>2, <2>3, ClaimedOK
  <2>5. QED
    BY <2>1, <2>2, <2>3, <2>4, SMT DEF ClaimedRow, RowOK, TaskRow
<1>2. \A t \in Tasks \ S : rows'[t] = rows[t]
  BY DEF ClaimRows
<1>3. RowsInv'
  BY <1>1, <1>2, UpdateInv DEF ClaimRows
<1>4. ASSUME NEW t \in S
      PROVE  /\ NewRun(w, t) \in Run
             /\ NewRun(w, t).task = t
             /\ NewRun(w, t).generation = rows'[t].generation
             /\ NewRun(w, t).pc = "working"
  BY <1>1, SMT DEF NewRun, Run, RunPC
<1>5. \A r \in runs' : \/ r \in runs
                       \/ \E t \in S : r = NewRun(w, t)
  OBVIOUS
<1>6. \A r \in runs : /\ r \in Run
                      /\ r.task \in Tasks
                      /\ r.generation \in 1 .. rows[r.task].generation
  BY RunsAreRuns
<1>7. /\ runs' \subseteq Run
      /\ \A r \in runs' : r.pc = "retrying" => r.generation < MaxAttempts
  BY <1>4, <1>5, Zenon DEF RunsInv
<1>8. FenceIsExclusive'
  BY <1>1, <1>2, <1>4, <1>5, <1>6, SMT DEF FenceIsExclusive, RunsInv
<1>9. QueuedHasNoRun'
  BY <1>1, <1>2, <1>4, <1>5, <1>6, SMT DEF QueuedHasNoRun, RunsInv
<1>10. QED BY <1>3, <1>7, <1>8, <1>9 DEF RunsInv

LEMMA SweepInv ==
    ASSUME RunsInv, RowsInv, NEW S \in SUBSET Tasks, SweepRows(S), UNCHANGED runs
    PROVE  RunsInv' /\ RowsInv'
<1>1. ASSUME NEW t \in Tasks, rows'[t] # rows[t]
      PROVE  /\ RowOK(rows'[t])
             /\ rows'[t].key = NoKey
             /\ rows'[t].generation = rows[t].generation
             /\ rows'[t].status = "failed"
  <2>1. rows[t].status \in Active /\ rows'[t] = PoisonedRow(rows[t]) /\ RowOK(rows[t])
    BY <1>1 DEF SweepRows, StillExhausted, RowsInv
  <2>2. RowOK(PoisonedRow(rows[t]))
    BY <2>1, OutcomeOK
  <2>3. QED
    BY <2>1, <2>2, SMT DEF PoisonedRow, RowOK, TaskRow
<1>2. RowsInv'
  BY <1>1, UpdateInv DEF SweepRows
<1>3. Forward
  BY <1>1, SMT DEF Forward, RowsInv, RowOK, TaskRow, RunsInv, QueuedHasNoRun
<1>4. QED BY <1>2, <1>3, EndInv

LEMMA LoopStepInv ==
    ASSUME RunsInv, RowsInv, LoopInv, NEW w \in Workers, LoopStep(w)
    PROVE  RunsInv' /\ RowsInv' /\ LoopInv'
<1>1. CASE ClaimTasks(w)
  <2>1. LoopInv' BY <1>1, SMT DEF ClaimTasks, LoopInv
  <2>2. QED BY <1>1, <2>1, ClaimInv DEF ClaimTasks
<1>2. CASE SweepUpdate(w)
  <2>1. LoopInv' BY <1>2, SMT DEF SweepUpdate, LoopInv, LoopPC
  <2>2. swept[w] \in SUBSET Tasks BY DEF LoopInv
  <2>3. QED BY <1>2, <2>1, <2>2, SweepInv DEF SweepUpdate
<1>3. ASSUME UNCHANGED rows, runs' \subseteq runs
      PROVE  RunsInv' /\ RowsInv'
  <2>1. Forward BY <1>3, StillForward, Zenon
  <2>2. RowsInv' BY <1>3, SMT DEF RowsInv, RowOK, TaskRow
  <2>3. QED BY <1>3, <2>1, <2>2, EndInv
<1>4. CASE ClaimNothing(w) \/ SweepSelect(w) \/ Start(w) \/ Stop(w) \/ Drained(w) \/ Crash(w)
  <2>1. UNCHANGED rows /\ runs' \subseteq runs
    BY <1>4 DEF ClaimNothing, SweepSelect, Start, Stop, Drained, Crash
  <2>2. LoopInv'
    BY <1>4, SMT DEF ClaimNothing, SweepSelect, Start, Stop, Drained, Crash, LoopInv, LoopPC,
       SweepCandidates
  <2>3. QED BY <2>1, <2>2, <1>3
<1>5. QED BY <1>1, <1>2, <1>4 DEF LoopStep

LEMMA RowStepInv ==
    ASSUME RunsInv, RowsInv, LoopInv, NEW t \in Tasks, RowStep(t)
    PROVE  RunsInv' /\ RowsInv' /\ LoopInv'
<1> DEFINE row == rows[t]
<1>0. RowOK(row) BY DEF RowsInv
<1>1. UNCHANGED runs /\ LoopInv'
  BY SMT DEF RowStep, EnqueueTask, CancelTask, Due, Expire, Rest, LoopInv
<1>2. \A r \in runs' : \E s \in runs : r.task = s.task /\ r.generation = s.generation
  BY <1>1
<1>3. CASE EnqueueTask(t)
  <2>1. PICK k \in Keys \cup {NoKey}, d \in BOOLEAN :
              KeyFree(k) /\ row.status = "absent" /\ Rewrite(t, QueuedRow(k, d))
    BY <1>3 DEF EnqueueTask, Enqueue
  <2>2. /\ RowOK(QueuedRow(k, d))
        /\ QueuedRow(k, d).key = k
        /\ QueuedRow(k, d).generation = 0
    BY QueuedOK, Zenon DEF QueuedRow, NoRow
  <2>3. rows'[t] = QueuedRow(k, d) /\ \A u \in Tasks \ {t} : rows'[u] = rows[u]
    BY <2>1, SMT DEF Rewrite, RowsInv
  <2>4. RowsInv'
    BY <2>1, <2>2, <2>3, SMT DEF RowsInv, Rewrite, KeyFree
  <2>5. row.generation = 0
    BY <1>0, <2>1, SMT DEF RowOK, TaskRow
  <2>6. \A r \in runs : r.task # t
    BY <2>5, RunsAreRuns, SMT
  <2>7. Forward
    BY <1>1, <2>2, <2>3, <2>5, <2>6, SMT DEF Forward, RowsInv, RowOK, TaskRow, RunsInv, QueuedHasNoRun
  <2>8. QED BY <1>1, <2>4, <2>7, EndInv
<1>4. CASE CancelTask(t)
  <2>1. row.status \in Active /\ Rewrite(t, CancelledRow(row))
    BY <1>4 DEF CancelTask, Cancel
  <2>2. RowOK(CancelledRow(row))
    BY <1>0, <2>1, CancelledOK
  <2>3. /\ CancelledRow(row).key = NoKey
        /\ CancelledRow(row).generation >= row.generation
        /\ CancelledRow(row).status # "queued"
    BY <1>0, SMT DEF CancelledRow, RowOK, TaskRow
  <2>4. RowsInv' /\ Forward
    BY <1>2, <2>1, <2>2, <2>3, RewriteInv
  <2>5. QED BY <1>1, <2>4, EndInv
<1>5. CASE Due(t)
  <2> DEFINE new == [row EXCEPT !.due = TRUE]
  <2>1. Rewrite(t, new)
    BY <1>5 DEF Due, BecomeDue
  <2>2. RowOK(new)
    BY <1>0, ClockOK
  <2>3. /\ new.key = row.key
        /\ new.generation = row.generation
        /\ new.generation >= row.generation
        /\ new.status = row.status
    BY <1>0, SMT DEF RowOK, TaskRow
  <2> HIDE DEF new
  <2>4. new.status = "queued" => \A r \in runs' : r.task = t => r.generation < new.generation
    BY <1>1, <2>3 DEF RunsInv, QueuedHasNoRun
  <2>5. RowsInv' /\ Forward
    BY <1>2, <2>1, <2>2, <2>3, <2>4, RewriteInv
  <2>6. QED BY <1>1, <2>5, EndInv
<1>6. CASE Expire(t)
  <2> DEFINE new == [row EXCEPT !.lease = "expired"]
  <2>1. Rewrite(t, new) /\ row.status \in Leased
    BY <1>6 DEF Expire, LeaseExpires
  <2>2. /\ RowOK(new)
        /\ new.key = row.key
        /\ new.generation >= row.generation
        /\ new.status # "queued"
    BY <1>0, <2>1, ClockOK, SMT DEF RowOK, TaskRow
  <2> HIDE DEF new
  <2>3. RowsInv' /\ Forward
    BY <1>2, <2>1, <2>2, RewriteInv
  <2>4. QED BY <1>1, <2>3, EndInv
<1>7. QED BY <1>3, <1>4, <1>5, <1>6 DEF RowStep

-----------------------------------------------------------------------------
(* The invariant.                                                          *)

LEMMA StepInv == IInv /\ [QueueNext]_queueVars => IInv'
<1> SUFFICES ASSUME RunsInv, RowsInv, LoopInv, [QueueNext]_queueVars
             PROVE  RunsInv' /\ RowsInv' /\ LoopInv'
  BY InvParts, InvPartsNext
<1>1. CASE UNCHANGED queueVars
  <2>1. Forward BY <1>1, StillForward, Zenon DEF queueVars
  <2>2. RunsInv' BY <1>1, <2>1, EndInv DEF queueVars
  <2>3. QED BY <1>1, <2>2, SMT DEF queueVars, RowsInv, RowOK, TaskRow, LoopInv
<1>2. CASE QueueNext
  BY <1>2, RunStepInv, LoopStepInv, RowStepInv DEF QueueNext
<1>3. QED BY <1>1, <1>2

THEOREM Invariance == QueueSpec => []IInv
BY InitInv, StepInv, PTL DEF QueueSpec

(* The types of the table, the runs and the loops.                         *)
THEOREM TypeCorrect == QueueSpec => []QueueTypeOK
<1>1. IInv => QueueTypeOK BY DEF IInv
<1>2. QED BY <1>1, Invariance, PTL

(* The safety invariants, each a conjunct of IInv.                         *)
THEOREM FenceCorrect == QueueSpec => [](FenceIsExclusive /\ GenerationCountsTakes)
<1>1. IInv => FenceIsExclusive /\ GenerationCountsTakes BY DEF IInv
<1>2. QED BY <1>1, Invariance, PTL

THEOREM RetriesCorrect == QueueSpec => [](QueuedHasNoRun /\ OpenRowIsReachable)
<1>1. IInv => QueuedHasNoRun /\ OpenRowIsReachable BY DEF IInv
<1>2. QED BY <1>1, Invariance, PTL

THEOREM KeysCorrect == QueueSpec => []KeyGuardsOpenTask
<1>1. IInv => KeyGuardsOpenTask BY DEF IInv
<1>2. QED BY <1>1, Invariance, PTL

-----------------------------------------------------------------------------
(* What a step does to the table, whoever takes it: the statements of the  *)
(* queue with the guards under which their callers reach them.             *)

Reported(r) ==
    \/ /\ Holds(r.task, r.generation)
       /\ \/ Rewrite(r.task, RenewedRow(rows[r.task]))
          \/ r.pc = "succeeding" /\ Rewrite(r.task, SucceededRow(rows[r.task]))
    \/ /\ MayFail(r.task, r.generation)
       /\ \/ Rewrite(r.task, RequeuedRow(rows[r.task]))
          \/ Rewrite(r.task, FailedRow(rows[r.task]))

TableStep ==
    \/ UNCHANGED rows
    \/ \E t \in Tasks, k \in Keys \cup {NoKey} : Enqueue(t, k)
    \/ \E S \in SUBSET Claimable : ClaimRows(S)
    \/ \E S \in SUBSET Tasks : SweepRows(S)
    \/ \E t \in Tasks : Cancel(t) \/ BecomeDue(t) \/ LeaseExpires(t)
    \/ \E r \in runs : Reported(r)

LEMMA StepOnTable == IInv /\ [QueueNext]_queueVars => TableStep
<1> SUFFICES ASSUME IInv, [QueueNext]_queueVars PROVE TableStep
  OBVIOUS
<1>1. CASE UNCHANGED queueVars
  BY <1>1 DEF queueVars, TableStep
<1>2. ASSUME NEW t \in Tasks, RowStep(t) PROVE TableStep
  BY <1>2 DEF RowStep, EnqueueTask, CancelTask, Due, Expire, TableStep
<1>3. ASSUME NEW w \in Workers, LoopStep(w) PROVE TableStep
  <2>1. CASE ClaimTasks(w) BY <2>1 DEF ClaimTasks, TableStep
  <2>2. CASE SweepUpdate(w)
    <3>1. swept[w] \in SUBSET Tasks BY DEF IInv, QueueTypeOK
    <3>2. QED BY <2>2, <3>1 DEF SweepUpdate, TableStep
  <2>3. CASE ClaimNothing(w) \/ SweepSelect(w) \/ Start(w) \/ Stop(w) \/ Drained(w) \/ Crash(w)
    BY <2>3 DEF ClaimNothing, SweepSelect, Start, Stop, Drained, Crash, TableStep
  <2>4. QED BY <1>3, <2>1, <2>2, <2>3 DEF LoopStep
<1>4. ASSUME NEW r \in runs, RunStep(r) PROVE TableStep
  <2>1. CASE Heartbeat(r) BY <2>1 DEF Heartbeat, TableStep, Reported
  <2>2. CASE Succeed(r) BY <2>2 DEF Succeed, TableStep, Reported
  <2>3. CASE SucceedRaises(r) BY <2>3 DEF SucceedRaises, TableStep, Reported
  <2>4. CASE FailWrite(r) BY <2>4 DEF FailWrite, TableStep, Reported
  <2>5. CASE HandlerEnds(r) \/ HeartbeatRefused(r) \/ HeartbeatRaises(r) \/ DeadlinePasses(r)
             \/ DeadlineStops(r) \/ FailRead(r) \/ FailRaises(r)
    BY <2>5 DEF HandlerEnds, HeartbeatRefused, HeartbeatRaises, DeadlinePasses, DeadlineStops,
       FailRead, FailRaises, TableStep
  <2>6. QED BY <1>4, <2>1, <2>2, <2>3, <2>4, <2>5 DEF RunStep
<1>5. QED BY <1>1, <1>2, <1>3, <1>4 DEF QueueNext

(* Which rows a statement touches: one that rewrites row t leaves the rest. *)
LEMMA RewriteTouches ==
    ASSUME IInv, NEW t \in Tasks, NEW row, Rewrite(t, row)
    PROVE  rows'[t] = row /\ \A u \in Tasks \ {t} : rows'[u] = rows[u]
BY SMT DEF Rewrite, IInv, QueueTypeOK

LEMMA RunsHaveTasks ==
    ASSUME IInv, NEW r \in runs
    PROVE  r.task \in Tasks /\ rows[r.task] \in TaskRow /\ r.generation \in 1 .. rows[r.task].generation
BY SMT DEF IInv, QueueTypeOK, FenceIsExclusive, Run

(* A terminal row is never written again.                                  *)
THEOREM TerminalRowsAreFinal == QueueSpec => TerminalIsFinal
<1>1. ASSUME IInv, [QueueNext]_queueVars, NEW t \in Tasks, rows[t].status \in Terminal
      PROVE  rows'[t] = rows[t]
  <2>1. ASSUME NEW u \in Tasks, NEW row, Rewrite(u, row), rows[u].status \notin Terminal
        PROVE  rows'[t] = rows[t]
    BY <1>1, <2>1, RewriteTouches
  <2>2. CASE \E u \in Tasks, k \in Keys \cup {NoKey} : Enqueue(u, k)
    BY <2>1, <2>2 DEF Enqueue
  <2>3. CASE \E S \in SUBSET Claimable : ClaimRows(S)
    BY <1>1, <2>3 DEF ClaimRows, Claimable, ClaimableRow
  <2>4. CASE \E S \in SUBSET Tasks : SweepRows(S)
    BY <1>1, <2>4 DEF SweepRows, StillExhausted
  <2>5. CASE \E u \in Tasks : Cancel(u) \/ BecomeDue(u) \/ LeaseExpires(u)
    BY <2>1, <2>5 DEF Cancel, BecomeDue, LeaseExpires
  <2>6. CASE \E r \in runs : Reported(r)
    BY <1>1, <2>1, <2>6, RunsHaveTasks DEF Reported, Holds, MayFail
  <2>7. QED BY <1>1, <2>2, <2>3, <2>4, <2>5, <2>6, StepOnTable DEF TableStep
<1>2. IInv /\ [QueueNext]_queueVars =>
        [\A t \in Tasks : rows[t].status \in Terminal => rows'[t] = rows[t]]_queueVars
  BY <1>1
<1>3. QED BY <1>2, Invariance, PTL DEF QueueSpec, TerminalIsFinal

(* Success is written by the newest run of the task and by no other.       *)
THEOREM NewestRunSucceeds == QueueSpec => OnlyNewestRunSucceeds
<1> DEFINE ByNewest(t) ==
        \E r \in runs :
           /\ r.task = t
           /\ r.pc = "succeeding"
           /\ \A s \in runs : s.task = t => s.generation <= r.generation
<1>1. ASSUME IInv, [QueueNext]_queueVars, NEW t \in Tasks,
             rows[t].status # "succeeded", rows'[t].status = "succeeded"
      PROVE  ByNewest(t)
  <2>0. rows[t] \in TaskRow BY <1>1 DEF IInv, QueueTypeOK
  <2>1. ASSUME NEW u \in Tasks, NEW row, Rewrite(u, row), row.status # "succeeded"
        PROVE  FALSE
    BY <1>1, <2>1, RewriteTouches
  <2>2. CASE \E u \in Tasks, k \in Keys \cup {NoKey} : Enqueue(u, k)
    <3>1. \A k \in Keys \cup {NoKey}, d \in BOOLEAN : QueuedRow(k, d).status # "succeeded"
      BY Zenon DEF QueuedRow, NoRow
    <3>2. QED BY <2>1, <2>2, <3>1 DEF Enqueue
  <2>3. CASE \E S \in SUBSET Claimable : ClaimRows(S)
    <3>1. rows'[t] = rows[t] \/ rows'[t] = ClaimedRow(rows[t]) BY <2>3 DEF ClaimRows
    <3>2. ClaimedRow(rows[t]).status # "succeeded" BY <2>0, SMT DEF ClaimedRow, TaskRow
    <3>3. QED BY <1>1, <3>1, <3>2
  <2>4. CASE \E S \in SUBSET Tasks : SweepRows(S)
    <3>1. rows'[t] = rows[t] \/ rows'[t] = PoisonedRow(rows[t]) BY <2>4 DEF SweepRows
    <3>2. PoisonedRow(rows[t]).status # "succeeded" BY <2>0, SMT DEF PoisonedRow, TaskRow
    <3>3. QED BY <1>1, <3>1, <3>2
  <2>5. CASE \E u \in Tasks : Cancel(u) \/ BecomeDue(u) \/ LeaseExpires(u)
    <3>1. PICK u \in Tasks : Cancel(u) \/ BecomeDue(u) \/ LeaseExpires(u) BY <2>5
    <3>2. rows[u] \in TaskRow BY <1>1 DEF IInv, QueueTypeOK
    <3>3. /\ CancelledRow(rows[u]).status = "cancelled"
          /\ [rows[u] EXCEPT !.due = TRUE].status = rows[u].status
          /\ [rows[u] EXCEPT !.lease = "expired"].status = rows[u].status
      BY <3>2, SMT DEF CancelledRow, TaskRow
    <3>4. rows[u].status \in Active BY <3>1 DEF Cancel, BecomeDue, LeaseExpires
    <3>5. QED BY <2>1, <3>1, <3>3, <3>4 DEF Cancel, BecomeDue, LeaseExpires
  <2>6. CASE \E r \in runs : Reported(r)
    <3>1. PICK r \in runs : Reported(r) BY <2>6
    <3>2. r.task \in Tasks /\ rows[r.task] \in TaskRow BY <1>1, RunsHaveTasks
    <3>3. /\ RenewedRow(rows[r.task]).status = "running"
          /\ RequeuedRow(rows[r.task]).status = "queued"
          /\ FailedRow(rows[r.task]).status = "failed"
      BY <3>2, SMT DEF RenewedRow, RequeuedRow, FailedRow, TaskRow
    <3>4. /\ r.pc = "succeeding"
          /\ Holds(r.task, r.generation)
          /\ Rewrite(r.task, SucceededRow(rows[r.task]))
      BY <2>1, <3>1, <3>2, <3>3 DEF Reported
    <3>5. r.task = t BY <1>1, <3>2, <3>4, RewriteTouches
    <3>6. \A s \in runs : s.task = t => s.generation <= r.generation
      BY <1>1, <3>4, <3>5, RunsHaveTasks, SMT DEF Holds
    <3>7. QED BY <3>4, <3>5, <3>6
  <2>7. QED BY <1>1, <2>2, <2>3, <2>4, <2>5, <2>6, StepOnTable DEF TableStep
<1>2. IInv /\ [QueueNext]_queueVars =>
        [\A t \in Tasks :
           rows[t].status # "succeeded" /\ rows'[t].status = "succeeded" => ByNewest(t)]_queueVars
  BY <1>1
<1>3. QED BY <1>2, Invariance, PTL DEF QueueSpec, OnlyNewestRunSucceeds

-----------------------------------------------------------------------------
(* CorpusWorker implements TaskLifecycle.                                  *)

(* Under the mapping, a row of the table is a task of the lifecycle.       *)
PhaseOf(row) == IF row.status \in Active THEN "open" ELSE row.status

LEMMA InitRefines == QueueInit => Lifecycle!Init
BY SMT DEF QueueInit, RowsInit, NoRow, Lifecycle!Init

LEMMA StepRefines == IInv /\ [QueueNext]_queueVars => [Lifecycle!Next]_(Lifecycle!vars)
<1> SUFFICES ASSUME IInv, TableStep PROVE [Lifecycle!Next]_(Lifecycle!vars)
  BY StepOnTable
<1> DEFINE phase == [t \in Tasks |-> PhaseOf(rows[t])]
           owner == [t \in Tasks |-> rows[t].key]
           takes == [t \in Tasks |-> rows[t].attempts]
<1>0. \A t \in Tasks : rows[t] \in TaskRow BY DEF IInv, QueueTypeOK
<1>A. ASSUME \A t \in Tasks : /\ PhaseOf(rows'[t]) = PhaseOf(rows[t])
                              /\ rows'[t].key = rows[t].key
                              /\ rows'[t].attempts = rows[t].attempts
      PROVE  UNCHANGED Lifecycle!vars
  BY <1>A, SMT DEF Lifecycle!vars, PhaseOf
<1>B. ASSUME NEW S \in SUBSET Tasks, NEW end,
             \A t \in S : /\ rows[t].status \in Active
                          /\ PhaseOf(rows'[t]) = end
                          /\ rows'[t].key = NoKey
                          /\ rows'[t].attempts = rows[t].attempts,
             \A t \in Tasks \ S : rows'[t] = rows[t]
      PROVE  Lifecycle!Close(S, end)
  BY <1>B, SMT DEF Lifecycle!Close, PhaseOf
<1>1. CASE UNCHANGED rows
  BY <1>1, <1>A
<1>2. CASE \E t \in Tasks, k \in Keys \cup {NoKey} : Enqueue(t, k)
  <2>1. PICK t \in Tasks, k \in Keys \cup {NoKey}, d \in BOOLEAN :
           rows[t].status = "absent" /\ KeyFree(k) /\ Rewrite(t, QueuedRow(k, d))
    BY <1>2 DEF Enqueue
  <2>2. /\ QueuedRow(k, d).status = "queued"
        /\ QueuedRow(k, d).key = k
        /\ QueuedRow(k, d).attempts = 0
    BY Zenon DEF QueuedRow, NoRow
  <2>3. rows[t].attempts = 0
    BY <2>1 DEF IInv, GenerationCountsTakes
  <2>4. rows'[t] = QueuedRow(k, d) /\ \A u \in Tasks \ {t} : rows'[u] = rows[u]
    BY <2>1, RewriteTouches
  <2>5. /\ phase[t] = "absent"
        /\ k = NoKey \/ \A u \in Tasks : owner[u] # k
    BY <2>1 DEF KeyFree, PhaseOf
  <2>6. /\ phase' = [phase EXCEPT ![t] = "open"]
        /\ owner' = [owner EXCEPT ![t] = k]
        /\ takes' = takes
    <3>1. PhaseOf(rows'[t]) = "open"
      BY <2>2, <2>4 DEF PhaseOf
    <3>2. phase' = [phase EXCEPT ![t] = "open"]
      BY <2>4, <3>1, Zenon
    <3>3. owner' = [owner EXCEPT ![t] = k]
      BY <2>2, <2>4, Zenon
    <3>4. takes' = takes
      BY <2>2, <2>3, <2>4, Zenon
    <3>5. QED BY <3>2, <3>3, <3>4
  <2>7. Lifecycle!Accept(t, k)
    BY <2>5, <2>6 DEF Lifecycle!Accept, PhaseOf
  <2>8. QED BY <2>7 DEF Lifecycle!Next
<1>3. CASE \E S \in SUBSET Claimable : ClaimRows(S)
  <2>1. PICK S \in SUBSET Claimable : ClaimRows(S) BY <1>3
  <2>2. ASSUME NEW t \in S
        PROVE  /\ t \in Tasks
               /\ rows[t].status \in Active
               /\ rows[t].attempts < MaxAttempts
               /\ rows'[t].status = "claimed"
               /\ rows'[t].key = rows[t].key
               /\ rows'[t].attempts = rows[t].attempts + 1
    <3>1. t \in Tasks /\ ClaimableRow(rows[t]) BY <2>1 DEF Claimable
    <3>2. rows'[t] = ClaimedRow(rows[t]) BY <2>1, <3>1 DEF ClaimRows
    <3>3. QED BY <1>0, <3>1, <3>2, SMT DEF ClaimableRow, ClaimedRow, TaskRow
  <2>3. \A t \in Tasks \ S : rows'[t] = rows[t] BY <2>1 DEF ClaimRows
  <2>4. Lifecycle!Take(S)
    BY <2>2, <2>3, SMT DEF Lifecycle!Take
  <2>5. S \in SUBSET Tasks BY <2>2
  <2>6. QED BY <2>4, <2>5 DEF Lifecycle!Next
<1>4. CASE \E S \in SUBSET Tasks : SweepRows(S)
  <2>1. PICK S \in SUBSET Tasks : SweepRows(S) BY <1>4
  <2>0. PICK F \in SUBSET Tasks : F = {t \in S : StillExhausted(t)} BY <2>1
  <2>2. ASSUME NEW t \in F
        PROVE  /\ t \in Tasks
               /\ rows[t].status \in Active
               /\ rows[t].attempts > 0
               /\ PhaseOf(rows'[t]) = "failed"
               /\ rows'[t].key = NoKey
               /\ rows'[t].attempts = rows[t].attempts
    <3>1. t \in Tasks /\ t \in S /\ StillExhausted(t) BY <2>0
    <3>2. rows'[t] = PoisonedRow(rows[t]) BY <2>1, <3>1 DEF SweepRows
    <3>3. QED BY <1>0, <3>1, <3>2, SMT DEF StillExhausted, PoisonedRow, PhaseOf, TaskRow
  <2>3. \A t \in Tasks \ F : rows'[t] = rows[t] BY <2>0, <2>1 DEF SweepRows
  <2>4. Lifecycle!Close(F, "failed") BY <1>B, <2>2, <2>3
  <2>5. Lifecycle!Fail(F) BY <2>2, <2>4, SMT DEF Lifecycle!Fail
  <2>6. QED BY <2>5 DEF Lifecycle!Next
<1>5. CASE \E t \in Tasks : Cancel(t) \/ BecomeDue(t) \/ LeaseExpires(t)
  <2>1. PICK t \in Tasks : Cancel(t) \/ BecomeDue(t) \/ LeaseExpires(t) BY <1>5
  <2>2. CASE Cancel(t)
    <3>1. rows[t].status \in Active /\ Rewrite(t, CancelledRow(rows[t])) BY <2>2 DEF Cancel
    <3>2. /\ PhaseOf(CancelledRow(rows[t])) = "cancelled"
          /\ CancelledRow(rows[t]).key = NoKey
          /\ CancelledRow(rows[t]).attempts = rows[t].attempts
      BY <1>0, SMT DEF CancelledRow, PhaseOf, TaskRow
    <3>3. /\ rows'[t] = CancelledRow(rows[t])
          /\ \A u \in Tasks \ {t} : rows'[u] = rows[u]
      BY <3>1, RewriteTouches
    <3>4. Lifecycle!Close({t}, "cancelled") BY <1>B, <3>1, <3>2, <3>3
    <3>5. QED BY <3>4 DEF Lifecycle!Next, Lifecycle!Cancel
  <2>3. CASE BecomeDue(t) \/ LeaseExpires(t)
    <3> DEFINE due == [rows[t] EXCEPT !.due = TRUE]
               expired == [rows[t] EXCEPT !.lease = "expired"]
    <3>1. \A row \in {due, expired} : /\ row.status = rows[t].status
                                      /\ row.key = rows[t].key
                                      /\ row.attempts = rows[t].attempts
      BY <1>0, SMT DEF TaskRow
    <3>2. \E row \in {due, expired} : Rewrite(t, row)
      BY <2>3 DEF BecomeDue, LeaseExpires
    <3> HIDE DEF due, expired
    <3>3. QED BY <1>A, <3>1, <3>2, RewriteTouches DEF PhaseOf
  <2>4. QED BY <2>1, <2>2, <2>3
<1>6. CASE \E r \in runs : Reported(r)
  <2>1. PICK r \in runs : Reported(r) BY <1>6
  <2> DEFINE t == r.task
             row == rows[t]
  <2>2. t \in Tasks /\ r.generation \in 1 .. row.generation BY RunsHaveTasks
  <2>3. row.status \in Active /\ row.generation = r.generation
    BY <2>1 DEF Reported, Holds, MayFail
  <2>4. row.attempts > 0
    BY <1>0, <2>2, <2>3, SMT DEF IInv, GenerationCountsTakes, TaskRow
  <2>5. /\ \A new \in {RenewedRow(row), RequeuedRow(row)} :
              new.status \in Active /\ new.key = row.key
        /\ \A new \in {SucceededRow(row), FailedRow(row)} : new.key = NoKey
        /\ \A new \in {RenewedRow(row), RequeuedRow(row), SucceededRow(row), FailedRow(row)} :
              new.attempts = row.attempts
        /\ SucceededRow(row).status = "succeeded"
        /\ FailedRow(row).status = "failed"
    BY <1>0, <2>2, SMT DEF RenewedRow, RequeuedRow, SucceededRow, FailedRow, TaskRow
  <2>6. CASE Rewrite(t, RenewedRow(row)) \/ Rewrite(t, RequeuedRow(row))
    BY <1>A, <2>2, <2>3, <2>5, <2>6, RewriteTouches DEF PhaseOf
  <2>7. CASE Rewrite(t, SucceededRow(row))
    <3>1. Lifecycle!Close({t}, "succeeded")
      BY <1>B, <2>2, <2>3, <2>5, <2>7, RewriteTouches DEF PhaseOf
    <3>2. QED BY <2>2, <2>4, <3>1 DEF Lifecycle!Next, Lifecycle!Succeed
  <2>8. CASE Rewrite(t, FailedRow(row))
    <3>1. Lifecycle!Close({t}, "failed")
      BY <1>B, <2>2, <2>3, <2>5, <2>8, RewriteTouches DEF PhaseOf
    <3>2. QED BY <2>2, <2>4, <3>1 DEF Lifecycle!Next, Lifecycle!Fail
  <2>9. QED BY <2>1, <2>6, <2>7, <2>8 DEF Reported
<1>7. QED BY <1>1, <1>2, <1>3, <1>4, <1>5, <1>6 DEF TableStep

(* Whoever enqueues and cancels sees only the lifecycle of TaskLifecycle.  *)
THEOREM ImplementsLifecycle == QueueSpec => KeepsLifecycle
BY InitRefines, StepRefines, Invariance, PTL DEF QueueSpec, KeepsLifecycle, Lifecycle!Spec

=============================================================================
