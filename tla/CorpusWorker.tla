---------------------------- MODULE CorpusWorker ----------------------------
(***************************************************************************)
(* The corpus worker (services/corpus-worker/ddp_worker/runner.py): worker *)
(* processes that claim rows of the TaskQueue, run a handler for each with *)
(* a heartbeat beside it, and write the outcome back.                      *)
(*                                                                         *)
(* A run is one call of run_one().  It is identified by its task and the   *)
(* generation it claimed, and its pc says where it stands:                 *)
(*   "working"     the handler and the heartbeat coroutine are alive       *)
(*   "succeeding"  the handler returned, succeed() is about to be called   *)
(*   "failing"     fail() is about to read the row                         *)
(*   "retrying"    fail() read attempts below the maximum                  *)
(*   "giving_up"   fail() read attempts at the maximum                     *)
(* Between "failing" and the last two lies the gap between the SELECT and  *)
(* the UPDATE of fail(), where a cancel or a sweep can fall.               *)
(*                                                                         *)
(* One pool stands for the pools of a process: each pool claims only its   *)
(* own kind and has its own concurrency, so pools share nothing.           *)
(***************************************************************************)
EXTENDS TaskQueue, FiniteSets

CONSTANTS
    Workers,       \* worker processes (replicas)
    Concurrency,   \* the pool's concurrency
    MaxRestarts    \* bound on the crashes and stops the model explores

ASSUME CorpusWorkerAssumption ==
    /\ Concurrency \in Nat \ {0}
    /\ MaxRestarts \in Nat

VARIABLES
    runs,          \* the runs alive in some process
    loop,          \* where the main loop of each process stands
    swept,         \* the identities sweep_exhausted() selected, per process
    restarts       \* crashes and stops so far

queueVars == <<rows, runs, loop, swept, restarts>>

-----------------------------------------------------------------------------

RunPC == {"working", "succeeding", "failing", "retrying", "giving_up"}
LoopPC == {"claim", "idle", "sweep", "draining", "down"}

Run == [worker : Workers, task : Tasks, generation : Nat,
        pc : RunPC, overdue : BOOLEAN]

QueueInit ==
    /\ RowsInit
    /\ runs = {}
    /\ loop = [w \in Workers |-> "down"]
    /\ swept = [w \in Workers |-> {}]
    /\ restarts = 0

RunsOf(w) == {r \in runs : r.worker = w}
Free(w)   == Concurrency - Cardinality(RunsOf(w))

Move(r, pc) == runs' = (runs \ {r}) \cup {[r EXCEPT !.pc = pc]}
EndRun(r)   == runs' = runs \ {r}

NewRun(w, t) == [worker |-> w, task |-> t, generation |-> rows[t].generation + 1,
                 pc |-> "working", overdue |-> FALSE]

-----------------------------------------------------------------------------
(* The main loop: claim as many rows as there are free places; an empty    *)
(* round sweeps the exhausted rows.                                        *)

ClaimTasks(w) ==
    /\ loop[w] = "claim"
    /\ Free(w) > 0
    /\ \E S \in SUBSET Claimable :
          /\ S # {}
          /\ \/ Cardinality(S) = Free(w)
             \/ Cardinality(S) < Free(w) /\ S = Claimable
          /\ ClaimRows(S)
          /\ runs' = runs \cup {NewRun(w, t) : t \in S}
    /\ UNCHANGED <<loop, swept, restarts>>

ClaimNothing(w) ==
    /\ loop[w] = "claim"
    /\ Free(w) <= 0 \/ Claimable = {}
    /\ loop' = [loop EXCEPT ![w] = "idle"]
    /\ UNCHANGED <<rows, runs, swept, restarts>>

SweepSelect(w) ==
    /\ loop[w] = "idle"
    /\ loop' = [loop EXCEPT ![w] = IF SweepCandidates = {} THEN "claim" ELSE "sweep"]
    /\ swept' = [swept EXCEPT ![w] = SweepCandidates]
    /\ UNCHANGED <<rows, runs, restarts>>

SweepUpdate(w) ==
    /\ loop[w] = "sweep"
    /\ SweepRows(swept[w])
    /\ loop' = [loop EXCEPT ![w] = "claim"]
    /\ swept' = [swept EXCEPT ![w] = {}]
    /\ UNCHANGED <<runs, restarts>>

-----------------------------------------------------------------------------
(* run_one(): the handler and the heartbeat race, the first to end decides. *)

HandlerEnds(r) ==
    /\ r.pc = "working"
    /\ \/ Move(r, "succeeding")       \* runner.result() returned
       \/ Move(r, "failing")          \* the handler raised
    /\ UNCHANGED <<rows, loop, swept, restarts>>

Heartbeat(r) ==
    /\ r.pc = "working"
    /\ ~r.overdue
    /\ Holds(r.task, r.generation)
    /\ Rewrite(r.task, RenewedRow(rows[r.task]))
    /\ UNCHANGED <<runs, loop, swept, restarts>>

(* The lease is lost: the run stops and writes nothing, unless the deadline *)
(* passed meanwhile and the handler is still busy; then it takes the        *)
(* timeout path and its fail() meets the fence.                             *)
HeartbeatRefused(r) ==
    /\ r.pc = "working"
    /\ ~r.overdue
    /\ ~Holds(r.task, r.generation)
    /\ EndRun(r) \/ Move(r, "failing")
    /\ UNCHANGED <<rows, loop, swept, restarts>>

(* The database raises in the heartbeat.  A renewal it had committed before *)
(* is a Heartbeat step before this one.                                     *)
HeartbeatRaises(r) ==
    /\ r.pc = "working"
    /\ ~r.overdue
    /\ Move(r, "failing")
    /\ UNCHANGED <<rows, loop, swept, restarts>>

DeadlinePasses(r) ==
    /\ r.pc = "working"
    /\ ~r.overdue
    /\ runs' = (runs \ {r}) \cup {[r EXCEPT !.overdue = TRUE]}
    /\ UNCHANGED <<rows, loop, swept, restarts>>

(* Past the deadline the heartbeat stops.  If the handler has ended by the *)
(* time both are looked at, the run returns without writing an outcome.    *)
DeadlineStops(r) ==
    /\ r.pc = "working"
    /\ r.overdue
    /\ Move(r, "failing") \/ EndRun(r)
    /\ UNCHANGED <<rows, loop, swept, restarts>>

Succeed(r) ==
    /\ r.pc = "succeeding"
    /\ IF Holds(r.task, r.generation)
       THEN Rewrite(r.task, SucceededRow(rows[r.task]))
       ELSE UNCHANGED rows
    /\ EndRun(r)
    /\ UNCHANGED <<loop, swept, restarts>>

(* The database raises; whether the statement was committed is unknown.    *)
SucceedRaises(r) ==
    /\ r.pc = "succeeding"
    /\ \/ Holds(r.task, r.generation) /\ Rewrite(r.task, SucceededRow(rows[r.task]))
       \/ UNCHANGED rows
    /\ Move(r, "failing")
    /\ UNCHANGED <<loop, swept, restarts>>

FailRead_OffByOne(r) ==
    /\ r.pc = "failing"
    /\ IF ~MayFail(r.task, r.generation) THEN EndRun(r)
       ELSE IF rows[r.task].attempts <= MaxAttempts THEN Move(r, "retrying")
       ELSE Move(r, "giving_up")
    /\ UNCHANGED <<rows, loop, swept, restarts>>

FailRead(r) ==
    /\ r.pc = "failing"
    /\ IF ~MayFail(r.task, r.generation) THEN EndRun(r)
       ELSE IF rows[r.task].attempts < MaxAttempts THEN Move(r, "retrying")
       ELSE Move(r, "giving_up")
    /\ UNCHANGED <<rows, loop, swept, restarts>>

FailWrite(r) ==
    /\ r.pc \in {"retrying", "giving_up"}
    /\ IF ~MayFail(r.task, r.generation) THEN UNCHANGED rows
       ELSE IF r.pc = "retrying" THEN Rewrite(r.task, RequeuedRow(rows[r.task]))
       ELSE Rewrite(r.task, FailedRow(rows[r.task]))
    /\ EndRun(r)
    /\ UNCHANGED <<loop, swept, restarts>>

(* fail() itself raises: the exception leaves run_one() and only the lease *)
(* remains.                                                                *)
FailRaises(r) ==
    /\ r.pc \in {"failing", "retrying", "giving_up"}
    /\ EndRun(r)
    /\ UNCHANGED <<rows, loop, swept, restarts>>

-----------------------------------------------------------------------------
(* Processes: start, SIGTERM with its drain, and a crash that takes every  *)
(* run of the process with it.  An exception in claim() or in the sweep    *)
(* ends the process the same way.                                          *)

Start(w) ==
    /\ loop[w] = "down"
    /\ loop' = [loop EXCEPT ![w] = "claim"]
    /\ UNCHANGED <<rows, runs, swept, restarts>>

Stop(w) ==
    /\ loop[w] = "claim"
    /\ restarts < MaxRestarts
    /\ loop' = [loop EXCEPT ![w] = "draining"]
    /\ restarts' = restarts + 1
    /\ UNCHANGED <<rows, runs, swept>>

Drained(w) ==
    /\ loop[w] = "draining"
    /\ RunsOf(w) = {}
    /\ loop' = [loop EXCEPT ![w] = "down"]
    /\ UNCHANGED <<rows, runs, swept, restarts>>

Crash(w) ==
    /\ loop[w] # "down"
    /\ restarts < MaxRestarts
    /\ runs' = runs \ RunsOf(w)
    /\ loop' = [loop EXCEPT ![w] = "down"]
    /\ swept' = [swept EXCEPT ![w] = {}]
    /\ restarts' = restarts + 1
    /\ UNCHANGED rows

-----------------------------------------------------------------------------
(* The clients of the queue and the clock act on the rows alone.           *)

Rest == <<runs, loop, swept, restarts>>

EnqueueTask(t) == (\E k \in Keys \cup {NoKey} : Enqueue(t, k)) /\ UNCHANGED Rest
CancelTask(t)  == Cancel(t) /\ UNCHANGED Rest
Due(t)         == BecomeDue(t) /\ UNCHANGED Rest
Expire(t)      == LeaseExpires(t) /\ UNCHANGED Rest

RunStep(r) ==
    \/ HandlerEnds(r) \/ Heartbeat(r) \/ HeartbeatRefused(r) \/ HeartbeatRaises(r)
    \/ DeadlinePasses(r) \/ DeadlineStops(r)
    \/ Succeed(r) \/ SucceedRaises(r)
    \/ FailRead(r) \/ FailWrite(r) \/ FailRaises(r)

LoopStep(w) ==
    \/ ClaimTasks(w) \/ ClaimNothing(w) \/ SweepSelect(w) \/ SweepUpdate(w)
    \/ Start(w) \/ Stop(w) \/ Drained(w) \/ Crash(w)

RowStep(t) == EnqueueTask(t) \/ CancelTask(t) \/ Due(t) \/ Expire(t)

QueueNext ==
    \/ \E t \in Tasks : RowStep(t)
    \/ \E w \in Workers : LoopStep(w)
    \/ \E r \in runs : RunStep(r)

QueueSpec == QueueInit /\ [][QueueNext]_queueVars

-----------------------------------------------------------------------------
(* Fairness.  A process that is up goes round its loop and one that is down *)
(* is brought back; every run is a coroutine the event loop schedules, and  *)
(* its deadline is wall-clock time; a backoff runs out; and a lease runs    *)
(* out once nothing can renew it any more.  Nothing is assumed of handlers  *)
(* (they may hang), of heartbeats, of clients or of the database's errors.  *)

Round(w) ==
    \/ ClaimTasks(w) \/ ClaimNothing(w) \/ SweepSelect(w) \/ SweepUpdate(w)
    \/ Start(w) \/ Drained(w)

Progress(t, g) ==
    \E r \in runs :
        /\ r.task = t
        /\ r.generation = g
        /\ \/ DeadlinePasses(r) \/ DeadlineStops(r)
           \/ Succeed(r) \/ FailRead(r) \/ FailWrite(r)

Renewable(t) ==
    \E r \in runs : /\ r.task = t
                    /\ r.generation = rows[t].generation
                    /\ r.pc = "working"
                    /\ ~r.overdue

ExpireUnrenewed(t) == ~Renewable(t) /\ Expire(t)

QueueFairness ==
    /\ \A w \in Workers : WF_queueVars(Round(w))
    /\ \A t \in Tasks, g \in 1 .. MaxAttempts : WF_queueVars(Progress(t, g))
    /\ \A t \in Tasks : WF_queueVars(Due(t)) /\ WF_queueVars(ExpireUnrenewed(t))

FairQueueSpec == QueueSpec /\ QueueFairness

-----------------------------------------------------------------------------
(* Properties.                                                             *)

(* Every variable keeps its type: the rows of the table, the runs of the   *)
(* processes and the state of each main loop.                              *)
QueueTypeOK ==
    /\ rows \in [Tasks -> TaskRow]
    /\ runs \subseteq Run
    /\ loop \in [Workers -> LoopPC]
    /\ swept \in [Workers -> SUBSET Tasks]
    /\ restarts \in 0 .. MaxRestarts

(* The fencing token is exact: no run holds a generation the queue has not *)
(* given out, and no two runs, in whatever processes, hold the same one.   *)
(* This is what makes "generation = mine" in succeed() and fail() mean     *)
(* "nobody has taken the task over since I claimed it".                    *)
FenceIsExclusive ==
    /\ \A r \in runs : r.generation \in 1 .. rows[r.task].generation
    /\ \A r, s \in runs :
          r.task = s.task /\ r.generation = s.generation => r = s

(* The fencing token counts the times a task was taken, and a cancel moves *)
(* it once more.  So the attempts limit read by fail() still holds when it *)
(* writes: as long as the generation is its own, the count cannot have     *)
(* moved in between.                                                       *)
GenerationCountsTakes ==
    /\ \A t \in Tasks :
          /\ rows[t].generation = IF rows[t].status = "cancelled"
                                  THEN rows[t].attempts + 1
                                  ELSE rows[t].attempts
          /\ rows[t].status = "absent" => rows[t].attempts = 0
    /\ \A r \in runs : r.pc = "retrying" => r.generation < MaxAttempts

(* While a row waits in the queue, no run anywhere still carries its       *)
(* generation: fail() accepts a run's generation on a queued row, so a run *)
(* left over from before a retry was arranged could end the retry.         *)
QueuedHasNoRun ==
    \A r \in runs : rows[r.task].status = "queued"
                       => r.generation < rows[r.task].generation

(* No open row is out of everybody's reach: a queued row may still be      *)
(* claimed (the gap between the read and the write of fail() never queues  *)
(* a row with its attempts used up, which claim() would skip for ever),    *)
(* and a claimed or running row has a lease, whose expiry hands it to      *)
(* claim() or to the sweep.                                                *)
OpenRowIsReachable ==
    \A t \in Tasks :
        /\ rows[t].status = "queued" =>
              rows[t].attempts < MaxAttempts /\ rows[t].lease = "none"
        /\ rows[t].status \in Leased => rows[t].lease # "none"

(* A dedupe key belongs to one open task at most, and a task that ended,   *)
(* by whichever of the four ways, has given its key back: a user's next    *)
(* request is neither run twice nor swallowed by a task that is over.      *)
KeyGuardsOpenTask ==
    \A t \in Tasks : rows[t].key # NoKey =>
        /\ rows[t].status \in Active
        /\ \A u \in Tasks : rows[u].key = rows[t].key => u = t

(* A row that reached succeeded, failed or cancelled is never written      *)
(* again: not by a late heartbeat, a late outcome, a second cancel, a      *)
(* claim, or a sweep that had selected the row while it was open.          *)
TerminalIsFinal ==
    [][\A t \in Tasks : rows[t].status \in Terminal => rows'[t] = rows[t]]_queueVars

(* Success is written only by a run whose handler returned and that is the *)
(* latest taker of the task: no run of the task holds a newer generation.  *)
OnlyNewestRunSucceeds ==
    [][\A t \in Tasks :
          rows[t].status # "succeeded" /\ rows'[t].status = "succeeded" =>
             \E r \in runs :
                /\ r.task = t
                /\ r.pc = "succeeding"
                /\ \A s \in runs : s.task = t => s.generation <= r.generation]_queueVars

(* The queue and its workers keep the promises of TaskLifecycle.           *)
Lifecycle == INSTANCE TaskLifecycle WITH
    phase <- [t \in Tasks |-> IF rows[t].status \in Active THEN "open"
                                                           ELSE rows[t].status],
    owner <- [t \in Tasks |-> rows[t].key],
    takes <- [t \in Tasks |-> rows[t].attempts]

KeepsLifecycle == Lifecycle!Spec

(* A restart never loses an accepted task nor leaves it running for ever:  *)
(* whatever crashes, hangs or errors happen, every accepted task ends.     *)
EveryTaskEnds ==
    \A t \in Tasks : rows[t].status \in Active ~> rows[t].status \in Terminal

(* The docstring of sweep_exhausted(): a row within its lease is being     *)
(* worked on, and the sweep must not take that work away.                  *)
SweepSparesLeasedRows ==
    [][\A t \in Tasks :
          rows[t].status \in Leased /\ rows'[t].error = "poison"
             => rows[t].lease # "live"]_queueVars

=============================================================================
