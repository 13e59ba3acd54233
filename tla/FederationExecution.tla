------------------------- MODULE FederationExecution -------------------------
(***************************************************************************)
(* The execution of an admitted federation step (ddp_corpus/federation.py  *)
(* admit, execute, cancel_execution, retry_execution; the federation half  *)
(* of reconcile.py; steps.py _local_execution_outcome).  One row of        *)
(* federation_executions is written by the handler of its queue task, by a *)
(* coordinator that runs or resumes the step itself, by cancellations and  *)
(* by the sweeps, all in sessions of their own.                            *)
(*                                                                         *)
(* The queue is what TaskLifecycle promises, no more: CorpusWorker refines *)
(* it.  A task may be taken again while an earlier run of it is alive, but *)
(* only a stall can cause that, and a stall is a fault.  Deadlines and     *)
(* exceptions end a run like a crash does: the row keeps its state and the *)
(* task is taken again or given up.                                        *)
(***************************************************************************)
EXTENDS Integers, FiniteSets

CONSTANTS
    Executions,     \* rows of federation_executions, also their dedupe keys
    MaxTasks,       \* bound: tasks that can ever be enqueued
    Coordinators,   \* resumes of the root task that may overlap
    NoKey, NoExec,
    TaskAttempts,   \* attempts of a queue task
    MaxGeneration,  \* bound: a row beyond this generation is not visited again
    MaxMishaps      \* bound: crashes, stalls and lost answers altogether

ASSUME ExecutionAssumption ==
    /\ NoKey \notin Executions /\ NoExec \notin Executions
    /\ MaxTasks \in Nat /\ TaskAttempts \in Nat \ {0}
    /\ MaxGeneration \in Nat /\ MaxMishaps \in Nat
    /\ Coordinators \cap (1 .. MaxTasks) \X (1 .. TaskAttempts) = {}

Tasks == 1 .. MaxTasks

VARIABLES
    exec,        \* execution -> its row
    wins,        \* execution -> writes of a success that recorded usage
    revived,     \* execution -> successes that a retry has written over since
    phase, owner, takes,   \* the queue, as TaskLifecycle has it
    payload,     \* task -> the execution it is for
    run,         \* run -> where it is and what it holds
    cancelling,  \* execution -> how far a cancel request has come
    found,       \* executions a sweep has found with a dead task
    mishaps

queueVars == <<phase, owner, takes, payload>>
execVars == <<exec, wins, revived, queueVars, run, cancelling, found, mishaps>>

Queue == INSTANCE TaskLifecycle WITH Keys <- Executions, MaxAttempts <- TaskAttempts

Live  == {"queued", "running"}
State == {"none", "succeeded", "failed", "cancelled"} \cup Live

(* error: "unrun" stands for the codes the sweeps leave, the members of    *)
(* RETRYABLE_EXECUTION_ERRORS; any other code is a result of the step.     *)
ExecRow == [state : State, generation : Nat, lease : {"none", "live", "expired"},
            error : {"none", "unrun", "result"}]

TaskRuns == Tasks \X (1 .. TaskAttempts)
RunId == TaskRuns \cup Coordinators

RunPC == {"none", "retry", "start", "claimed", "working", "failing", "over"}
Run == [pc : RunPC, of : Executions \cup {NoExec}, generation : Nat]

NoRun == [pc |-> "none", of |-> NoExec, generation |-> 0]

ExecInit ==
    /\ exec = [x \in Executions |-> [state |-> "none", generation |-> 0,
                                     lease |-> "none", error |-> "none"]]
    /\ wins = [x \in Executions |-> 0]
    /\ revived = [x \in Executions |-> 0]
    /\ Queue!Init
    /\ payload = [t \in Tasks |-> NoExec]
    /\ run = [r \in RunId |-> NoRun]
    /\ cancelling = [x \in Executions |-> "no"]
    /\ found = {}
    /\ mishaps = 0

Mishap == mishaps < MaxMishaps /\ mishaps' = mishaps + 1

Goto(r, pc) == run' = [run EXCEPT ![r].pc = pc]

(* queue.enqueue(): nothing happens while an open task holds the key.      *)
Enqueue(x) ==
    IF \E t \in Tasks : owner[t] = x
    THEN UNCHANGED queueVars
    ELSE \E t \in Tasks : /\ \A u \in 1 .. (t - 1) : phase[u] # "absent"
                          /\ Queue!Accept(t, x)
                          /\ payload' = [payload EXCEPT ![t] = x]

-----------------------------------------------------------------------------
(* Admission: receipt, row and task in one transaction.  A second request  *)
(* with the key returns the receipt and writes nothing.                    *)
Admit(x) ==
    /\ exec[x].state = "none"
    /\ exec' = [exec EXCEPT ![x].state = "queued", ![x].generation = 1]
    /\ Enqueue(x)
    /\ UNCHANGED <<wins, revived, run, cancelling, found, mishaps>>

(* The worker takes the task; the handler will run execute().              *)
Alive(t) == \E n \in 1 .. TaskAttempts : run[<<t, n>>].pc # "none"

TakeTask(t) ==
    /\ Queue!Take({t})
    /\ run' = [run EXCEPT ![<<t, takes[t] + 1>>] =
                  [pc |-> "start", of |-> payload[t], generation |-> 0]]
    /\ IF Alive(t) THEN Mishap ELSE UNCHANGED mishaps
    /\ UNCHANGED <<exec, wins, revived, payload, cancelling, found>>

(* The last attempt raises, or its lease is swept.                         *)
GiveUp(t) ==
    /\ takes[t] = TaskAttempts
    /\ Queue!Fail({t})
    /\ IF Alive(t) THEN Mishap ELSE UNCHANGED mishaps
    /\ UNCHANGED <<exec, wins, revived, payload, run, cancelling, found>>

Newest(r) == r \in TaskRuns /\ phase[r[1]] = "open" /\ takes[r[1]] = r[2]

(* execute() has returned, whatever became of the row: the handler returns *)
(* None and the task has succeeded, unless it is another run's by now.     *)
EndRun(r) ==
    /\ run[r].pc = "over"
    /\ run' = [run EXCEPT ![r] = NoRun]
    /\ IF Newest(r) THEN Queue!Succeed(r[1]) ELSE UNCHANGED <<phase, owner, takes>>
    /\ UNCHANGED <<exec, wins, revived, payload, cancelling, found, mishaps>>

(* The process ends, or an exception or a deadline ends the handler.       *)
CrashRun(r) ==
    /\ run[r].pc # "none" /\ Mishap
    /\ run' = [run EXCEPT ![r] = NoRun]
    /\ UNCHANGED <<exec, wins, revived, queueVars, cancelling, found>>

-----------------------------------------------------------------------------
(* execute().                                                              *)

ClaimableExecution(e) == e.state = "queued" \/ (e.state = "running" /\ e.lease = "expired")

ClaimExecution(r) ==
    /\ run[r].pc = "start"
    /\ LET x == run[r].of
       IN  IF ClaimableExecution(exec[x])
           THEN /\ exec' = [exec EXCEPT ![x].state = "running", ![x].lease = "live",
                                        ![x].generation = @ + 1]
                /\ Goto(r, "claimed")
           ELSE /\ Goto(r, "over")
                /\ UNCHANGED exec
    /\ UNCHANGED <<wins, revived, queueVars, cancelling, found, mishaps>>

(* The claim is committed before session.refresh() reads the generation    *)
(* back, which is by then whatever the row holds.                          *)
Refresh(r) ==
    /\ run[r].pc = "claimed"
    /\ run' = [run EXCEPT ![r].pc = "working",
                          ![r].generation = exec[run[r].of].generation]
    /\ UNCHANGED <<exec, wins, revived, queueVars, cancelling, found, mishaps>>

Fenced_GenerationOnly(e, r) == e.generation = r.generation

Fenced(e, r) == e.generation = r.generation /\ e.state \in Live

(* _finish_execution() with the success; usage only with the winning write.*)
WriteSuccess(r) ==
    LET x == run[r].of
    IN  IF Fenced(exec[x], run[r])
        THEN /\ exec' = [exec EXCEPT ![x].state = "succeeded", ![x].lease = "none",
                                     ![x].error = "none"]
             /\ wins' = [wins EXCEPT ![x] = @ + 1]
        ELSE UNCHANGED <<exec, wins>>

Succeed(r) ==
    /\ run[r].pc = "working"
    /\ WriteSuccess(r)
    /\ Goto(r, "over")
    /\ UNCHANGED <<revived, queueVars, cancelling, found, mishaps>>

(* The write raises, committed or not: execute() goes on to its except.    *)
SucceedUnanswered(r) ==
    /\ run[r].pc = "working" /\ Mishap
    /\ WriteSuccess(r) \/ UNCHANGED <<exec, wins>>
    /\ Goto(r, "failing")
    /\ UNCHANGED <<revived, queueVars, cancelling, found>>

WorkRaises(r) ==
    /\ run[r].pc = "working"
    /\ Goto(r, "failing")
    /\ UNCHANGED <<exec, wins, revived, queueVars, cancelling, found, mishaps>>

FinishFailed(r) ==
    /\ run[r].pc = "failing"
    /\ LET x == run[r].of
       IN  IF Fenced(exec[x], run[r])
           THEN exec' = [exec EXCEPT ![x].state = "failed", ![x].lease = "none",
                                     ![x].error = "result"]
           ELSE UNCHANGED exec
    /\ Goto(r, "over")
    /\ UNCHANGED <<wins, revived, queueVars, cancelling, found, mishaps>>

(* A lease runs out 300 s after its last renewal; while a run beats, only  *)
(* a stall lets it.  heartbeat_execution() looks at the state alone.       *)
Beating(x) == \E r \in RunId : run[r].of = x /\ run[r].pc \in {"working", "failing"}

LeaseRunsOut(x) ==
    /\ exec[x].state \in Live /\ exec[x].lease = "live"
    /\ exec' = [exec EXCEPT ![x].lease = "expired"]
    /\ IF /\ exec[x].state = "running"
          /\ \E r \in RunId : run[r].of = x /\ run[r].pc \notin {"start", "over", "retry"}
       THEN Mishap ELSE UNCHANGED mishaps
    /\ UNCHANGED <<wins, revived, queueVars, run, cancelling, found>>

HeartbeatExecution(x) ==
    /\ exec[x].state = "running" /\ exec[x].lease = "expired" /\ Beating(x)
    /\ exec' = [exec EXCEPT ![x].lease = "live"]
    /\ UNCHANGED <<wins, revived, queueVars, run, cancelling, found, mishaps>>

-----------------------------------------------------------------------------
(* A coordinator, which is one resume of the root task, visits the step:   *)
(* what is queued it runs itself, what no run could finish it puts back    *)
(* (_local_execution_outcome()).  Nothing makes a resume happen: the root  *)
(* task may have ended, and an execution admitted from a peer has none.    *)

Retryable(e) == e.state = "failed" /\ e.error = "unrun"

Visit(c, x) ==
    /\ run[c].pc = "none" /\ exec[x].generation <= MaxGeneration
    /\ \/ exec[x].state = "queued" /\
          run' = [run EXCEPT ![c] = [pc |-> "start", of |-> x, generation |-> 0]]
       \/ Retryable(exec[x]) /\
          run' = [run EXCEPT ![c] = [pc |-> "retry", of |-> x,
                                     generation |-> exec[x].generation]]
    /\ UNCHANGED <<exec, wins, revived, queueVars, cancelling, found, mishaps>>

(* retry_execution() flushes the row it has read, without a condition, and *)
(* does not look at what enqueue() returns.                                *)
RetryExecution(c) ==
    /\ run[c].pc = "retry"
    /\ LET x == run[c].of
       IN  /\ exec' = [exec EXCEPT ![x].state = "queued", ![x].error = "none",
                                   ![x].generation = run[c].generation + 1]
           /\ Enqueue(x)
           /\ revived' = IF exec[x].state = "succeeded"
                         THEN [revived EXCEPT ![x] = @ + 1] ELSE revived
    /\ Goto(c, "start")
    /\ UNCHANGED <<wins, cancelling, found, mishaps>>

-----------------------------------------------------------------------------
(* cancel_execution(): the row is read, then written by a conditional      *)
(* UPDATE, then the task is cancelled by its key in a further commit.      *)
CancelRequest(x) ==
    /\ cancelling[x] = "no" /\ exec[x].state # "none"
    /\ cancelling' = [cancelling EXCEPT ![x] =
                        IF exec[x].state \in Live THEN "decided" ELSE "written"]
    /\ UNCHANGED <<exec, wins, revived, queueVars, run, found, mishaps>>

CancelExecution(x) ==
    /\ cancelling[x] = "decided"
    /\ exec' = IF exec[x].state \in Live
               THEN [exec EXCEPT ![x].state = "cancelled", ![x].error = "result",
                                 ![x].lease = "none", ![x].generation = @ + 1]
               ELSE exec
    /\ cancelling' = [cancelling EXCEPT ![x] = "written"]
    /\ UNCHANGED <<wins, revived, queueVars, run, found, mishaps>>

CancelByDedupe(x) ==
    /\ cancelling[x] = "written"
    /\ cancelling' = [cancelling EXCEPT ![x] = "done"]
    /\ IF \E t \in Tasks : owner[t] = x
       THEN \E t \in Tasks : owner[t] = x /\ Queue!Cancel(t)
       ELSE UNCHANGED <<phase, owner, takes>>
    /\ UNCHANGED <<exec, wins, revived, payload, run, found, mishaps>>

CancelCrashes(x) ==
    /\ cancelling[x] \in {"decided", "written"} /\ Mishap
    /\ cancelling' = [cancelling EXCEPT ![x] = "done"]
    /\ UNCHANGED <<exec, wins, revived, queueVars, run, found>>

-----------------------------------------------------------------------------
(* The sweeps of reconcile.py.                                             *)

Unrun(x) == exec' = [exec EXCEPT ![x].state = "failed", ![x].error = "unrun",
                                 ![x].lease = "none", ![x].generation = @ + 1]

Abandoned_QueuedOnly(e) == e.state = "queued" /\ e.lease = "expired"

Abandoned(e) == e.state \in Live /\ e.lease = "expired"

SweepLease(x) ==
    /\ Abandoned(exec[x])
    /\ Unrun(x)
    /\ UNCHANGED <<wins, revived, queueVars, run, cancelling, found, mishaps>>

Waiting_NoLease(e) == e.lease = "none"

Waiting(e) == e.state = "queued" /\ e.lease = "none"

(* Of the tasks of a waiting row an open one counts first, and of several  *)
(* that have ended the first that the SELECT, which names no order, gives. *)
(* The row counts as dead when that one has failed or was cancelled.       *)
NoOpenTask(x) == \A t \in Tasks : payload[t] = x => phase[t] # "open"

DeadTask(x) ==
    /\ NoOpenTask(x)
    /\ \E t \in Tasks : payload[t] = x /\ phase[t] \in {"failed", "cancelled"}

FindDeadTask(x) ==
    /\ x \notin found /\ Waiting(exec[x]) /\ DeadTask(x)
    /\ found' = found \cup {x}
    /\ UNCHANGED <<exec, wins, revived, queueVars, run, cancelling, mishaps>>

MarkDeadTask(x) ==
    /\ x \in found
    /\ found' = found \ {x}
    /\ IF Waiting(exec[x]) THEN Unrun(x) ELSE UNCHANGED exec
    /\ UNCHANGED <<wins, revived, queueVars, run, cancelling, mishaps>>

-----------------------------------------------------------------------------
RunStep(r) ==
    \/ ClaimExecution(r) \/ Refresh(r) \/ Succeed(r) \/ WorkRaises(r)
    \/ FinishFailed(r) \/ EndRun(r)

Sweep(x) == SweepLease(x) \/ FindDeadTask(x) \/ MarkDeadTask(x)

Cancel(x) ==
    CancelRequest(x) \/ CancelExecution(x) \/ CancelByDedupe(x) \/ CancelCrashes(x)

ExecNext ==
    \/ \E r \in RunId : RunStep(r) \/ SucceedUnanswered(r) \/ CrashRun(r)
    \/ \E t \in Tasks : TakeTask(t) \/ GiveUp(t)
    \/ \E c \in Coordinators : RetryExecution(c) \/ \E x \in Executions : Visit(c, x)
    \/ \E x \in Executions : \/ Admit(x) \/ Cancel(x) \/ Sweep(x)
                             \/ LeaseRunsOut(x) \/ HeartbeatExecution(x)

ExecSpec == ExecInit /\ [][ExecNext]_execVars

(* A task of the row that has succeeded, found first, hides the dead ones. *)
Hidden(x) == \E t \in Tasks : payload[t] = x /\ phase[t] = "succeeded"

(* Workers take and end tasks, a run or a resume under way goes on, leases *)
(* run out, and the sweeps go round (reconcile_loop).  That anybody visits *)
(* a step again is not assumed, and a sweep is sure to find a dead task    *)
(* only where no task of the row has succeeded.                            *)
ExecFairness ==
    /\ \A r \in RunId : WF_execVars(RunStep(r))
    /\ \A c \in Coordinators : WF_execVars(RetryExecution(c))
    /\ \A t \in Tasks : WF_execVars(mishaps' = mishaps /\ (TakeTask(t) \/ GiveUp(t)))
    /\ \A x \in Executions : /\ WF_execVars(mishaps' = mishaps /\ LeaseRunsOut(x))
                             /\ WF_execVars(SweepLease(x))
                             /\ WF_execVars(~Hidden(x) /\ FindDeadTask(x))
                             /\ WF_execVars(MarkDeadTask(x))

FairExecSpec == ExecSpec /\ ExecFairness

-----------------------------------------------------------------------------
(* Properties.                                                             *)

(* Every variable keeps its type.                                          *)
ExecTypeOK ==
    /\ exec \in [Executions -> ExecRow]
    /\ wins \in [Executions -> Nat] /\ revived \in [Executions -> Nat]
    /\ run \in [RunId -> Run]
    /\ payload \in [Tasks -> Executions \cup {NoExec}]
    /\ cancelling \in [Executions -> {"no", "decided", "written", "done"}]
    /\ found \subseteq Executions
    /\ mishaps \in 0 .. MaxMishaps

Settled(e) == e.state \in {"succeeded", "cancelled"} \/ (e.state = "failed" /\ e.error = "result")

(* The row a retry is about to write is not the one it has read.           *)
StaleRetry(c) ==
    LET x == run[c].of
    IN  /\ run[c].pc = "retry"
        /\ ~(Retryable(exec[x]) /\ exec[x].generation = run[c].generation)

WrittenOver(x) ==
    \E c \in Coordinators : StaleRetry(c) /\ run[c].of = x /\ run'[c].pc = "start"

(* "A resumed stale attempt cannot overwrite a newer final state, and      *)
(* cancelled is terminal" (federation.py:20-21): late results, sweeps,     *)
(* cancels, takeovers and retries of the row as it is leave a settled row  *)
(* alone, the generation never goes back, and a failed row leaves only to  *)
(* be run again.  One write is excepted, the one of which it does not hold *)
(* (run two_resumes): that of a retry whose row has changed since it was   *)
(* read.                                                                   *)
OutcomeIsFinal ==
    [][\A x \in Executions :
          \/ WrittenOver(x)
          \/ /\ exec'[x].generation >= exec[x].generation
             /\ Settled(exec[x]) => exec'[x] = exec[x]
             /\ Retryable(exec[x]) => exec'[x] = exec[x] \/ exec'[x].state = "queued"]_execVars

(* The same promise for cancels alone, in the words of execute(): "cancel  *)
(* is terminal" (federation.py:21 and 1523-1524).                       *)
CancelledIsTerminal ==
    [][\A x \in Executions :
          exec[x].state = "cancelled" => exec'[x].state = "cancelled"]_execVars

(* Usage is recorded exactly by the writes that make a success, whatever   *)
(* runs, takeovers and lost answers it took: one for a row that has        *)
(* succeeded, and one for each success that a stale retry has written over *)
(* (federation.py:1487-1488).  That they bill once together is the outbox: *)
(* the ID of the event is made from the execution's.                       *)
MeteredIffSucceeded ==
    \A x \in Executions :
        wins[x] = revived[x] + IF exec[x].state = "succeeded" THEN 1 ELSE 0

(* A row that waits, without a task that would run it, behind one that has *)
(* succeeded: only a visit helps it.                                       *)
Stranded(x) == Waiting(exec[x]) /\ NoOpenTask(x) /\ Hidden(x)

(* Every admitted execution comes to an end, be it that nobody could run   *)
(* it, whatever crashes and though nobody visits it again: it does not     *)
(* stay queued or running (federation.py:14-17).  What the code leaves     *)
(* open is the row that is stranded.                                       *)
EveryExecutionEnds ==
    \A x \in Executions : exec[x].state \in Live ~> (exec[x].state \notin Live \/ Stranded(x))

=============================================================================
