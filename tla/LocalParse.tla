----------------------------- MODULE LocalParse -----------------------------
(***************************************************************************)
(* The durable parse tasks of a local workspace (ddp_local/store.py and    *)
(* runtime.py).  Every statement group under store.tx() is one step; the   *)
(* processes of one workspace share its database, so loops of several may  *)
(* run.  A version has at most one parse task, and both rows go together.  *)
(* Versions are numbered in the order of their creation, which is the      *)
(* order in which claim() takes them.                                      *)
(***************************************************************************)
EXTENDS Integers

CONSTANTS
    MaxVersions,   \* bound: versions ever created
    Loops,         \* processes with a work_forever() loop
    MaxParseAttempts,   \* 3 in claim()
    MaxStops       \* bound: crashes and stalls of processes altogether

ASSUME LocalParseAssumption ==
    MaxVersions \in Nat /\ MaxParseAttempts \in Nat /\ MaxStops \in Nat

Versions == 1 .. MaxVersions

VARIABLES
    version,    \* version -> its row
    task,       \* version -> its task row
    loop,       \* process -> where its loop is and the task it holds
    stops

parseVars == <<version, task, loop, stops>>

VersionState == {"absent", "queued", "parsing", "ready", "failed", "withdrawn", "deleted"}
VersionRow   == [state : VersionState, resource : Nat]
TaskStatus   == {"none", "queued", "running", "succeeded", "failed", "cancelled"}
TaskRow      == [status : TaskStatus, generation : Nat, attempts : 0 .. MaxParseAttempts,
                 lease : {"none", "live", "expired"}]

(* "ended": work_forever() was left by an exception; "down": the process   *)
(* is gone.  In both cases nobody claims until the runtime starts again.   *)
LoopState == [pc : {"idle", "working", "leaving", "ended", "down"}, of : 0 .. MaxVersions,
              generation : Nat]

NoTask == [status |-> "none", generation |-> 0, attempts |-> 0, lease |-> "none"]
Idle   == [pc |-> "idle", of |-> 0, generation |-> 0]

LocalParseInit ==
    /\ version = [v \in Versions |-> [state |-> "absent", resource |-> 0]]
    /\ task = [v \in Versions |-> NoTask]
    /\ loop = [p \in Loops |-> Idle]
    /\ stops = 0

Exists(v)  == version[v].state \notin {"absent", "deleted"}

Pending_RunningOnly(v) == task[v].status = "running"

Pending(v) == task[v].status \in {"queued", "running"}

StopsOnce == stops < MaxStops /\ stops' = stops + 1

-----------------------------------------------------------------------------
(* create_resource() and append_version(): the two rows in one             *)
(* transaction; a new version is the first of its resource or joins one    *)
(* that is still there.  An import brings its records and is ready.        *)
CreateVersion(v) ==
    /\ version[v].state = "absent" /\ \A u \in 1 .. (v - 1) : version[u].state # "absent"
    /\ \E r \in {v} \cup {version[u].resource : u \in {w \in Versions : Exists(w)}},
          imported \in BOOLEAN :
          /\ version' = [version EXCEPT ![v] =
                [state |-> IF imported THEN "ready" ELSE "queued", resource |-> r]]
          /\ task' = [task EXCEPT ![v].status = IF imported THEN "succeeded" ELSE "queued"]
    /\ UNCHANGED <<loop, stops>>

-----------------------------------------------------------------------------
(* claim(): the oldest task that waits or whose lease has run out.         *)

ParseClaimable_NoTakeover(v) ==
    version[v].state # "withdrawn" /\ task[v].status = "queued"

ParseClaimable(v) ==
    /\ version[v].state # "withdrawn"
    /\ \/ task[v].status = "queued"
       \/ task[v].status = "running" /\ task[v].lease = "expired"

Claimed_SameGeneration(t) ==
    [t EXCEPT !.status = "running", !.attempts = @ + 1, !.lease = "live"]

Claimed(t) ==
    [t EXCEPT !.status = "running", !.generation = @ + 1, !.attempts = @ + 1, !.lease = "live"]

ClaimParse(p) ==
    /\ loop[p].pc = "idle"
    /\ \E v \in Versions :
          /\ ParseClaimable(v) /\ \A u \in 1 .. (v - 1) : ~ParseClaimable(u)
          /\ IF task[v].attempts >= MaxParseAttempts
             THEN /\ task' = [task EXCEPT ![v].status = "failed"]
                  /\ version' = [version EXCEPT ![v].state = "failed"]
                  /\ UNCHANGED loop
             ELSE /\ task' = [task EXCEPT ![v] = Claimed(@)]
                  /\ version' = [version EXCEPT ![v].state = "parsing"]
                  /\ loop' = [loop EXCEPT ![p] =
                        [pc |-> "working", of |-> v, generation |-> Claimed(task[v]).generation]]
    /\ UNCHANGED stops

HoldsTask(p) ==
    /\ task[loop[p].of].status = "running"
    /\ task[loop[p].of].generation = loop[p].generation

Leave(p) == loop' = [loop EXCEPT ![p].pc = "leaving"]

(* publish_parse(): refused unless this generation still runs.             *)
PublishParse(p) ==
    /\ loop[p].pc = "working"
    /\ IF HoldsTask(p)
       THEN /\ version' = [version EXCEPT ![loop[p].of].state = "ready"]
            /\ task' = [task EXCEPT ![loop[p].of].status = "succeeded",
                                    ![loop[p].of].lease = "none"]
       ELSE UNCHANGED <<version, task>>
    /\ Leave(p)
    /\ UNCHANGED stops

(* fail(), for whatever _execute() or the heartbeat raised.                *)
FailParse(p) ==
    /\ loop[p].pc = "working"
    /\ IF HoldsTask(p)
       THEN /\ version' = [version EXCEPT ![loop[p].of].state = "failed"]
            /\ task' = [task EXCEPT ![loop[p].of].status = "failed"]
       ELSE UNCHANGED <<version, task>>
    /\ Leave(p)
    /\ UNCHANGED stops

(* renew() every five seconds; a refusal cancels the execution.            *)
RenewParse(p) ==
    /\ loop[p].pc = "working"
    /\ IF HoldsTask(p)
       THEN /\ task[loop[p].of].lease = "expired"
            /\ task' = [task EXCEPT ![loop[p].of].lease = "live"]
            /\ UNCHANGED loop
       ELSE Leave(p) /\ UNCHANGED task
    /\ UNCHANGED <<version, stops>>

(* The end of work_once() awaits its children and reads the task row once  *)
(* more: a row that is gone by then raises through work_forever().         *)
FinishWork(p) ==
    /\ loop[p].pc = "leaving"
    /\ loop' = [loop EXCEPT ![p] =
            IF Exists(@.of) THEN Idle ELSE [Idle EXCEPT !.pc = "ended"]]
    /\ UNCHANGED <<version, task, stops>>

(* A lease of 45 s runs out; while its loop renews, only by a stall.       *)
ParseLeaseRunsOut(v) ==
    /\ task[v].status = "running" /\ task[v].lease = "live"
    /\ task' = [task EXCEPT ![v].lease = "expired"]
    /\ IF \E p \in Loops : loop[p].pc = "working" /\ loop[p].of = v /\ HoldsTask(p)
       THEN StopsOnce ELSE UNCHANGED stops
    /\ UNCHANGED <<version, loop>>

(* The process ends, orderly or not: work_once() writes nothing.           *)
ProcessStops(p) ==
    /\ loop[p].pc # "down" /\ StopsOnce
    /\ loop' = [loop EXCEPT ![p] = [Idle EXCEPT !.pc = "down"]]
    /\ UNCHANGED <<version, task>>

ProcessStarts(p) ==
    /\ loop[p].pc \in {"down", "ended"}
    /\ loop' = [loop EXCEPT ![p] = Idle]
    /\ UNCHANGED <<version, task, stops>>

-----------------------------------------------------------------------------
(* What the user may do meanwhile.                                         *)

Fence_Forgotten(t) == t

Fence(t) == [t EXCEPT !.status = "cancelled", !.generation = @ + 1]

CancelParse(v) ==
    /\ Pending(v)
    /\ task' = [task EXCEPT ![v] = Fence(@)]
    /\ version' = [version EXCEPT ![v].state = "failed"]
    /\ UNCHANGED <<loop, stops>>

WithdrawVersion(v) ==
    /\ Exists(v) /\ version[v].state # "withdrawn"
    /\ task' = IF Pending(v) THEN [task EXCEPT ![v] = Fence(@)] ELSE task
    /\ version' = [version EXCEPT ![v].state = "withdrawn"]
    /\ UNCHANGED <<loop, stops>>

(* delete_version() and delete_resource(): refused while a task of the     *)
(* versions is pending; what else retains them is in LocalWiki.            *)
DeleteGuard(V) == \A v \in V : Exists(v) /\ ~Pending(v)

DeleteVersions(V) ==
    /\ V # {} /\ DeleteGuard(V)
    /\ version' = [v \in Versions |->
            IF v \in V THEN [version[v] EXCEPT !.state = "deleted"] ELSE version[v]]
    /\ task' = [v \in Versions |-> IF v \in V THEN NoTask ELSE task[v]]
    /\ UNCHANGED <<loop, stops>>

OfResource(v) == {u \in Versions : Exists(u) /\ version[u].resource = version[v].resource}

-----------------------------------------------------------------------------
WorkStep(p) == PublishParse(p) \/ FailParse(p) \/ RenewParse(p) \/ FinishWork(p)

UserStep(v) == CreateVersion(v) \/ CancelParse(v) \/ WithdrawVersion(v)

LocalParseNext ==
    \/ \E p \in Loops : ClaimParse(p) \/ WorkStep(p) \/ ProcessStops(p) \/ ProcessStarts(p)
    \/ \E v \in Versions : \/ UserStep(v) \/ ParseLeaseRunsOut(v)
                           \/ DeleteVersions({v}) \/ DeleteVersions(OfResource(v))

LocalParseSpec == LocalParseInit /\ [][LocalParseNext]_parseVars

(* The loops run, executions end (a CPU parse is stopped after 120 s),     *)
(* abandoned leases run out, and a process that is down is started again.  *)
(* Nobody restarts a loop that has ended in a process that still answers.  *)
ParseFairness ==
    /\ \A p \in Loops : /\ WF_parseVars(ClaimParse(p))
                        /\ WF_parseVars(PublishParse(p) \/ FailParse(p))
                        /\ WF_parseVars(FinishWork(p))
                        /\ WF_parseVars(loop[p].pc = "down" /\ ProcessStarts(p))
    /\ \A v \in Versions : WF_parseVars(stops' = stops /\ ParseLeaseRunsOut(v))

FairLocalParseSpec == LocalParseSpec /\ ParseFairness

-----------------------------------------------------------------------------
(* Properties.                                                             *)

(* Every variable keeps its type.                                          *)
LocalParseTypeOK ==
    /\ version \in [Versions -> VersionRow]
    /\ task \in [Versions -> TaskRow]
    /\ loop \in [Loops -> LoopState]
    /\ stops \in 0 .. MaxStops

RowsAgree(v) ==
    CASE version[v].state \in {"absent", "deleted"} -> task[v].status = "none"
      [] version[v].state = "queued"    -> task[v].status = "queued"
      [] version[v].state = "parsing"   -> task[v].status = "running"
      [] version[v].state = "ready"     -> task[v].status = "succeeded"
      [] version[v].state = "failed"    -> task[v].status \in {"failed", "cancelled"}
      [] version[v].state = "withdrawn" -> task[v].status \in {"succeeded", "failed", "cancelled"}

RowsFollow == \A v \in Versions : RowsAgree(v)

Working(p) == loop[p].pc = "working"

(* The generation of a loop at work is one that its task, if it is still   *)
(* there, has reached.                                                     *)
GivenOut(p) ==
    Working(p) =>
        /\ loop[p].of \in Versions /\ version[loop[p].of].state # "absent"
        /\ task[loop[p].of].status # "none" =>
              loop[p].generation <= task[loop[p].of].generation

(* The two rows tell one story, whatever was cancelled, withdrawn or taken *)
(* over: a version is ready by the success of its task and by nothing      *)
(* else, a withdrawn one has no task that could bring it back, a deleted   *)
(* one leaves none behind, and no loop works with a generation that the    *)
(* table has not given out.                                                *)
VersionFollowsTask == RowsFollow /\ \A p \in Loops : GivenOut(p)

(* At most one loop holds the running generation of a task, so a result    *)
(* and a failure of two runs are never both accepted.                      *)
OneHolder ==
    \A p, q \in Loops :
        /\ loop[p].pc = "working" /\ loop[q].pc = "working"
        /\ loop[p].of = loop[q].of /\ HoldsTask(p) /\ HoldsTask(q)
        => p = q

(* A withdrawn source never authorizes again, and an outcome changes only  *)
(* by withdrawal or deletion.                                              *)
OutcomesStay ==
    [][\A v \in Versions :
          /\ version[v].state = "withdrawn" => version'[v].state \in {"withdrawn", "deleted"}
          /\ version[v].state \in {"ready", "failed"} =>
                version'[v].state \in {version[v].state, "withdrawn", "deleted"}]_parseVars

(* An accepted parse comes to an end, whatever processes crash or stall,   *)
(* unless the deletion of a version under the hands of its loop has ended  *)
(* that loop (work_once(), work_forever()).                                *)
EveryParseEnds ==
    \A v \in Versions : Pending(v) ~> (~Pending(v) \/ \E p \in Loops : loop[p].pc = "ended")

=============================================================================
