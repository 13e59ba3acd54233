----------------------------- MODULE IndexFence -----------------------------
(***************************************************************************)
(* The search index of one document: ddp_corpus/indexing.py, with what     *)
(* else writes the same rows - the tombstone (resources.py), the           *)
(* collector of deleted documents (gc.py), a new upload of the same bytes  *)
(* (ingest.py) and the requests that ask for a rebuild                     *)
(* (routers/documents.py).                                                 *)
(*                                                                         *)
(* A parse job carries its own index state.  Builders (the reconciliation  *)
(* pass of a replica, or the index task of a worker) claim a generation    *)
(* of it, build outside any transaction while a heartbeat renews the       *)
(* lease, and publish under the locks of the document and the job.  A job  *)
(* stands here for one logical resource with its version; the mirror of    *)
(* the current job's state on the document row is not modelled.            *)
(***************************************************************************)
EXTENDS Integers, FiniteSets

CONSTANTS
    Jobs,          \* parse jobs of the document
    Builders,      \* sessions that run index_document()
    MaxRebuilds,   \* bound on the requests to rebuild
    MaxFaults      \* bound on the faults the model explores

ASSUME IndexFenceAssumption ==
    /\ MaxRebuilds \in Nat
    /\ MaxFaults \in Nat

VARIABLES
    deleted,    \* documents.deleted_at is set
    live,       \* the jobs whose resource and version are not tombstoned
    index,      \* per job: the index columns of its parse_jobs row
    chunks,     \* per job: the generation that wrote its chunks, 0 for none
    build,      \* per builder: the generation it works on
    arrived,    \* the jobs there are
    collector,  \* the collector: "idle", or "claimed" with its manifest committed
    rebuilds,   \* rebuild requests so far
    faults      \* crashes and stalls so far

ivars == <<deleted, live, index, chunks, build, arrived, collector, rebuilds, faults>>

IndexRow == [status : {"none", "pending", "indexing", "ready", "failed"},
             gen : Nat, lease : {"none", "held", "expired"}]

NoBuild == [gen |-> 0]
Build   == {NoBuild} \cup [job : Jobs, gen : Nat \ {0}]

IndexInit ==
    /\ deleted = FALSE
    /\ live = {}
    /\ index = [j \in Jobs |-> [status |-> "none", gen |-> 0, lease |-> "none"]]
    /\ chunks = [j \in Jobs |-> 0]
    /\ build = [b \in Builders |-> NoBuild]
    /\ arrived = {}
    /\ collector = "idle"
    /\ rebuilds = 0
    /\ faults = 0

Fault == faults < MaxFaults /\ faults' = faults + 1

-----------------------------------------------------------------------------
(* mark_index_pending(): void for a document that is gone.                 *)

MarkIndexPending_Unlocked(j) ==
    index' = [index EXCEPT ![j] = [status |-> "pending", gen |-> @.gen + 1, lease |-> "none"]]

MarkIndexPending(j) ==
    index' = IF deleted THEN index
             ELSE [index EXCEPT ![j] =
                     [status |-> "pending", gen |-> @.gen + 1, lease |-> "none"]]

(* A request for an archived job of a live resource.  The document stays   *)
(* locked from before the checks until the commit: one step.               *)
LeaseActive(j) == index[j].status = "indexing" /\ index[j].lease = "held"

Reindex(j) ==
    /\ j \in live
    /\ index[j].status \in {"indexing", "ready", "failed"}
    /\ ~LeaseActive(j)
    /\ rebuilds < MaxRebuilds
    /\ rebuilds' = rebuilds + 1
    /\ MarkIndexPending(j)
    /\ UNCHANGED <<deleted, live, chunks, build, arrived, collector, faults>>

-----------------------------------------------------------------------------
(* Claim, heartbeat and lease.                                             *)

Claimable_PendingOnly(j) == index[j].status = "pending"

Claimable(j) ==
    \/ index[j].status = "pending"
    \/ index[j].status = "indexing" /\ index[j].lease \in {"none", "expired"}

Claimed_SameGeneration(row) == [row EXCEPT !.status = "indexing", !.lease = "held"]

Claimed(row) == [status |-> "indexing", gen |-> row.gen + 1, lease |-> "held"]

ClaimForIndexing(b, j) ==
    /\ build[b] = NoBuild
    /\ ~deleted
    /\ Claimable(j)
    /\ index' = [index EXCEPT ![j] = Claimed(@)]
    /\ build' = [build EXCEPT ![b] = [job |-> j, gen |-> index'[j].gen]]
    /\ UNCHANGED <<deleted, live, chunks, arrived, collector, rebuilds, faults>>

Current(b) ==
    /\ build[b] # NoBuild
    /\ index[build[b].job].status = "indexing"
    /\ index[build[b].job].gen = build[b].gen

(* _renew_lease_once(): only the generation it was started for.            *)
RenewLease(b) ==
    /\ Current(b)
    /\ index[build[b].job].lease = "expired"
    /\ index' = [index EXCEPT ![build[b].job].lease = "held"]
    /\ UNCHANGED <<deleted, live, chunks, build, arrived, collector, rebuilds, faults>>

LeaseExpires(j) ==
    /\ LeaseActive(j)
    /\ index' = [index EXCEPT ![j].lease = "expired"]
    /\ IF \E b \in Builders : Current(b) /\ build[b].job = j
       THEN Fault                 \* its builder stalls or lost the database
       ELSE UNCHANGED faults      \* nobody renews it
    /\ UNCHANGED <<deleted, live, chunks, build, arrived, collector, rebuilds>>

-----------------------------------------------------------------------------
(* The end of a build.                                                     *)

Available(j) == ~deleted /\ j \in live

FailIfCurrent(b) ==
    index' = IF Current(b)
             THEN [index EXCEPT ![build[b].job].status = "failed", ![build[b].job].lease = "none"]
             ELSE index

Put(b) == build' = [build EXCEPT ![b] = NoBuild]

Publishable_AnyGeneration(b) ==
    index[build[b].job].status = "indexing" /\ Available(build[b].job)

Publishable(b) == Current(b) /\ Available(build[b].job)

Publish(b) ==
    /\ build[b] # NoBuild
    /\ Publishable(b)
    /\ chunks' = [chunks EXCEPT ![build[b].job] = build[b].gen]
    /\ index' = [index EXCEPT ![build[b].job].status = "ready", ![build[b].job].lease = "none"]
    /\ Put(b)
    /\ UNCHANGED <<deleted, live, arrived, collector, rebuilds, faults>>

(* A source that cannot be compiled or embedded, or is no longer there.    *)
BuildFails(b) ==
    /\ build[b] # NoBuild
    /\ FailIfCurrent(b)
    /\ Put(b)
    /\ UNCHANGED <<deleted, live, chunks, arrived, collector, rebuilds, faults>>

(* IndexSuperseded: the row went on without this build.                    *)
Superseded(b) ==
    /\ build[b] # NoBuild
    /\ ~Current(b)
    /\ Put(b)
    /\ UNCHANGED <<deleted, live, index, chunks, arrived, collector, rebuilds, faults>>

Crash(b) ==
    /\ build[b] # NoBuild
    /\ Fault
    /\ Put(b)
    /\ UNCHANGED <<deleted, live, index, chunks, arrived, collector, rebuilds>>

-----------------------------------------------------------------------------
(* The life of the document.                                               *)

Tombstone(j) ==
    /\ j \in live
    /\ live' = live \ {j}
    /\ deleted' = (live' = {})
    /\ UNCHANGED <<index, chunks, build, arrived, collector, rebuilds, faults>>

(* The collector commits its manifest, lets go of the row lock, and takes  *)
(* it again to delete.  What else protects a document (active parses,      *)
(* citations, tasks, Wiki revisions), a lock somebody holds, or an object  *)
(* that cannot be deleted only make it leave the chunks where they are.    *)
ClaimManifest ==
    /\ collector = "idle"
    /\ deleted
    /\ \E j \in Jobs : chunks[j] # 0
    /\ collector' = "claimed"
    /\ UNCHANGED <<deleted, live, index, chunks, build, arrived, rebuilds, faults>>

Collectable_NotRechecked == TRUE

Collectable == deleted

Collect ==
    /\ collector = "claimed"
    /\ collector' = "idle"
    /\ \/ UNCHANGED chunks
       \/ Collectable /\ chunks' = [j \in Jobs |-> 0]
    /\ UNCHANGED <<deleted, live, index, build, arrived, rebuilds, faults>>

IndexStep ==
    \/ \E j \in Jobs : Reindex(j) \/ LeaseExpires(j) \/ Tombstone(j)
    \/ \E b \in Builders :
          \/ \E j \in Jobs : ClaimForIndexing(b, j)
          \/ RenewLease(b) \/ Publish(b) \/ BuildFails(b) \/ Superseded(b) \/ Crash(b)
    \/ ClaimManifest
    \/ Collect

-----------------------------------------------------------------------------
(* On its own the index sees jobs arrive and their parse results being     *)
(* archived, in time or after the resource was deleted.                    *)

Arrive(j) ==
    /\ j \notin arrived
    /\ index[j].status = "none"
    /\ arrived' = arrived \cup {j}
    /\ live' = live \cup {j}
    /\ deleted' = FALSE
    /\ UNCHANGED <<index, chunks, build, collector, rebuilds, faults>>

Archived(j) ==
    /\ j \in arrived
    /\ index[j].status = "none"
    /\ MarkIndexPending(j)
    /\ UNCHANGED <<deleted, live, chunks, build, arrived, collector, rebuilds, faults>>

IndexNext == IndexStep \/ \E j \in Jobs : Arrive(j) \/ Archived(j)

IndexSpec == IndexInit /\ [][IndexNext]_ivars

(* Replicas and workers look for pending indexes in every tick, a builder  *)
(* that was not killed comes to an end, and an abandoned lease runs out.   *)
IndexFairness ==
    /\ \A j \in Jobs :
          /\ WF_ivars(\E b \in Builders : ClaimForIndexing(b, j))
          /\ WF_ivars(faults' = faults /\ LeaseExpires(j))
    /\ \A b \in Builders : WF_ivars(Publish(b) \/ BuildFails(b) \/ Superseded(b))

FairIndexSpec == IndexSpec /\ IndexFairness

-----------------------------------------------------------------------------
(* The types of the rows and the sessions.                                 *)
IndexTypeOK ==
    /\ deleted \in BOOLEAN
    /\ live \subseteq Jobs
    /\ index \in [Jobs -> IndexRow]
    /\ chunks \in [Jobs -> Nat]
    /\ build \in [Builders -> Build]
    /\ arrived \subseteq Jobs
    /\ collector \in {"idle", "claimed"}
    /\ rebuilds \in Nat
    /\ faults \in Nat

(* A job whose index reads ready and whose resource is there can be        *)
(* searched, and what is found was written by the build of the row's own   *)
(* generation: not by a build that was overtaken, and not swept away by a  *)
(* collector that began before the document came back.                     *)
ReadyIsSearchable ==
    \A j \in live : index[j].status = "ready" => chunks[j] # 0 /\ chunks[j] = index[j].gen

(* However often leases run out, a job is built by at most one builder     *)
(* whose work still counts.                                                *)
OneCurrentBuilder ==
    \A b, c \in Builders :
        Current(b) /\ Current(c) /\ build[b].job = build[c].job => b = c

(* Chunks only move to a later generation; nothing but the collector of a  *)
(* deleted document takes them away.                                       *)
ChunksMoveForward ==
    [][\A j \in Jobs : chunks'[j] # chunks[j] =>
          \/ chunks'[j] > chunks[j]
          \/ chunks'[j] = 0 /\ deleted]_ivars

(* While a document is deleted none of its jobs is scheduled, claimed or   *)
(* published: a late archive or a late build cannot bring it back.         *)
DeletedStaysQuiet ==
    [][deleted =>
          \A j \in Jobs : /\ index'[j].gen = index[j].gen
                          /\ chunks'[j] \in {0, chunks[j]}]_ivars

(* A scheduled or abandoned index comes to an end, unless the document is  *)
(* deleted.                                                                *)
EveryIndexSettles ==
    \A j \in Jobs : index[j].status \in {"pending", "indexing"} ~>
                        (deleted \/ index[j].status \in {"ready", "failed"})
=============================================================================
