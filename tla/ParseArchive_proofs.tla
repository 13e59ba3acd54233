------------------------- MODULE ParseArchive_proofs -------------------------
(***************************************************************************)
(* Proofs about IndexFence, and then about ParseArchive, which extends it: *)
(* the parse pipeline keeps the invariants of the index because the only   *)
(* things it does to the index are to mark a job pending and to bring the  *)
(* document back.                                                          *)
(***************************************************************************)
EXTENDS ParseArchive, TLAPS

-----------------------------------------------------------------------------
(* The index alone.  A generation is given out once, because every claim   *)
(* counts it up and every build keeps the one it was given; so a build is  *)
(* either the newest of its job or can no longer publish.                  *)

(* A deleted document has no live resource.                                *)
DeletedIsBare == deleted => live = {}

(* No build is ahead of the row, and no two builds share a generation.     *)
BuildsBehind ==
    \A b \in Builders : build[b] # NoBuild => build[b].gen <= index[build[b].job].gen

GenerationsUnique ==
    \A b, c \in Builders :
        build[b] # NoBuild /\ build[c] # NoBuild /\ build[b].job = build[c].job
            /\ build[b].gen = build[c].gen => b = c

(* Chunks are never ahead of the row, and behind it while it is built.     *)
ChunksBehind ==
    \A j \in Jobs : /\ chunks[j] <= index[j].gen
                    /\ index[j].status = "indexing" => chunks[j] < index[j].gen

IInv == IndexTypeOK /\ DeletedIsBare /\ BuildsBehind /\ GenerationsUnique
            /\ ChunksBehind /\ ReadyIsSearchable

-----------------------------------------------------------------------------

(* A build in the type is idle or names a job and a positive generation.   *)
LEMMA BuildCases ==
    ASSUME IndexTypeOK, NEW b \in Builders, build[b] # NoBuild
    PROVE  build[b].job \in Jobs /\ build[b].gen \in Nat \ {0}
BY DEF IndexTypeOK, Build

LEMMA RowType ==
    ASSUME IndexTypeOK, NEW j \in Jobs
    PROVE  /\ index[j] \in IndexRow
           /\ index[j].gen \in Nat
           /\ index[j].status \in {"none", "pending", "indexing", "ready", "failed"}
           /\ chunks[j] \in Nat
BY DEF IndexTypeOK, IndexRow

LEMMA InitKeeps == IndexInit => IInv
<1> SUFFICES ASSUME IndexInit PROVE IInv
    OBVIOUS
<1> USE DEF IndexInit
<1>1. index \in [Jobs -> IndexRow]
  <2>1. [status |-> "none", gen |-> 0, lease |-> "none"] \in IndexRow
    BY DEF IndexRow
  <2> QED
    BY <2>1
<1>2. IndexTypeOK
  BY <1>1 DEF IndexTypeOK, Build
<1>3. \A b \in Builders : build[b] = NoBuild
  OBVIOUS
<1>4. BuildsBehind /\ GenerationsUnique
  BY <1>3 DEF BuildsBehind, GenerationsUnique
<1>5. DeletedIsBare /\ ChunksBehind /\ ReadyIsSearchable
  BY DEF DeletedIsBare, ChunksBehind, ReadyIsSearchable
<1> QED
  BY <1>2, <1>4, <1>5 DEF IInv

-----------------------------------------------------------------------------
(* What the steps of the index have in common.                             *)

(* A job is put back to pending with a generation of its own.              *)
LEMMA MarkKeeps ==
    ASSUME IInv, NEW j \in Jobs, MarkIndexPending(j),
           UNCHANGED <<deleted, live, chunks, build, collector>>,
           arrived' \subseteq Jobs, rebuilds' \in Nat, faults' \in Nat
    PROVE  IInv'
<1> USE DEF IInv
<1>1. CASE deleted
  <2>1. UNCHANGED <<deleted, live, index, chunks, build, collector>>
    BY <1>1 DEF MarkIndexPending
  <2> QED
    BY <2>1 DEF IndexTypeOK, DeletedIsBare, BuildsBehind, GenerationsUnique, ChunksBehind,
                ReadyIsSearchable
<1>2. CASE ~deleted
  <2> DEFINE row == [status |-> "pending", gen |-> index[j].gen + 1, lease |-> "none"]
  <2>1. index' = [index EXCEPT ![j] = row]
    BY <1>2, Zenon DEF MarkIndexPending
  <2>2. index[j].gen \in Nat
    BY RowType
  <2>3. row \in IndexRow
    BY <2>2 DEF IndexRow
  <2>4. IndexTypeOK'
    BY <2>1, <2>3 DEF IndexTypeOK
  <2>5. \A k \in Jobs : /\ index'[k].gen \in Nat
                        /\ index[k].gen \in Nat
                        /\ index[k].gen <= index'[k].gen
                        /\ index'[k] = index[k] \/ index'[k].status = "pending"
    <3>1. SUFFICES ASSUME NEW k \in Jobs
          PROVE  /\ index'[k].gen \in Nat
                 /\ index[k].gen \in Nat
                 /\ index[k].gen <= index'[k].gen
                 /\ index'[k] = index[k] \/ index'[k].status = "pending"
      OBVIOUS
    <3>2. index[k].gen \in Nat
      BY RowType
    <3>3. CASE k = j
      BY <2>1, <2>2, <3>3 DEF IndexTypeOK
    <3>4. CASE k # j
      BY <2>1, <3>2, <3>4 DEF IndexTypeOK
    <3> QED
      BY <3>3, <3>4
  <2>6. BuildsBehind'
    BY <2>5, BuildCases DEF BuildsBehind
  <2>7. GenerationsUnique'
    BY DEF GenerationsUnique
  <2>8. \A k \in Jobs : chunks[k] \in Nat
    BY RowType
  <2>9. ChunksBehind'
    BY <2>5, <2>8 DEF ChunksBehind
  <2>10. ReadyIsSearchable' /\ DeletedIsBare'
    BY <2>5 DEF ReadyIsSearchable, DeletedIsBare, IndexTypeOK
  <2> QED
    BY <2>4, <2>6, <2>7, <2>9, <2>10
<1> QED
  BY <1>1, <1>2

(* A builder is set free, and nothing but the row of its job changes, to   *)
(* a status that is not ready, or to ready with the chunks of its own.     *)
LEMMA PutKeeps ==
    ASSUME IInv, NEW b \in Builders, Put(b),
           UNCHANGED <<deleted, live, index, chunks, arrived, collector, rebuilds>>,
           faults' \in Nat
    PROVE  IInv'
<1> USE DEF IInv
<1>1. build' = [build EXCEPT ![b] = NoBuild]
  BY DEF Put
<1>2. IndexTypeOK'
  BY <1>1 DEF IndexTypeOK, Build
<1>3. \A c \in Builders : build'[c] = build[c] \/ build'[c] = NoBuild
  BY <1>1 DEF IndexTypeOK
<1>4. BuildsBehind' /\ GenerationsUnique'
  BY <1>3 DEF BuildsBehind, GenerationsUnique
<1>5. DeletedIsBare' /\ ChunksBehind' /\ ReadyIsSearchable'
  BY DEF DeletedIsBare, ChunksBehind, ReadyIsSearchable
<1> QED
  BY <1>2, <1>4, <1>5

(* The row of a job changes without its generation.                        *)
LEMMA SameGenerationKeeps ==
    ASSUME IInv, NEW j \in Jobs, NEW row \in IndexRow,
           index' = [index EXCEPT ![j] = row],
           row.gen = index[j].gen,
           row.status = index[j].status \/ row.status = "failed",
           UNCHANGED <<deleted, live, chunks, arrived, collector, rebuilds>>,
           \A b \in Builders : build'[b] = build[b] \/ build'[b] = NoBuild,
           build' \in [Builders -> Build],
           faults' \in Nat
    PROVE  IInv'
<1> USE DEF IInv
<1>1. IndexTypeOK'
  BY DEF IndexTypeOK
<1>2. \A k \in Jobs : /\ index'[k].gen = index[k].gen
                      /\ index'[k].status = index[k].status \/ index'[k].status = "failed"
  BY DEF IndexTypeOK
<1>3. BuildsBehind'
  <2>1. SUFFICES ASSUME NEW b \in Builders, build'[b] # NoBuild
        PROVE  build'[b].gen <= index'[build'[b].job].gen
    BY DEF BuildsBehind
  <2>2. build'[b] = build[b] /\ build[b] # NoBuild
    BY <2>1
  <2>3. build[b].job \in Jobs
    BY <2>2, BuildCases
  <2> QED
    BY <1>2, <2>2, <2>3 DEF BuildsBehind
<1>4. GenerationsUnique'
  BY DEF GenerationsUnique
<1>5. DeletedIsBare' /\ ChunksBehind' /\ ReadyIsSearchable'
  BY <1>2 DEF DeletedIsBare, ChunksBehind, ReadyIsSearchable, IndexTypeOK
<1> QED
  BY <1>1, <1>3, <1>4, <1>5

LEMMA ClaimKeeps ==
    ASSUME IInv, NEW b \in Builders, NEW j \in Jobs, ClaimForIndexing(b, j)
    PROVE  IInv'
<1> USE DEF IInv
<1> DEFINE row == [status |-> "indexing", gen |-> index[j].gen + 1, lease |-> "held"]
<1> DEFINE new == [job |-> j, gen |-> index[j].gen + 1]
<1>1. index[j].gen \in Nat
  BY RowType
<1>2. row \in IndexRow
  BY <1>1 DEF IndexRow
<1>3. index' = [index EXCEPT ![j] = row]
  BY Zenon DEF ClaimForIndexing, Claimed
<1>4. index'[j] = row
  BY <1>3 DEF IndexTypeOK
<1>5. build' = [build EXCEPT ![b] = new]
  <2>1. index'[j].gen = index[j].gen + 1
    BY <1>4
  <2>2. build' = [build EXCEPT ![b] = [job |-> j, gen |-> index'[j].gen]]
    BY Zenon DEF ClaimForIndexing
  <2> QED
    BY <2>1, <2>2, Zenon
<1>6. new \in Build /\ new # NoBuild
  <2>1. index[j].gen + 1 \in Nat \ {0}
    BY <1>1
  <2>2. new \in Build
    BY <2>1 DEF Build
  <2>3. new.gen # NoBuild.gen
    BY <2>1 DEF NoBuild
  <2> QED
    BY <2>2, <2>3
<1>7. UNCHANGED <<deleted, live, chunks, arrived, collector, rebuilds, faults>>
  BY DEF ClaimForIndexing
<1>8. IndexTypeOK'
  <2>1. index' \in [Jobs -> IndexRow]
    BY <1>2, <1>3 DEF IndexTypeOK
  <2>2. build' \in [Builders -> Build]
    BY <1>5, <1>6 DEF IndexTypeOK
  <2> QED
    BY <1>7, <2>1, <2>2 DEF IndexTypeOK
<1>9. \A k \in Jobs : k # j => index'[k] = index[k]
  BY <1>3 DEF IndexTypeOK
<1>10. build'[b] = new /\ \A c \in Builders : c # b => build'[c] = build[c]
  BY <1>5 DEF IndexTypeOK
<1>11. \A c \in Builders : build[c] # NoBuild =>
          /\ build[c].job \in Jobs
          /\ build[c].gen \in Nat
          /\ build[c].gen <= index[build[c].job].gen
  BY BuildCases DEF BuildsBehind
<1>12. BuildsBehind'
  <2>1. SUFFICES ASSUME NEW c \in Builders, build'[c] # NoBuild
        PROVE  build'[c].gen <= index'[build'[c].job].gen
    BY DEF BuildsBehind
  <2>2. CASE c = b
    BY <1>1, <1>4, <1>10, <2>2
  <2>3. CASE c # b
    <3>1. build'[c] = build[c] /\ build[c] # NoBuild
      BY <1>10, <2>1, <2>3
    <3>2. CASE build[c].job = j
      BY <1>1, <1>4, <1>11, <3>1, <3>2
    <3>3. CASE build[c].job # j
      BY <1>9, <1>11, <3>1, <3>3
    <3> QED
      BY <3>2, <3>3
  <2> QED
    BY <2>2, <2>3
<1>13. \A c \in Builders : build[c] # NoBuild => ~(build[c].job = j /\ build[c].gen = new.gen)
  BY <1>1, <1>11
<1>14. GenerationsUnique'
  BY <1>10, <1>13 DEF GenerationsUnique
<1>15. ChunksBehind'
  <2>1. SUFFICES ASSUME NEW k \in Jobs
        PROVE  /\ chunks[k] <= index'[k].gen
               /\ index'[k].status = "indexing" => chunks[k] < index'[k].gen
    BY <1>7 DEF ChunksBehind
  <2>2. chunks[k] \in Nat
    BY RowType
  <2>3. CASE k = j
    BY <1>1, <1>4, <2>2, <2>3 DEF ChunksBehind
  <2>4. CASE k # j
    BY <1>9, <2>4 DEF ChunksBehind
  <2> QED
    BY <2>3, <2>4
<1>16. ReadyIsSearchable' /\ DeletedIsBare'
  BY <1>4, <1>7, <1>9 DEF ReadyIsSearchable, DeletedIsBare, IndexTypeOK
<1> QED
  BY <1>8, <1>12, <1>14, <1>15, <1>16

LEMMA PublishKeeps ==
    ASSUME IInv, NEW b \in Builders, Publish(b)
    PROVE  IInv'
<1> USE DEF IInv
<1> DEFINE j == build[b].job
<1> DEFINE row == [index[j] EXCEPT !.status = "ready", !.lease = "none"]
<1>1. /\ build[b] # NoBuild
      /\ j \in Jobs
      /\ build[b].gen \in Nat \ {0}
  BY BuildCases DEF Publish
<1>2. /\ index[j].status = "indexing"
      /\ index[j].gen = build[b].gen
      /\ ~deleted
  BY DEF Publish, Publishable, Current, Available
<1>3. index' = [index EXCEPT ![j] = row]
  BY Zenon DEF Publish
<1>4. row \in IndexRow
  <2>1. index[j] \in IndexRow
    BY <1>1, RowType
  <2> QED
    BY <2>1, Zenon DEF IndexRow
<1>5. row.gen = index[j].gen /\ row.status = "ready"
  <2>1. index[j] \in IndexRow
    BY <1>1, RowType
  <2> QED
    BY <2>1 DEF IndexRow
<1>6. chunks' = [chunks EXCEPT ![j] = build[b].gen]
  BY DEF Publish
<1>7. build' = [build EXCEPT ![b] = NoBuild]
  BY DEF Publish, Put
<1>8. UNCHANGED <<deleted, live, arrived, collector, rebuilds, faults>>
  BY DEF Publish
<1>9. IndexTypeOK'
  BY <1>1, <1>3, <1>4, <1>6, <1>7, <1>8 DEF IndexTypeOK, Build
<1>10. /\ index'[j] = row
       /\ chunks'[j] = build[b].gen
       /\ \A k \in Jobs : k # j => index'[k] = index[k] /\ chunks'[k] = chunks[k]
  BY <1>1, <1>3, <1>6 DEF IndexTypeOK
<1>11. \A k \in Jobs : index'[k].gen = index[k].gen
  BY <1>5, <1>10
<1>12. \A c \in Builders : build'[c] = build[c] \/ build'[c] = NoBuild
  BY <1>7 DEF IndexTypeOK
<1>13. BuildsBehind'
  <2>1. SUFFICES ASSUME NEW c \in Builders, build'[c] # NoBuild
        PROVE  build'[c].gen <= index'[build'[c].job].gen
    BY DEF BuildsBehind
  <2>2. build'[c] = build[c] /\ build[c] # NoBuild /\ build[c].job \in Jobs
    BY <1>12, <2>1, BuildCases
  <2> QED
    BY <1>11, <2>2 DEF BuildsBehind
<1>14. GenerationsUnique'
  BY <1>12 DEF GenerationsUnique
<1>15. ChunksBehind'
  <2>1. SUFFICES ASSUME NEW k \in Jobs
        PROVE  /\ chunks'[k] <= index'[k].gen
               /\ index'[k].status = "indexing" => chunks'[k] < index'[k].gen
    BY DEF ChunksBehind
  <2>2. CASE k = j
    <3>1. index'[k].gen = build[b].gen /\ index'[k].status = "ready"
      BY <1>2, <1>5, <1>10, <2>2
    <3> QED
      BY <1>1, <1>10, <2>2, <3>1
  <2>3. CASE k # j
    <3>1. index'[k] = index[k] /\ chunks'[k] = chunks[k]
      BY <1>10, <2>3
    <3> QED
      BY <3>1 DEF ChunksBehind
  <2> QED
    BY <2>2, <2>3
<1>16. ReadyIsSearchable' /\ DeletedIsBare'
  BY <1>1, <1>2, <1>5, <1>8, <1>10 DEF ReadyIsSearchable, DeletedIsBare, IndexTypeOK
<1> QED
  BY <1>9, <1>13, <1>14, <1>15, <1>16

(* A new upload puts a job that is not ready among the live ones.          *)
LEMMA ArriveKeeps ==
    ASSUME IInv, NEW j \in Jobs, index[j].status # "ready",
           arrived' \subseteq Jobs, live' = live \cup {j}, deleted' = FALSE,
           UNCHANGED <<index, chunks, build, collector, rebuilds, faults>>
    PROVE  IInv'
BY DEF IInv, IndexTypeOK, DeletedIsBare, BuildsBehind, GenerationsUnique, ChunksBehind,
       ReadyIsSearchable

LEMMA StepKeeps ==
    ASSUME IInv, IndexStep
    PROVE  IInv'
<1>2. ASSUME NEW j \in Jobs, Reindex(j)
      PROVE  IInv'
  <2>1. /\ MarkIndexPending(j)
        /\ UNCHANGED <<deleted, live, chunks, build, collector>>
        /\ arrived' = arrived /\ rebuilds' = rebuilds + 1 /\ faults' = faults
    BY <1>2 DEF Reindex
  <2>2. arrived' \subseteq Jobs /\ rebuilds' \in Nat /\ faults' \in Nat
    BY <2>1 DEF IInv, IndexTypeOK
  <2> QED
    BY <2>1, <2>2, MarkKeeps
<1>3. ASSUME NEW j \in Jobs, LeaseExpires(j)
      PROVE  IInv'
  <2> DEFINE row == [index[j] EXCEPT !.lease = "expired"]
  <2>1. index[j] \in IndexRow
    BY RowType DEF IInv
  <2>2. row \in IndexRow /\ row.gen = index[j].gen /\ row.status = index[j].status
    BY <2>1 DEF IndexRow
  <2>3. index' = [index EXCEPT ![j] = row]
    BY <1>3, Zenon DEF LeaseExpires
  <2>4. UNCHANGED <<deleted, live, chunks, build, arrived, collector, rebuilds>> /\ faults' \in Nat
    BY <1>3 DEF LeaseExpires, Fault, IInv, IndexTypeOK
  <2>5. build' \in [Builders -> Build]
    BY <2>4 DEF IInv, IndexTypeOK
  <2> QED
    BY <2>2, <2>3, <2>4, <2>5, SameGenerationKeeps
<1>4. ASSUME NEW j \in Jobs, Tombstone(j)
      PROVE  IInv'
  BY <1>4 DEF IInv, Tombstone, IndexTypeOK, DeletedIsBare, BuildsBehind, GenerationsUnique,
              ChunksBehind, ReadyIsSearchable
<1>5. ASSUME NEW b \in Builders, NEW j \in Jobs, ClaimForIndexing(b, j)
      PROVE  IInv'
  BY <1>5, ClaimKeeps
<1>6. ASSUME NEW b \in Builders, RenewLease(b)
      PROVE  IInv'
  <2> DEFINE j == build[b].job
  <2> DEFINE row == [index[j] EXCEPT !.lease = "held"]
  <2>1. j \in Jobs /\ index[j] \in IndexRow
    BY <1>6, BuildCases, RowType DEF IInv, RenewLease, Current
  <2>2. row \in IndexRow /\ row.gen = index[j].gen /\ row.status = index[j].status
    BY <2>1 DEF IndexRow
  <2>3. index' = [index EXCEPT ![j] = row]
    BY <1>6, Zenon DEF RenewLease
  <2>4. UNCHANGED <<deleted, live, chunks, build, arrived, collector, rebuilds>>
        /\ faults' \in Nat /\ build' \in [Builders -> Build]
    BY <1>6 DEF RenewLease, IInv, IndexTypeOK
  <2> HIDE DEF j, row
  <2> QED
    BY <2>1, <2>2, <2>3, <2>4, SameGenerationKeeps
<1>7. ASSUME NEW b \in Builders, BuildFails(b)
      PROVE  IInv'
  <2> DEFINE j == build[b].job
  <2> DEFINE row == [index[j] EXCEPT !.status = "failed", !.lease = "none"]
  <2>1. j \in Jobs /\ index[j] \in IndexRow
    BY <1>7, BuildCases, RowType DEF IInv, BuildFails
  <2>2. row \in IndexRow
    BY <2>1, Zenon DEF IndexRow
  <2>3. row.gen = index[j].gen /\ row.status = "failed"
    BY <2>1 DEF IndexRow
  <2>4. /\ UNCHANGED <<deleted, live, chunks, arrived, collector, rebuilds>>
        /\ faults' \in Nat
        /\ build' = [build EXCEPT ![b] = NoBuild]
    BY <1>7 DEF BuildFails, Put, IInv, IndexTypeOK
  <2>5. /\ build' \in [Builders -> Build]
        /\ \A c \in Builders : build'[c] = build[c] \/ build'[c] = NoBuild
    BY <2>4 DEF IInv, IndexTypeOK, Build
  <2>6. CASE Current(b)
    <3>1. index' = [index EXCEPT ![j] = row]
      BY <1>7, <2>6, Zenon DEF BuildFails, FailIfCurrent
    <3> HIDE DEF j, row
    <3> QED
      BY <2>1, <2>2, <2>3, <2>4, <2>5, <3>1, SameGenerationKeeps
  <2>7. CASE ~Current(b)
    <3>1. index' = index
      BY <1>7, <2>7 DEF BuildFails, FailIfCurrent
    <3> QED
      BY <1>7, <2>4, <3>1, PutKeeps DEF BuildFails
  <2> QED
    BY <2>6, <2>7
<1>8. ASSUME NEW b \in Builders, Superseded(b) \/ Crash(b)
      PROVE  IInv'
  <2>1. /\ Put(b)
        /\ UNCHANGED <<deleted, live, index, chunks, arrived, collector, rebuilds>>
        /\ faults' \in Nat
    BY <1>8 DEF Superseded, Crash, Fault, IInv, IndexTypeOK
  <2> QED
    BY <2>1, PutKeeps
<1>9. ASSUME ClaimManifest
      PROVE  IInv'
  BY <1>9 DEF IInv, ClaimManifest, IndexTypeOK, DeletedIsBare, BuildsBehind,
              GenerationsUnique, ChunksBehind, ReadyIsSearchable
<1>10. ASSUME Collect
       PROVE  IInv'
  <2>1. \A j \in Jobs : chunks'[j] = chunks[j] \/ (chunks'[j] = 0 /\ deleted)
    BY <1>10 DEF Collect, Collectable, IInv, IndexTypeOK
  <2>2. chunks' \in [Jobs -> Nat]
    BY <1>10 DEF Collect, IInv, IndexTypeOK
  <2>3. UNCHANGED <<deleted, live, index, build, arrived, rebuilds, faults>> /\ collector' = "idle"
    BY <1>10 DEF Collect
  <2>4. IndexTypeOK' /\ DeletedIsBare' /\ BuildsBehind' /\ GenerationsUnique'
    BY <2>2, <2>3 DEF IInv, IndexTypeOK, DeletedIsBare, BuildsBehind, GenerationsUnique
  <2>5. \A j \in Jobs : index[j].gen \in Nat /\ chunks[j] \in Nat
    BY RowType DEF IInv
  <2>6. ChunksBehind'
    BY <2>1, <2>3, <2>5 DEF IInv, ChunksBehind
  <2>7. ReadyIsSearchable'
    BY <2>1, <2>3 DEF IInv, ReadyIsSearchable, DeletedIsBare, IndexTypeOK
  <2> QED
    BY <2>4, <2>6, <2>7 DEF IInv
<1>11. ASSUME NEW b \in Builders, Publish(b)
       PROVE  IInv'
  BY <1>11, PublishKeeps
<1> QED
  BY <1>2, <1>3, <1>4, <1>5, <1>6, <1>7, <1>8, <1>9, <1>10, <1>11 DEF IndexStep

LEMMA NextKeeps == IInv /\ [IndexNext]_ivars => IInv'
<1> SUFFICES ASSUME IInv, [IndexNext]_ivars PROVE IInv'
    OBVIOUS
<1>1. CASE IndexStep
  BY <1>1, StepKeeps
<1>2. ASSUME NEW j \in Jobs, Arrive(j)
      PROVE  IInv'
  <2>1. arrived' \subseteq Jobs
    BY <1>2 DEF Arrive, IInv, IndexTypeOK
  <2> QED
    BY <1>2, <2>1, ArriveKeeps DEF Arrive
<1>3. ASSUME NEW j \in Jobs, Archived(j)
      PROVE  IInv'
  <2>1. /\ MarkIndexPending(j)
        /\ UNCHANGED <<deleted, live, chunks, build, arrived, collector, rebuilds, faults>>
    BY <1>3 DEF Archived
  <2>2. arrived' \subseteq Jobs /\ rebuilds' \in Nat /\ faults' \in Nat
    BY <2>1 DEF IInv, IndexTypeOK
  <2> QED
    BY <2>1, <2>2, MarkKeeps
<1>4. CASE UNCHANGED ivars
  BY <1>4 DEF IInv, ivars, IndexTypeOK, DeletedIsBare, BuildsBehind, GenerationsUnique,
              ChunksBehind, ReadyIsSearchable
<1> QED
  BY <1>1, <1>2, <1>3, <1>4 DEF IndexNext

LEMMA Inductive == IndexSpec => []IInv
BY InitKeeps, NextKeeps, PTL DEF IndexSpec

-----------------------------------------------------------------------------

(* Rows, builds and chunks keep their types.                               *)
THEOREM IndexTypes == IndexSpec => []IndexTypeOK
BY Inductive, PTL DEF IInv

(* With any number of jobs, builders, stalls, deletions and revivals: what *)
(* reads ready was written by its own generation and is there.             *)
THEOREM ReadyIsServed == IndexSpec => []ReadyIsSearchable
BY Inductive, PTL DEF IInv

(* At most one build of a job still counts.                                *)
THEOREM BuildersAreFenced == IndexSpec => []OneCurrentBuilder
<1>1. IInv => OneCurrentBuilder
  BY DEF IInv, GenerationsUnique, OneCurrentBuilder, Current
<1> QED
  BY <1>1, Inductive, PTL

(* No build that was overtaken writes over a later one.                    *)
THEOREM ChunksAdvance == IndexSpec => ChunksMoveForward
<1> DEFINE A == \A j \in Jobs : chunks'[j] # chunks[j] =>
                   \/ chunks'[j] > chunks[j]
                   \/ chunks'[j] = 0 /\ deleted
<1>1. IInv /\ [IndexNext]_ivars => [A]_ivars
  <2> SUFFICES ASSUME IInv, IndexNext, UNCHANGED chunks => FALSE
               PROVE  A
      BY DEF ivars
  <2>1. ASSUME NEW b \in Builders, Publish(b)
        PROVE  A
    <3>1. build[b] # NoBuild
      BY <2>1 DEF Publish
    <3>2. build[b].job \in Jobs /\ build[b].gen \in Nat
      BY <3>1, BuildCases DEF IInv
    <3>3. chunks[build[b].job] < build[b].gen
      BY <2>1, <3>2 DEF Publish, Publishable, Current, IInv, ChunksBehind
    <3>4. chunks' = [chunks EXCEPT ![build[b].job] = build[b].gen]
      BY <2>1 DEF Publish
    <3>5. \A j \in Jobs : chunks[j] \in Nat
      BY RowType DEF IInv
    <3> QED
      BY <3>2, <3>3, <3>4, <3>5 DEF IInv, IndexTypeOK
  <2>2. CASE Collect
    BY <2>2 DEF Collect, Collectable
  <2> QED
    BY <2>1, <2>2 DEF IndexNext, IndexStep, Reindex, LeaseExpires,
                      Tombstone, ClaimForIndexing, RenewLease, BuildFails, Superseded, Crash,
                      ClaimManifest, Arrive, Archived
<1>2. IndexSpec => [][A]_ivars
  BY <1>1, Inductive, PTL DEF IndexSpec
<1> QED
  BY <1>2 DEF ChunksMoveForward

(* Nothing late brings the index of a deleted document back.               *)
THEOREM DeletedStaysQuietAlways == IndexSpec => DeletedStaysQuiet
<1> DEFINE A == deleted => \A j \in Jobs : /\ index'[j].gen = index[j].gen
                                           /\ chunks'[j] \in {0, chunks[j]}
<1>1. IInv /\ [IndexNext]_ivars => [A]_ivars
  <2> SUFFICES ASSUME IInv, IndexNext, deleted, NEW j \in Jobs
               PROVE  index'[j].gen = index[j].gen /\ chunks'[j] \in {0, chunks[j]}
      BY DEF ivars
  <2>0. index[j] \in IndexRow /\ index \in [Jobs -> IndexRow]
    BY RowType DEF IInv, IndexTypeOK
  <2>1. ASSUME NEW k \in Jobs, Reindex(k) \/ Archived(k)
        PROVE  UNCHANGED <<index, chunks>>
    BY <2>1 DEF Reindex, Archived, MarkIndexPending
  <2>2. ASSUME NEW k \in Jobs, LeaseExpires(k)
        PROVE  index'[j].gen = index[j].gen /\ chunks' = chunks
    BY <2>0, <2>2 DEF LeaseExpires, IndexRow
  <2>3. ASSUME NEW b \in Builders, RenewLease(b)
        PROVE  index'[j].gen = index[j].gen /\ chunks' = chunks
    BY <2>0, <2>3 DEF RenewLease, IndexRow
  <2>4. ASSUME NEW b \in Builders, BuildFails(b)
        PROVE  index'[j].gen = index[j].gen /\ chunks' = chunks
    <3>1. chunks' = chunks
      BY <2>4 DEF BuildFails
    <3>2. CASE Current(b)
      <4> DEFINE row == [index[build[b].job] EXCEPT !.status = "failed", !.lease = "none"]
      <4>1. index' = [index EXCEPT ![build[b].job] = row]
        BY <2>4, <3>2, Zenon DEF BuildFails, FailIfCurrent
      <4>2. index[build[b].job] \in IndexRow => row.gen = index[build[b].job].gen
        BY DEF IndexRow
      <4> HIDE DEF row
      <4> QED
        BY <2>0, <3>1, <4>1, <4>2
    <3>3. CASE ~Current(b)
      BY <2>4, <3>1, <3>3 DEF BuildFails, FailIfCurrent
    <3> QED
      BY <3>2, <3>3
  <2>5. CASE Collect
    BY <2>5 DEF Collect, IInv, IndexTypeOK
  <2>6. \A b \in Builders : ~Publish(b) /\ \A k \in Jobs : ~ClaimForIndexing(b, k)
    BY DEF Publish, Publishable, Available, ClaimForIndexing
  <2> QED
    BY <2>1, <2>2, <2>3, <2>4, <2>5, <2>6
       DEF IndexNext, IndexStep, Tombstone, Superseded, Crash, ClaimManifest, Arrive
<1>2. IndexSpec => [][A]_ivars
  BY <1>1, Inductive, PTL DEF IndexSpec
<1> QED
  BY <1>2 DEF DeletedStaysQuiet

-----------------------------------------------------------------------------
(* The pipeline around it.                                                 *)

(* A session is about a job that exists, and records a task that exists.   *)
SessionsKnow ==
    \A s \in Sessions : sess[s] # Idle =>
        /\ job[sess[s].job].status # "absent"
        /\ sess[s].at = "record" => sess[s].task <= Len(gateway[sess[s].job])

(* A job that has not been submitted has no index and no task yet.         *)
AbsentIsBare ==
    \A j \in Jobs : job[j].status = "absent" => index[j].status = "none" /\ job[j].task = 0

PInv == IInv /\ TypeOK /\ ArchivedIsAccounted /\ SessionsKnow /\ AbsentIsBare

-----------------------------------------------------------------------------
(* What the index does is seen by the jobs only in this: no index comes    *)
(* into being or vanishes, and resources only go.                          *)
LEMMA IndexEffect ==
    ASSUME IInv, IndexStep
    PROVE  /\ live' \subseteq live
           /\ \A j \in Jobs : index'[j].status = "none" <=> index[j].status = "none"
<1>1. /\ index \in [Jobs -> IndexRow]
      /\ \A j \in Jobs : index[j] \in IndexRow
  BY RowType DEF IInv, IndexTypeOK
<1> DEFINE Kept(k) == index'[k].status = "none" <=> index[k].status = "none"
<1>2. CASE \E j \in Jobs : Reindex(j)
  <2>1. PICK j \in Jobs : Reindex(j)
    BY <1>2
  <2>2. index[j].status # "none" /\ live' = live /\ MarkIndexPending(j)
    BY <2>1 DEF Reindex
  <2>3. \A k \in Jobs : Kept(k)
    <3>1. CASE deleted
      BY <2>2, <3>1 DEF MarkIndexPending
    <3>2. CASE ~deleted
      <4> DEFINE row == [status |-> "pending", gen |-> index[j].gen + 1, lease |-> "none"]
      <4>1. index' = [index EXCEPT ![j] = row]
        BY <2>2, <3>2, Zenon DEF MarkIndexPending
      <4>2. row.status = "pending"
        OBVIOUS
      <4> HIDE DEF row
      <4> QED
        BY <1>1, <2>2, <4>1, <4>2
    <3> QED
      BY <3>1, <3>2
  <2> QED
    BY <1>1, <2>2, <2>3
<1>3. CASE \E j \in Jobs : LeaseExpires(j)
  <2>1. PICK j \in Jobs : LeaseExpires(j)
    BY <1>3
  <2>2. live' = live /\ index' = [index EXCEPT ![j].lease = "expired"]
    BY <2>1 DEF LeaseExpires
  <2>3. \A k \in Jobs : Kept(k)
    BY <1>1, <2>2 DEF IndexRow
  <2> QED
    BY <1>1, <2>2, <2>3
<1>4. CASE \E b \in Builders, j \in Jobs : ClaimForIndexing(b, j)
  <2>1. PICK b \in Builders, j \in Jobs : ClaimForIndexing(b, j)
    BY <1>4
  <2> DEFINE row == [status |-> "indexing", gen |-> index[j].gen + 1, lease |-> "held"]
  <2>2. index' = [index EXCEPT ![j] = row]
    BY <2>1, Zenon DEF ClaimForIndexing, Claimed
  <2>3. live' = live /\ index[j].status # "none"
    BY <2>1 DEF ClaimForIndexing, Claimable
  <2>4. row.status = "indexing"
    OBVIOUS
  <2> HIDE DEF row
  <2>5. \A k \in Jobs : Kept(k)
    BY <1>1, <2>2, <2>3, <2>4
  <2> QED
    BY <1>1, <2>3, <2>5
<1>5. CASE \E b \in Builders : RenewLease(b)
  <2>1. PICK b \in Builders : RenewLease(b)
    BY <1>5
  <2>2. live' = live /\ index' = [index EXCEPT ![build[b].job].lease = "held"]
    BY <2>1 DEF RenewLease
  <2>3. \A k \in Jobs : Kept(k)
    BY <1>1, <2>2 DEF IndexRow
  <2> QED
    BY <1>1, <2>2, <2>3
<1>6. CASE \E b \in Builders : Publish(b) \/ BuildFails(b)
  <2>1. PICK b \in Builders : Publish(b) \/ BuildFails(b)
    BY <1>6
  <2>2. live' = live
    BY <2>1 DEF Publish, BuildFails
  <2>3. CASE index' = index
    BY <1>1, <2>2, <2>3
  <2>4. CASE index' # index
    <3>1. PICK st \in {"ready", "failed"} :
             index' = [index EXCEPT ![build[b].job].status = st, ![build[b].job].lease = "none"]
      BY <2>1, <2>4 DEF Publish, BuildFails, FailIfCurrent
    <3>2. Current(b)
      BY <2>1, <2>4 DEF Publish, Publishable, BuildFails, FailIfCurrent
    <3>3. index[build[b].job].status = "indexing"
      BY <3>2 DEF Current
    <3> DEFINE j == build[b].job
    <3> DEFINE row == [index[j] EXCEPT !.status = st, !.lease = "none"]
    <3>4. j \in Jobs
      BY <3>2, BuildCases DEF Current, IInv
    <3>5. index' = [index EXCEPT ![j] = row]
      BY <3>1, Zenon
    <3>6. row.status = st
      BY <1>1, <3>4 DEF IndexRow
    <3> HIDE DEF row
    <3>7. \A k \in Jobs : Kept(k)
      BY <1>1, <3>3, <3>4, <3>5, <3>6
    <3> QED
      BY <1>1, <2>2, <3>7
  <2> QED
    BY <2>3, <2>4
<1>8. CASE \/ \E j \in Jobs : Tombstone(j)
           \/ \E b \in Builders : Superseded(b) \/ Crash(b)
           \/ ClaimManifest
           \/ Collect
  BY <1>1, <1>8 DEF Tombstone, Superseded, Crash, ClaimManifest, Collect
<1> QED
  BY <1>2, <1>3, <1>4, <1>5, <1>6, <1>8 DEF IndexStep

-----------------------------------------------------------------------------
(* What the steps of the pipeline have in common.                          *)

(* A session that is under way is about a job.                             *)
LEMMA SessionCases ==
    ASSUME TypeOK, NEW s \in Sessions, sess[s] # Idle
    PROVE  sess[s].job \in Jobs
BY DEF TypeOK, Session

LEMMA GotoType ==
    ASSUME TypeOK, NEW s \in Sessions, NEW j \in Jobs,
           NEW pc \in {"retry", "submit", "post", "expire", "fail", "run", "archive", "fetch"},
           Goto(s, pc, j)
    PROVE  /\ sess' \in [Sessions -> Session]
           /\ \A t \in Sessions : t # s => sess'[t] = sess[t]
           /\ sess'[s].at # "record" /\ sess'[s].job = j /\ sess'[s] # Idle
<1> DEFINE new == [at |-> pc, job |-> j]
<1>1. new \in Session
  BY DEF Session
<1>2. sess' = [sess EXCEPT ![s] = new]
  BY DEF Goto
<1>3. new.at # "record" /\ new.job = j /\ new.at # "idle"
  OBVIOUS
<1>4. new # Idle
  BY <1>3 DEF Idle
<1> HIDE DEF new
<1> QED
  BY <1>1, <1>2, <1>3, <1>4 DEF TypeOK

LEMMA EndType ==
    ASSUME TypeOK, NEW s \in Sessions, End(s)
    PROVE  /\ sess' \in [Sessions -> Session]
           /\ \A t \in Sessions : sess'[t] = sess[t] \/ sess'[t] = Idle
BY DEF TypeOK, End, Session

(* Rows change, except from absent and to succeeded; sessions end, or go   *)
(* on to anything but recording a task.                                    *)
LEMMA RowsKeep ==
    ASSUME PInv,
           job' \in [Jobs -> JobRow], sess' \in [Sessions -> Session], faults' \in Nat,
           retries' \in Nat,
           UNCHANGED <<deleted, live, index, chunks, build, arrived, collector, rebuilds,
                       gateway, bills>>,
           \A j \in Jobs :
              /\ job'[j].task <= Len(gateway[j])
              /\ job[j].status = "absent" => job'[j] = job[j]
              /\ \/ job'[j].status = job[j].status
                 \/ /\ job[j].status # "absent"
                    /\ job'[j].status \notin {"absent", "succeeded"},
           \A t \in Sessions :
              \/ sess'[t] = sess[t]
              \/ sess'[t] = Idle
              \/ /\ sess'[t].at # "record"
                 /\ sess'[t].job \in Jobs
                 /\ job[sess'[t].job].status # "absent"
    PROVE  PInv'
<1> USE DEF PInv
<1>1. IInv'
  BY DEF IInv, IndexTypeOK, DeletedIsBare, BuildsBehind, GenerationsUnique, ChunksBehind,
         ReadyIsSearchable
<1>2. TypeOK'
  BY <1>1 DEF TypeOK, IInv
<1>3. ArchivedIsAccounted'
  BY DEF ArchivedIsAccounted
<1>4. SessionsKnow'
  <2>1. SUFFICES ASSUME NEW t \in Sessions, sess'[t] # Idle
        PROVE  /\ job'[sess'[t].job].status # "absent"
               /\ sess'[t].at = "record" => sess'[t].task <= Len(gateway'[sess'[t].job])
    BY DEF SessionsKnow, Idle
  <2>2. CASE sess'[t] = sess[t]
    <3>1. sess[t].job \in Jobs /\ job[sess[t].job].status # "absent"
      BY <2>1, <2>2, SessionCases DEF SessionsKnow
    <3>2. job'[sess[t].job].status # "absent"
      BY <3>1
    <3>3. sess[t].at = "record" => sess[t].task <= Len(gateway[sess[t].job])
      BY <2>1, <2>2 DEF SessionsKnow
    <3> QED
      BY <2>2, <3>2, <3>3
  <2>3. CASE sess'[t] # sess[t]
    BY <2>1, <2>3
  <2> QED
    BY <2>2, <2>3
<1>5. AbsentIsBare'
  BY DEF AbsentIsBare
<1> QED
  BY <1>1, <1>2, <1>3, <1>4, <1>5

-----------------------------------------------------------------------------
(* The steps one by one.                                                   *)

(* A row of the right type with the status replaced.                       *)
LEMMA StatusType ==
    ASSUME NEW row \in JobRow, NEW st \in Active \cup {"failed"}
    PROVE  /\ [row EXCEPT !.status = st] \in JobRow
           /\ [row EXCEPT !.status = st].status = st
           /\ [row EXCEPT !.status = st].task = row.task
<1>1. [row EXCEPT !.status = st] \in JobRow
  BY Zenon DEF JobRow
<1> QED
  BY <1>1 DEF JobRow

LEMMA JobType ==
    ASSUME TypeOK, NEW j \in Jobs
    PROVE  /\ job[j] \in JobRow
           /\ job[j].task \in Nat
           /\ job[j].task <= Len(gateway[j])
           /\ gateway[j] \in Seq(TaskState)
           /\ Len(gateway[j]) \in Nat
BY DEF TypeOK, JobRow

(* One row gets another status, and its session ends or goes on.           *)
LEMMA StatusKeeps ==
    ASSUME PInv, NEW s \in Sessions, sess[s] # Idle,
           NEW st \in Active \cup {"failed"},
           job' = [job EXCEPT ![sess[s].job].status = st],
           faults' \in Nat,
           UNCHANGED <<deleted, live, index, chunks, build, arrived, collector, rebuilds,
                       gateway, bills, retries>>,
           End(s) \/ Goto(s, "submit", sess[s].job)
    PROVE  PInv'
<1> USE DEF PInv
<1> DEFINE j == sess[s].job
<1> DEFINE row == [job[j] EXCEPT !.status = st]
<1>1. j \in Jobs /\ job[j].status # "absent"
  BY SessionCases DEF SessionsKnow
<1>2. row \in JobRow /\ row.status = st /\ row.task = job[j].task
  BY <1>1, JobType, StatusType
<1>3. job' = [job EXCEPT ![j] = row]
  BY Zenon
<1>4. st \notin {"absent", "succeeded"}
  BY DEF Active
<1>5. \A k \in Jobs : job[k].task <= Len(gateway[k])
  BY JobType
<1> HIDE DEF row
<1>6. job' \in [Jobs -> JobRow]
  BY <1>1, <1>2, <1>3 DEF TypeOK
<1>7. \A k \in Jobs :
         /\ job'[k].task <= Len(gateway[k])
         /\ job[k].status = "absent" => job'[k] = job[k]
         /\ \/ job'[k].status = job[k].status
            \/ /\ job[k].status # "absent"
               /\ job'[k].status \notin {"absent", "succeeded"}
  BY <1>1, <1>2, <1>3, <1>4, <1>5 DEF TypeOK
<1>8. retries' \in Nat
  BY DEF TypeOK
<1>9. CASE End(s)
  BY <1>6, <1>7, <1>8, <1>9, EndType, RowsKeep
<1>10. CASE Goto(s, "submit", j)
  <2>1. /\ sess' \in [Sessions -> Session]
        /\ \A t \in Sessions : t # s => sess'[t] = sess[t]
        /\ sess'[s].at # "record" /\ sess'[s].job = j
    BY <1>1, <1>10, GotoType
  <2> HIDE DEF j
  <2> QED
    BY <1>1, <1>6, <1>7, <1>8, <2>1, RowsKeep
<1> QED
  BY <1>9, <1>10

(* A session starts on a job, or ends, and writes nothing.                 *)
LEMMA ReadKeeps ==
    ASSUME PInv, NEW s \in Sessions, NEW j \in Jobs, job[j].status # "absent",
           NEW pc \in {"retry", "submit", "post", "expire", "fail", "run", "archive", "fetch"},
           Goto(s, pc, j), job' = job, retries' \in Nat,
           UNCHANGED <<ivars, gateway, bills>>
    PROVE  PInv'
<1>1. /\ sess' \in [Sessions -> Session]
      /\ \A t \in Sessions : t # s => sess'[t] = sess[t]
      /\ sess'[s].at # "record" /\ sess'[s].job = j
  BY GotoType DEF PInv
<1>2. job' \in [Jobs -> JobRow] /\ faults' \in Nat
  BY DEF PInv, TypeOK, IndexTypeOK, ivars
<1>3. \A k \in Jobs : job'[k].task <= Len(gateway[k]) /\ job'[k] = job[k]
  BY JobType DEF PInv
<1>4. UNCHANGED <<deleted, live, index, chunks, build, arrived, collector, rebuilds,
                  gateway, bills>>
  BY DEF ivars
<1> QED
  BY <1>1, <1>2, <1>3, <1>4, RowsKeep

LEMMA NewJobKeeps ==
    ASSUME PInv, NEW s \in Sessions, NEW j \in Jobs, NewJob(s, j)
    PROVE  PInv'
<1> USE DEF PInv
<1> DEFINE row == [job[j] EXCEPT !.status = "pending"]
<1>1. row \in JobRow /\ row.status = "pending" /\ row.task = job[j].task
  BY JobType, StatusType DEF Active
<1>2. job' = [job EXCEPT ![j] = row]
  BY Zenon DEF NewJob
<1> HIDE DEF row
<1>3. /\ job[j].status = "absent"
      /\ Goto(s, "submit", j)
      /\ arrived' = arrived \cup {j}
      /\ live' = live \cup {j}
      /\ deleted' = FALSE
      /\ UNCHANGED <<index, chunks, build, collector, rebuilds, faults,
                     gateway, bills, retries>>
  BY DEF NewJob
<1>4. index[j].status = "none"
  BY <1>3 DEF AbsentIsBare
<1>5. IInv'
  <2>1. arrived' \subseteq Jobs
    BY <1>3 DEF IInv, IndexTypeOK
  <2> QED
    BY <1>3, <1>4, <2>1, ArriveKeeps
<1>6. /\ sess' \in [Sessions -> Session]
      /\ \A t \in Sessions : t # s => sess'[t] = sess[t]
      /\ sess'[s].at # "record" /\ sess'[s].job = j
  BY <1>3, GotoType
<1>7. /\ job' \in [Jobs -> JobRow]
      /\ job'[j] = row
      /\ \A k \in Jobs : k # j => job'[k] = job[k]
  BY <1>1, <1>2 DEF TypeOK
<1>8. TypeOK'
  <2>1. \A k \in Jobs : job'[k].task <= Len(gateway'[k])
    BY <1>1, <1>3, <1>7, JobType
  <2> QED
    BY <1>3, <1>5, <1>6, <1>7, <2>1 DEF TypeOK, IInv
<1>9. SessionsKnow'
  <2>1. SUFFICES ASSUME NEW t \in Sessions, sess'[t] # Idle
        PROVE  /\ job'[sess'[t].job].status # "absent"
               /\ sess'[t].at = "record" => sess'[t].task <= Len(gateway'[sess'[t].job])
    BY DEF SessionsKnow, Idle
  <2>2. CASE t = s
    BY <1>1, <1>6, <1>7, <2>2
  <2>3. CASE t # s
    <3>1. sess'[t] = sess[t] /\ sess[t].job \in Jobs
      BY <1>6, <2>1, <2>3, SessionCases
    <3>2. /\ job[sess[t].job].status # "absent"
          /\ sess[t].at = "record" => sess[t].task <= Len(gateway[sess[t].job])
      BY <2>1, <3>1 DEF SessionsKnow
    <3>3. job'[sess[t].job] = job[sess[t].job]
      BY <1>3, <1>7, <3>1, <3>2
    <3> QED
      BY <1>3, <3>1, <3>2, <3>3
  <2> QED
    BY <2>2, <2>3
<1>10. ArchivedIsAccounted'
  BY <1>1, <1>3, <1>7 DEF ArchivedIsAccounted
<1>11. AbsentIsBare'
  BY <1>1, <1>3, <1>7 DEF AbsentIsBare
<1> QED
  BY <1>5, <1>8, <1>9, <1>10, <1>11

(* The gateway only adds tasks and changes what it says of them.           *)
LEMMA GatewayKeeps ==
    ASSUME PInv, gateway' \in [Jobs -> Seq(TaskState)],
           \A j \in Jobs : Len(gateway'[j]) >= Len(gateway[j]),
           UNCHANGED <<ivars, job, bills, retries>>,
           sess' \in [Sessions -> Session],
           \A t \in Sessions : sess'[t] = sess[t] \/ sess'[t] = Idle
               \/ /\ sess'[t].job \in Jobs
                  /\ job[sess'[t].job].status # "absent"
                  /\ sess'[t].at = "record" => sess'[t].task <= Len(gateway'[sess'[t].job])
    PROVE  PInv'
<1> USE DEF PInv
<1>1. UNCHANGED <<deleted, live, index, chunks, build, arrived, collector, rebuilds, faults>>
  BY DEF ivars
<1>2. IInv'
  BY <1>1 DEF IInv, IndexTypeOK, DeletedIsBare, BuildsBehind, GenerationsUnique, ChunksBehind,
              ReadyIsSearchable
<1>3. \A j \in Jobs : /\ job[j].task \in Nat /\ job[j].task <= Len(gateway[j])
                      /\ Len(gateway[j]) \in Nat /\ Len(gateway'[j]) \in Nat
  BY JobType
<1>4. \A j \in Jobs : job[j].task <= Len(gateway'[j])
  BY <1>3
<1>5. TypeOK'
  BY <1>2, <1>4 DEF TypeOK, IInv
<1>6. SessionsKnow'
  <2>1. SUFFICES ASSUME NEW t \in Sessions, sess'[t] # Idle
        PROVE  /\ job'[sess'[t].job].status # "absent"
               /\ sess'[t].at = "record" => sess'[t].task <= Len(gateway'[sess'[t].job])
    BY DEF SessionsKnow, Idle
  <2>2. CASE sess'[t] = sess[t]
    <3>1. /\ sess[t].job \in Jobs
          /\ job[sess[t].job].status # "absent"
          /\ sess[t].at = "record" => sess[t].task <= Len(gateway[sess[t].job])
      BY <2>1, <2>2, SessionCases DEF SessionsKnow
    <3>2. sess[t].at = "record" => sess[t].task \in Nat
      BY <2>1, <2>2 DEF TypeOK, Session
    <3> QED
      BY <1>3, <2>2, <3>1, <3>2
  <2>3. CASE sess'[t] # sess[t]
    BY <2>1, <2>3
  <2> QED
    BY <2>2, <2>3
<1>7. ArchivedIsAccounted' /\ AbsentIsBare'
  BY <1>1 DEF ArchivedIsAccounted, AbsentIsBare
<1> QED
  BY <1>2, <1>5, <1>6, <1>7

LEMMA PostKeeps ==
    ASSUME PInv, NEW s \in Sessions, PostAccepted(s)
    PROVE  PInv'
<1> USE DEF PInv
<1> DEFINE j == sess[s].job
<1> DEFINE tasks == IF Reusable(gateway[j]) THEN gateway[j] ELSE Append(gateway[j], "running")
<1> DEFINE new == [at |-> "record", job |-> j, task |-> Len(gateway'[j])]
<1>1. sess[s] # Idle
  BY DEF PostAccepted, Idle
<1>2. j \in Jobs /\ job[j].status # "absent"
  BY <1>1, SessionCases DEF SessionsKnow
<1>3. gateway' = [gateway EXCEPT ![j] = tasks]
  BY Zenon DEF PostAccepted
<1>4. sess' = [sess EXCEPT ![s] = new]
  BY Zenon DEF PostAccepted
<1>5. tasks \in Seq(TaskState) /\ Len(tasks) >= Len(gateway[j])
  BY <1>2, JobType DEF TaskState
<1>6. gateway'[j] = tasks
  BY <1>2, <1>3 DEF TypeOK
<1> HIDE DEF tasks
<1>7. /\ gateway' \in [Jobs -> Seq(TaskState)]
      /\ \A k \in Jobs : Len(gateway'[k]) >= Len(gateway[k])
  <2>1. \A k \in Jobs : Len(gateway[k]) \in Nat
    BY JobType
  <2> QED
    BY <1>2, <1>3, <1>5, <2>1 DEF TypeOK
<1>8. Len(gateway'[j]) \in Nat
  BY <1>5, <1>6
<1>9. new \in Session /\ new.job = j /\ new.task = Len(gateway'[j])
  <2>1. new \in [at : {"record"}, job : Jobs, task : Nat]
    BY <1>2, <1>8
  <2> QED
    BY <2>1 DEF Session
<1>10. UNCHANGED <<ivars, job, bills, retries>>
  BY DEF PostAccepted
<1> HIDE DEF new
<1>11. /\ sess' \in [Sessions -> Session]
       /\ sess'[s] = new
       /\ \A t \in Sessions : t # s => sess'[t] = sess[t]
  BY <1>4, <1>9 DEF TypeOK
<1>12. \A t \in Sessions : sess'[t] = sess[t] \/ sess'[t] = Idle
               \/ /\ sess'[t].job \in Jobs
                  /\ job[sess'[t].job].status # "absent"
                  /\ sess'[t].at = "record" => sess'[t].task <= Len(gateway'[sess'[t].job])
  BY <1>2, <1>8, <1>9, <1>11
<1> HIDE DEF PInv
<1> QED
  BY <1>7, <1>10, <1>11, <1>12, GatewayKeeps

LEMMA FinishKeeps ==
    ASSUME PInv, NEW s \in Sessions, FinishArchive(s)
    PROVE  PInv'
<1> USE DEF PInv
<1> DEFINE j == sess[s].job
<1> DEFINE row == [job[j] EXCEPT !.status = "succeeded"]
<1>1. sess[s] # Idle
  BY DEF FinishArchive, Idle
<1>2. j \in Jobs /\ job[j].status # "absent"
  BY <1>1, SessionCases DEF SessionsKnow
<1>3. row \in JobRow /\ row.status = "succeeded" /\ row.task = job[j].task
  <2>1. job[j] \in JobRow
    BY <1>2, JobType
  <2>2. row \in JobRow
    BY <2>1, Zenon DEF JobRow
  <2> QED
    BY <2>1, <2>2 DEF JobRow
<1>4. job' = [job EXCEPT ![j] = row]
  BY Zenon DEF FinishArchive
<1>5. bills' = [bills EXCEPT ![j] = bills[j] + 1]
  BY DEF FinishArchive, Billed
<1>6. /\ Schedule(j)
      /\ End(s)
      /\ UNCHANGED <<deleted, live, chunks, build, arrived, collector, rebuilds, faults,
                     gateway, retries>>
  BY DEF FinishArchive
<1> HIDE DEF row
<1>7. MarkIndexPending(j)
  BY <1>6 DEF Schedule, MarkIndexPending
<1>8. IInv'
  <2>1. arrived' \subseteq Jobs /\ rebuilds' \in Nat /\ faults' \in Nat
    BY <1>6 DEF IInv, IndexTypeOK
  <2> QED
    BY <1>2, <1>6, <1>7, <2>1, MarkKeeps
<1>9. /\ job' \in [Jobs -> JobRow]
      /\ job'[j] = row
      /\ \A k \in Jobs : k # j => job'[k] = job[k]
  BY <1>2, <1>3, <1>4 DEF TypeOK
<1>10. /\ bills' \in [Jobs -> Nat]
       /\ \A k \in Jobs : bills'[k] >= bills[k]
       /\ bills'[j] > 0
  BY <1>2, <1>5 DEF TypeOK
<1>11. /\ sess' \in [Sessions -> Session]
       /\ \A t \in Sessions : sess'[t] = sess[t] \/ sess'[t] = Idle
  BY <1>6, EndType
<1>12. TypeOK'
  <2>1. \A k \in Jobs : job'[k].task <= Len(gateway'[k])
    BY <1>2, <1>3, <1>6, <1>9, JobType
  <2> QED
    BY <1>6, <1>8, <1>9, <1>10, <1>11, <2>1 DEF TypeOK, IInv
<1>13. /\ deleted => index' = index
       /\ ~deleted => /\ index'[j].status = "pending"
                      /\ \A k \in Jobs : k # j => index'[k] = index[k]
  <2>1. CASE deleted
    BY <1>7, <2>1 DEF MarkIndexPending
  <2>2. CASE ~deleted
    <3> DEFINE ix == [status |-> "pending", gen |-> index[j].gen + 1, lease |-> "none"]
    <3>1. index' = [index EXCEPT ![j] = ix]
      BY <1>7, <2>2, Zenon DEF MarkIndexPending
    <3>2. ix.status = "pending"
      OBVIOUS
    <3> HIDE DEF ix
    <3> QED
      BY <1>2, <2>2, <3>1, <3>2 DEF IInv, IndexTypeOK
  <2> QED
    BY <2>1, <2>2
<1>14. ArchivedIsAccounted'
  <2>1. SUFFICES ASSUME NEW k \in Jobs, job'[k].status = "succeeded"
        PROVE  bills'[k] > 0 /\ (k \in live' => index'[k].status # "none")
    BY DEF ArchivedIsAccounted
  <2>2. CASE k = j
    BY <1>2, <1>6, <1>10, <1>13, <2>2 DEF IInv, DeletedIsBare
  <2>3. CASE k # j
    <3>1. bills[k] \in Nat /\ bills'[k] \in Nat
      BY <1>10 DEF TypeOK
    <3> QED
      BY <1>6, <1>9, <1>10, <1>13, <2>1, <2>3, <3>1 DEF ArchivedIsAccounted
  <2> QED
    BY <2>2, <2>3
<1>15. SessionsKnow'
  <2>1. SUFFICES ASSUME NEW t \in Sessions, sess'[t] # Idle
        PROVE  /\ job'[sess'[t].job].status # "absent"
               /\ sess'[t].at = "record" => sess'[t].task <= Len(gateway'[sess'[t].job])
    BY DEF SessionsKnow, Idle
  <2>2. sess'[t] = sess[t] /\ sess[t].job \in Jobs
    BY <1>11, <2>1, SessionCases
  <2> QED
    BY <1>3, <1>6, <1>9, <2>1, <2>2 DEF SessionsKnow
<1>16. AbsentIsBare'
  BY <1>2, <1>3, <1>9, <1>13 DEF AbsentIsBare
<1> QED
  BY <1>8, <1>12, <1>14, <1>15, <1>16

(* A row changes in other columns than its status.                         *)
LEMMA ColumnKeeps ==
    ASSUME PInv, NEW j \in Jobs, NEW row \in JobRow,
           job[j].status # "absent", row.status = job[j].status, row.task <= Len(gateway[j]),
           job' = [job EXCEPT ![j] = row],
           sess' \in [Sessions -> Session], faults' \in Nat,
           UNCHANGED <<deleted, live, index, chunks, build, arrived, collector, rebuilds,
                       gateway, bills, retries>>,
           \A t \in Sessions :
              \/ sess'[t] = sess[t]
              \/ sess'[t] = Idle
              \/ /\ sess'[t].at # "record"
                 /\ sess'[t].job \in Jobs
                 /\ job[sess'[t].job].status # "absent"
    PROVE  PInv'
<1>1. \A k \in Jobs : job[k].task <= Len(gateway[k])
  BY JobType DEF PInv
<1>2. /\ job' \in [Jobs -> JobRow]
      /\ \A k \in Jobs : /\ job'[k].task <= Len(gateway[k])
                         /\ job'[k].status = job[k].status
                         /\ job[k].status = "absent" => job'[k] = job[k]
  BY <1>1 DEF PInv, TypeOK
<1>3. retries' \in Nat
  BY DEF PInv, TypeOK
<1> QED
  BY <1>2, <1>3, RowsKeep

LEMMA ProgressKeeps ==
    ASSUME PInv, NEW s \in Sessions, Progress(s)
    PROVE  PInv'
<1> DEFINE j == sess[s].job
<1>0. ASSUME sess[s] # Idle
      PROVE  /\ j \in Jobs /\ job[j].status # "absent" /\ job[j] \in JobRow
             /\ job[j].task <= Len(gateway[j]) /\ faults \in Nat
  BY <1>0, SessionCases, JobType DEF PInv, SessionsKnow, IInv, IndexTypeOK
<1>1. CASE RetryCommit(s)
  <2>1. /\ sess[s] # Idle
        /\ job' = [job EXCEPT ![sess[s].job].status = "pending"]
        /\ Goto(s, "submit", sess[s].job)
        /\ UNCHANGED <<deleted, live, index, chunks, build, arrived, collector, rebuilds,
                       gateway, bills, retries>>
        /\ faults' = faults
    BY <1>1 DEF RetryCommit, Idle, ivars
  <2> QED
    BY <1>0, <2>1, StatusKeeps DEF Active
<1>2. CASE Stamp(s)
  <2> DEFINE row == [job[j] EXCEPT !.old = FALSE]
  <2>1. /\ sess[s] # Idle
        /\ Goto(s, "post", j)
        /\ UNCHANGED <<deleted, live, index, chunks, build, arrived, collector, rebuilds,
                       gateway, bills, retries>>
        /\ faults' = faults
    BY <1>2 DEF Stamp, Idle, ivars
  <2>2. job' = [job EXCEPT ![j] = row]
    BY <1>2, Zenon DEF Stamp, Stamped
  <2>3. row \in JobRow /\ row.status = job[j].status /\ row.task = job[j].task
    <3>1. job[j] \in JobRow
      BY <1>0, <2>1
    <3>2. row \in JobRow
      BY <3>1, Zenon DEF JobRow
    <3> QED
      BY <3>1, <3>2 DEF JobRow
  <2>4. /\ sess' \in [Sessions -> Session]
        /\ \A t \in Sessions : t # s => sess'[t] = sess[t]
        /\ sess'[s].at # "record" /\ sess'[s].job = j
    BY <1>0, <2>1, GotoType DEF PInv
  <2> HIDE DEF row, j
  <2> QED
    BY <1>0, <2>1, <2>2, <2>3, <2>4, ColumnKeeps
<1>3. CASE PostAccepted(s)
  BY <1>3, PostKeeps
<1>4. CASE Record(s)
  <2> DEFINE row == [job[j] EXCEPT !.task = sess[s].task]
  <2>1. /\ sess[s] # Idle
        /\ sess[s].at = "record"
        /\ End(s)
        /\ UNCHANGED <<deleted, live, index, chunks, build, arrived, collector, rebuilds,
                       gateway, bills, retries>>
        /\ faults' = faults
    BY <1>4 DEF Record, Idle, ivars
  <2>2. job' = [job EXCEPT ![j] = row]
    BY <1>4, Zenon DEF Record
  <2>3. sess[s].task \in Nat /\ sess[s].task <= Len(gateway[j])
    BY <2>1 DEF PInv, TypeOK, Session, SessionsKnow
  <2>4. row \in JobRow /\ row.status = job[j].status /\ row.task = sess[s].task
    <3>1. job[j] \in JobRow
      BY <1>0, <2>1
    <3>2. row \in JobRow
      BY <2>3, <3>1, Zenon DEF JobRow
    <3> QED
      BY <3>1, <3>2 DEF JobRow
  <2>5. /\ sess' \in [Sessions -> Session]
        /\ \A t \in Sessions : sess'[t] = sess[t] \/ sess'[t] = Idle
    BY <2>1, EndType DEF PInv
  <2> HIDE DEF row, j
  <2> QED
    BY <1>0, <2>1, <2>2, <2>3, <2>4, <2>5, ColumnKeeps
<1>5. CASE FailJob(s)
  <2>1. /\ sess[s] # Idle
        /\ job' = [job EXCEPT ![sess[s].job].status = "failed"]
        /\ End(s)
        /\ UNCHANGED <<deleted, live, index, chunks, build, arrived, collector, rebuilds,
                       gateway, bills, retries>>
        /\ faults' = faults
    BY <1>5 DEF FailJob, Idle, ivars
  <2> QED
    BY <1>0, <2>1, StatusKeeps
<1>6. CASE WriteRunning(s)
  <2>1. /\ sess[s] # Idle
        /\ job' = [job EXCEPT ![sess[s].job].status = "running"]
        /\ End(s)
        /\ UNCHANGED <<deleted, live, index, chunks, build, arrived, collector, rebuilds,
                       gateway, bills, retries>>
        /\ faults' = faults
    BY <1>6 DEF WriteRunning, Idle, ivars
  <2> QED
    BY <1>0, <2>1, StatusKeeps DEF Active
<1>7. CASE ClaimArchive(s)
  <2>1. /\ sess[s] # Idle
        /\ UNCHANGED <<deleted, live, index, chunks, build, arrived, collector, rebuilds, faults,
                       gateway, bills, retries>>
    BY <1>7 DEF ClaimArchive, Idle, ivars
  <2>2. retries' \in Nat /\ faults' \in Nat
    BY <1>0, <2>1 DEF PInv, TypeOK
  <2>3. CASE ClaimableJob(j)
    <3> DEFINE row == [job[j] EXCEPT !.status = "archiving", !.fresh = TRUE]
    <3>1. job' = [job EXCEPT ![j] = row]
      BY <1>7, <2>3, Zenon DEF ClaimArchive
    <3>2. Goto(s, "fetch", j)
      BY <1>7, <2>3 DEF ClaimArchive
    <3>3. row \in JobRow /\ row.status = "archiving" /\ row.task = job[j].task
      <4>1. job[j] \in JobRow
        BY <1>0, <2>1
      <4>2. row \in JobRow
        BY <4>1, Zenon DEF JobRow, Active
      <4> QED
        BY <4>1, <4>2 DEF JobRow
    <3>4. /\ sess' \in [Sessions -> Session]
          /\ \A t \in Sessions : t # s => sess'[t] = sess[t]
          /\ sess'[s].at # "record" /\ sess'[s].job = j
      BY <1>0, <2>1, <3>2, GotoType DEF PInv
    <3>5. \A k \in Jobs : job[k].task <= Len(gateway[k])
      BY JobType DEF PInv
    <3> HIDE DEF row, j
    <3>6. /\ job' \in [Jobs -> JobRow]
          /\ \A k \in Jobs :
                /\ job'[k].task <= Len(gateway[k])
                /\ job[k].status = "absent" => job'[k] = job[k]
                /\ \/ job'[k].status = job[k].status
                   \/ /\ job[k].status # "absent"
                      /\ job'[k].status \notin {"absent", "succeeded"}
      BY <1>0, <2>1, <3>1, <3>3, <3>5 DEF PInv, TypeOK
    <3> QED
      BY <1>0, <2>1, <2>2, <3>4, <3>6, RowsKeep
  <2>4. CASE ~ClaimableJob(j)
    <3>1. job' = job /\ End(s)
      BY <1>7, <2>4 DEF ClaimArchive
    <3>2. /\ sess' \in [Sessions -> Session]
          /\ \A t \in Sessions : sess'[t] = sess[t] \/ sess'[t] = Idle
      BY <3>1, EndType DEF PInv
    <3>3. /\ job' \in [Jobs -> JobRow]
          /\ \A k \in Jobs : job'[k].task <= Len(gateway[k]) /\ job'[k] = job[k]
      BY <3>1, JobType DEF PInv, TypeOK
    <3> QED
      BY <2>1, <2>2, <3>2, <3>3, RowsKeep
  <2> QED
    BY <2>3, <2>4
<1>8. CASE FinishArchive(s)
  BY <1>8, FinishKeeps
<1>9. CASE ReleaseJob(s)
  <2>1. /\ sess[s] # Idle
        /\ job' = [job EXCEPT ![sess[s].job].status = "running"]
        /\ End(s)
        /\ UNCHANGED <<deleted, live, index, chunks, build, arrived, collector, rebuilds,
                       gateway, bills, retries>>
        /\ faults' = faults \/ faults' = faults + 1
    BY <1>9 DEF ReleaseJob, Idle, Fault
  <2>2. faults' \in Nat
    BY <1>0, <2>1
  <2> QED
    BY <2>1, <2>2, StatusKeeps DEF Active
<1> QED
  BY <1>1, <1>2, <1>3, <1>4, <1>5, <1>6, <1>7, <1>8, <1>9 DEF Progress

LEMMA PipelineKeeps == PInv /\ [Next]_vars => PInv'
<1> SUFFICES ASSUME PInv, [Next]_vars PROVE PInv'
    OBVIOUS
<1>1. ASSUME NEW s \in Requests, NEW j \in Jobs, NewJob(s, j)
      PROVE  PInv'
  BY <1>1, NewJobKeeps DEF Sessions
<1>2. ASSUME NEW s \in Requests, NEW j \in Jobs, RetryRead(s, j)
      PROVE  PInv'
  <2>1. /\ Goto(s, "retry", j) /\ job' = job /\ job[j].status = "failed"
        /\ retries' = retries + 1 /\ UNCHANGED <<ivars, gateway, bills>>
    BY <1>2 DEF RetryRead
  <2>2. retries' \in Nat
    BY <2>1 DEF PInv, TypeOK
  <2>3. s \in Sessions /\ job[j].status # "absent"
    BY <2>1 DEF Sessions
  <2> QED
    BY <2>1, <2>2, <2>3, ReadKeeps
<1>3. ASSUME NEW s \in Sessions, NEW j \in Jobs,
             Reconcile(s, j) \/ Poll(s, j) \/ Callback(s, j)
      PROVE  PInv'
  <2>1. PICK pc \in {"expire", "fail", "run", "archive"} : Goto(s, pc, j)
    BY <1>3 DEF Reconcile, Poll, Callback
  <2>2. job' = job /\ retries' = retries /\ UNCHANGED <<ivars, gateway, bills>>
    BY <1>3 DEF Reconcile, Poll, Callback
  <2>3. retries' \in Nat
    BY <2>2 DEF PInv, TypeOK
  <2>4. job[j].status # "absent"
    <3>1. CASE job[j].status \in Active
      BY <3>1 DEF Active
    <3>2. CASE Callback(s, j)
      BY <3>2 DEF Callback, Asked, PInv, AbsentIsBare
    <3> QED
      BY <1>3, <3>1, <3>2 DEF Reconcile, Poll
  <2> QED
    BY <2>1, <2>2, <2>3, <2>4, ReadKeeps
<1>4. ASSUME NEW s \in Sessions, Progress(s)
      PROVE  PInv'
  BY <1>4, ProgressKeeps
<1>5. ASSUME NEW s \in Sessions, PostRejected(s)
      PROVE  PInv'
  <2>1. /\ sess[s] # Idle
        /\ job' = [job EXCEPT ![sess[s].job].status = "failed"]
        /\ End(s)
        /\ UNCHANGED <<deleted, live, index, chunks, build, arrived, collector, rebuilds,
                       gateway, bills, retries>>
        /\ faults' = faults + 1
    BY <1>5 DEF PostRejected, Idle, Fault
  <2>2. faults' \in Nat
    BY <2>1 DEF PInv, IInv, IndexTypeOK
  <2> QED
    BY <2>1, <2>2, StatusKeeps
<1>6. ASSUME NEW s \in Sessions, SessionEnds(s)
      PROVE  PInv'
  <2>1. /\ End(s)
        /\ UNCHANGED <<deleted, live, index, chunks, build, arrived, collector, rebuilds,
                       job, gateway, bills, retries>>
        /\ faults' = faults + 1
    BY <1>6 DEF SessionEnds, Fault
  <2>2. faults' \in Nat /\ retries' \in Nat
    BY <2>1 DEF PInv, IInv, IndexTypeOK, TypeOK
  <2>3. /\ sess' \in [Sessions -> Session]
        /\ \A t \in Sessions : sess'[t] = sess[t] \/ sess'[t] = Idle
    BY <2>1, EndType DEF PInv
  <2>4. /\ job' \in [Jobs -> JobRow]
        /\ \A k \in Jobs : job'[k].task <= Len(gateway[k]) /\ job'[k] = job[k]
    BY <2>1, JobType DEF PInv, TypeOK
  <2> QED
    BY <2>1, <2>2, <2>3, <2>4, RowsKeep
<1>7. ASSUME NEW j \in Jobs, GatewayEnds(j) \/ GatewayForgets(j)
      PROVE  PInv'
  <2>1. PICK i \in DOMAIN gateway[j], st \in TaskState :
           gateway' = [gateway EXCEPT ![j][i] = st]
    BY <1>7 DEF GatewayEnds, GatewayForgets, TaskState
  <2>2. UNCHANGED <<ivars, job, sess, bills, retries>>
    BY <1>7 DEF GatewayEnds, GatewayForgets
  <2> DEFINE tasks == [gateway[j] EXCEPT ![i] = st]
  <2>3. gateway[j] \in Seq(TaskState)
    BY JobType DEF PInv
  <2>4. tasks \in Seq(TaskState) /\ Len(tasks) = Len(gateway[j])
    BY <2>3
  <2>5. gateway' = [gateway EXCEPT ![j] = tasks]
    BY <2>1, Zenon
  <2>6. \A k \in Jobs : Len(gateway[k]) \in Nat
    BY JobType DEF PInv
  <2> HIDE DEF tasks
  <2>7. /\ gateway' \in [Jobs -> Seq(TaskState)]
        /\ \A k \in Jobs : Len(gateway'[k]) >= Len(gateway[k])
    BY <2>4, <2>5, <2>6 DEF PInv, TypeOK
  <2>8. sess' \in [Sessions -> Session] /\ \A t \in Sessions : sess'[t] = sess[t]
    BY <2>2 DEF PInv, TypeOK
  <2> QED
    BY <2>2, <2>7, <2>8, GatewayKeeps
<1>8. ASSUME NEW j \in Jobs, DayPasses(j) \/ ArchivingGoesStale(j)
      PROVE  PInv'
  <2>1. PICK row \in {[job[j] EXCEPT !.old = TRUE], [job[j] EXCEPT !.fresh = FALSE]} :
           job' = [job EXCEPT ![j] = row]
    <3>1. job' = [job EXCEPT ![j].old = TRUE] \/ job' = [job EXCEPT ![j].fresh = FALSE]
      BY <1>8 DEF DayPasses, ArchivingGoesStale
    <3> QED
      BY <3>1, Zenon
  <2>2. job[j] \in JobRow /\ job[j].task <= Len(gateway[j]) /\ job[j].status # "absent"
    BY <1>8, JobType DEF PInv, DayPasses, ArchivingGoesStale
  <2>3. row \in JobRow
    BY <2>1, <2>2, Zenon DEF JobRow
  <2>4. row.status = job[j].status /\ row.task = job[j].task
    BY <2>1, <2>2 DEF JobRow
  <2>5. UNCHANGED <<deleted, live, index, chunks, build, arrived, collector, rebuilds,
                    gateway, sess, bills, retries>>
    BY <1>8 DEF DayPasses, ArchivingGoesStale, ivars
  <2>6. faults' \in Nat /\ sess' \in [Sessions -> Session]
    BY <1>8, <2>5 DEF DayPasses, ArchivingGoesStale, ivars, Fault, PInv, IInv, IndexTypeOK, TypeOK
  <2> QED
    BY <2>1, <2>2, <2>3, <2>4, <2>5, <2>6, ColumnKeeps
<1>9. CASE IndexStep /\ UNCHANGED pvars
  <2>1. UNCHANGED <<job, gateway, sess, bills, retries>>
    BY <1>9 DEF pvars
  <2>2. IInv'
    BY <1>9, StepKeeps DEF PInv
  <2>3. /\ live' \subseteq live
        /\ \A j \in Jobs : index'[j].status = "none" <=> index[j].status = "none"
    BY <1>9, IndexEffect DEF PInv
  <2>4. TypeOK' /\ SessionsKnow'
    BY <2>1, <2>2 DEF PInv, TypeOK, SessionsKnow, IInv
  <2>5. ArchivedIsAccounted' /\ AbsentIsBare'
    BY <2>1, <2>3 DEF PInv, ArchivedIsAccounted, AbsentIsBare
  <2> QED
    BY <2>2, <2>3, <2>4, <2>5 DEF PInv
<1>10. CASE UNCHANGED vars
  <2>1. UNCHANGED <<deleted, live, index, chunks, build, arrived, collector, rebuilds, faults,
                    job, gateway, sess, bills, retries>>
    BY <1>10 DEF vars, ivars, pvars
  <2>2. /\ job' \in [Jobs -> JobRow] /\ sess' \in [Sessions -> Session] /\ retries' \in Nat
        /\ faults' \in Nat
        /\ \A k \in Jobs : job'[k].task <= Len(gateway[k]) /\ job'[k] = job[k]
        /\ \A t \in Sessions : sess'[t] = sess[t]
    BY <2>1, JobType DEF PInv, TypeOK, IndexTypeOK
  <2> QED
    BY <2>1, <2>2, RowsKeep
<1> QED
  BY <1>1, <1>2, <1>3, <1>4, <1>5, <1>6, <1>7, <1>8, <1>9, <1>10 DEF Next, Sessions

LEMMA PipelineStarts == Init => PInv
<1> SUFFICES ASSUME Init PROVE PInv
    OBVIOUS
<1> USE DEF Init
<1>1. IInv
  BY InitKeeps
<1>2. job \in [Jobs -> JobRow]
  <2> DEFINE row == [status |-> "absent", task |-> 0, fresh |-> TRUE, old |-> FALSE]
  <2>1. row \in JobRow
    BY DEF JobRow
  <2>2. job = [j \in Jobs |-> row]
    OBVIOUS
  <2> HIDE DEF row
  <2> QED
    BY <2>1, <2>2
<1>3. sess \in [Sessions -> Session]
  BY DEF Session
<1>4. TypeOK
  BY <1>1, <1>2, <1>3 DEF TypeOK, IInv
<1>5. ArchivedIsAccounted /\ SessionsKnow /\ AbsentIsBare
  BY DEF ArchivedIsAccounted, SessionsKnow, AbsentIsBare, IndexInit
<1> QED
  BY <1>1, <1>4, <1>5 DEF PInv

LEMMA PipelineInductive == Spec => []PInv
BY PipelineStarts, PipelineKeeps, PTL DEF Spec

-----------------------------------------------------------------------------

(* Rows, tasks and sessions keep their types, and no row names a task the  *)
(* gateway never gave out.                                                 *)
THEOREM PipelineTypes == Spec => []TypeOK
BY PipelineInductive, PTL DEF PInv

(* With any number of jobs, requests and passes, whatever polls and        *)
(* callbacks write over each other: a job that reads succeeded has been    *)
(* paid for, and is on its way to an index unless it was deleted.          *)
THEOREM SucceededIsAccounted == Spec => []ArchivedIsAccounted
BY PipelineInductive, PTL DEF PInv

(* What IndexFence promises of an index that is ready holds inside the     *)
(* pipeline too, where archives schedule indexes again and new uploads     *)
(* bring a document back.                                                  *)
THEOREM PipelineServesWhatIsReady == Spec => [](ReadyIsSearchable /\ OneCurrentBuilder)
<1>1. PInv => ReadyIsSearchable /\ OneCurrentBuilder
  BY DEF PInv, IInv, GenerationsUnique, OneCurrentBuilder, Current
<1> QED
  BY <1>1, PipelineInductive, PTL
=============================================================================
