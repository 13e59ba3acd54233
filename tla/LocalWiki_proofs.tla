-------------------------- MODULE LocalWiki_proofs --------------------------
(* Proofs about LocalWiki, for any number of versions, builds, chats and   *)
(* stops.  That every build ends is left to TLC.                           *)
EXTENDS LocalWiki, TLAPS

USE LocalWikiAssumption

(* The inductive invariant.  What a build rests on: its base is a revision *)
(* of the wiki it is for, and it has written one if and only if it says so. *)
RowOK(k, b) ==
    /\ b.status = "succeeded" <=> revision[k].wiki # 0
    /\ b.pc # "none" =>
          /\ b.status \in {"running", "failed", "cancelled"}
          /\ b.wiki = 0 => b.base = 0 /\ ~b.edit
          /\ b.wiki # 0 => b.base # 0 /\ revision[b.base].wiki = b.wiki

BuildInv == \A k \in Builds : RowOK(k, build[k])

(* Nobody can rest on the head: that is what check_base() keeps, and why   *)
(* a revision that rests on it is the first to do so.                      *)
Rooted(j) ==
    revision[j].wiki # 0 =>
        /\ head[revision[j].wiki] # 0
        /\ revision[revision[j].wiki].wiki = revision[j].wiki
        /\ revision[j].base = 0 <=> revision[j].wiki = j
        /\ revision[j].base # 0 => revision[revision[j].base].wiki = revision[j].wiki
        /\ revision[j].base # head[revision[j].wiki]

Headed(w) == head[w] # 0 => revision[head[w]].wiki = w

Siblings(j, k) == revision[j].wiki # 0 /\ revision[k].wiki = revision[j].wiki

Chained(j) ==
    revision[j].wiki # 0 =>
        /\ \A k \in Builds : Siblings(j, k) /\ revision[k].base = revision[j].base => k = j
        /\ \/ head[revision[j].wiki] = j
           \/ \E k \in Builds : Siblings(j, k) /\ revision[k].base = j

ChainInv == \A j \in Builds : Rooted(j) /\ Headed(j) /\ Chained(j)

ChatInv == \A c \in Chats : chat[c].of # 0 => Exists(chat[c].of)

WikiInv == LocalWikiTypeOK /\ BuildInv /\ ChainInv /\ ChatInv /\ SourcesAreRetained

LEMMA WikiInitInv == LocalWikiInit => WikiInv
<1> SUFFICES ASSUME LocalWikiInit PROVE WikiInv OBVIOUS
<1>1. LocalWikiTypeOK
  <2>1. version \in [Versions -> VersionRow] BY DEF LocalWikiInit, VersionRow
  <2>2. build \in [Builds -> BuildRow] BY DEF LocalWikiInit, BuildRow, Over
  <2>3. revision \in [Builds -> RevisionRow] BY DEF LocalWikiInit, RevisionRow
  <2>4. head \in [Builds -> 0 .. MaxBuilds] /\ looping \in BOOLEAN /\ stops \in 0 .. MaxStops
      BY DEF LocalWikiInit
  <2>5. chat \in [Chats -> ChatRow] BY DEF LocalWikiInit, ChatRow
  <2> QED BY <2>1, <2>2, <2>3, <2>4, <2>5 DEF LocalWikiTypeOK
<1>2. BuildInv BY DEF LocalWikiInit, BuildInv, RowOK, Over
<1>3. ChainInv BY DEF LocalWikiInit, ChainInv, Rooted, Headed, Chained
<1>4. ChatInv BY DEF LocalWikiInit, ChatInv
<1>5. SourcesAreRetained BY DEF LocalWikiInit, SourcesAreRetained
<1> QED BY <1>1, <1>2, <1>3, <1>4, <1>5 DEF WikiInv

LEMMA ChainsAreForkless == ChainInv => NoForks
<1> SUFFICES ASSUME ChainInv, NEW j \in Builds, revision[j].wiki # 0
             PROVE LET chain == {k \in Builds : revision[k].wiki = revision[j].wiki}
                   IN  /\ \A k \in chain : revision[k].base = revision[j].base => k = j
                       /\ \/ head[revision[j].wiki] = j
                          \/ \E k \in chain : revision[k].base = j
    BY DEF NoForks
<1>1. Chained(j) BY DEF ChainInv
<1> QED BY <1>1 DEF Chained, Siblings

(* A row that is over has every type it needs.                             *)
LEMMA OverRow ==
    ASSUME NEW s \in {"none", "running", "succeeded", "failed", "cancelled"}
    PROVE  Over(s) \in BuildRow
<1> QED BY DEF Over, BuildRow

(* Steps that rewrite the row of one build and touch nothing else.         *)
LEMMA BuildUpdate ==
    ASSUME WikiInv, NEW k \in Builds, NEW b \in BuildRow, RowOK(k, b),
           build' = [build EXCEPT ![k] = b],
           UNCHANGED <<version, revision, head, chat, looping>>, stops' \in 0 .. MaxStops
    PROVE  WikiInv'
<1>1. LocalWikiTypeOK' BY DEF WikiInv, LocalWikiTypeOK
<1>2. BuildInv'
  <2> SUFFICES ASSUME NEW j \in Builds PROVE RowOK(j, build[j])' BY DEF BuildInv
  <2>1. RowOK(j, build'[j])
    <3>1. CASE j = k BY <3>1 DEF WikiInv, LocalWikiTypeOK
    <3>2. CASE j # k BY <3>2 DEF WikiInv, LocalWikiTypeOK, BuildInv
    <3> QED BY <3>1, <3>2
  <2> QED BY <2>1 DEF RowOK
<1>3. ChainInv' BY DEF WikiInv, ChainInv, Rooted, Headed, Chained, Siblings
<1>4. ChatInv' BY DEF WikiInv, ChatInv, Exists
<1>5. SourcesAreRetained' BY DEF WikiInv, SourcesAreRetained, Exists
<1> QED BY <1>1, <1>2, <1>3, <1>4, <1>5 DEF WikiInv

(* The same row with another lease, status or place.                       *)
LEMMA FieldsOfRow ==
    ASSUME NEW b \in BuildRow
    PROVE  /\ \A l \in {"none", "live", "expired"} :
                 /\ [b EXCEPT !.lease = l] \in BuildRow
                 /\ \A k \in Builds : RowOK(k, b) => RowOK(k, [b EXCEPT !.lease = l])
           /\ \A s \in {"failed", "cancelled"} :
                 /\ [b EXCEPT !.status = s] \in BuildRow
                 /\ \A k \in Builds : RowOK(k, b) /\ b.status = "running"
                                          => RowOK(k, [b EXCEPT !.status = s])
           /\ \A p \in {"generating", "failing"} :
                 /\ [b EXCEPT !.pc = p] \in BuildRow
                 /\ \A k \in Builds : RowOK(k, b) /\ b.pc # "none"
                                          => RowOK(k, [b EXCEPT !.pc = p])
<1> QED BY DEF BuildRow, RowOK

LEMMA EndedRowOK ==
    ASSUME NEW k \in Builds, NEW b \in BuildRow, RowOK(k, b), b.status = "running",
           NEW s \in {"failed", "cancelled"}
    PROVE  EndedRow(b, s) \in BuildRow /\ RowOK(k, EndedRow(b, s))
<1>1. CASE b.pc = "none" BY <1>1, OverRow DEF EndedRow, RowOK, Over
<1>2. CASE b.pc # "none" BY <1>2, FieldsOfRow DEF EndedRow
<1> QED BY <1>1, <1>2

-----------------------------------------------------------------------------
(* The life of a build up to its publication.                              *)

LEMMA BuildStepsInv ==
    ASSUME WikiInv, NEW k \in Builds,
           \/ BeginBuild(k) \/ FreezeSources(k) \/ BuildRaises(k) \/ FailBuild(k)
           \/ RenewBuild(k) \/ BuildLeaseRunsOut(k) \/ CancelBuild(k) \/ BuildIsKilled(k)
    PROVE  WikiInv'
<1>0. /\ build \in [Builds -> BuildRow] /\ build[k] \in BuildRow /\ RowOK(k, build[k])
      /\ revision \in [Builds -> RevisionRow] /\ head \in [Builds -> 0 .. MaxBuilds]
      /\ stops \in 0 .. MaxStops /\ (StopsOnce => stops' \in 0 .. MaxStops)
    BY DEF WikiInv, LocalWikiTypeOK, BuildInv, StopsOnce
<1>1. CASE BeginBuild(k)
  <2>0. PICK w \in {0} \cup {j \in Builds : head[j] # 0}, edit \in BOOLEAN,
             V \in SUBSET {v \in Versions : Exists(v)} :
             /\ edit => w # 0
             /\ \E r \in IF w = 0 THEN {0} ELSE {j \in Builds : revision[j].wiki = w} :
                   build' = [build EXCEPT ![k] =
                       [status |-> "running", lease |-> "live", pc |-> "begun",
                        wiki |-> w, base |-> r, sources |-> V, edit |-> edit]]
      BY <1>1 DEF BeginBuild
  <2>1. PICK r \in IF w = 0 THEN {0} ELSE {j \in Builds : revision[j].wiki = w} :
             build' = [build EXCEPT ![k] =
                    [status |-> "running", lease |-> "live", pc |-> "begun",
                     wiki |-> w, base |-> r, sources |-> V, edit |-> edit]]
      BY <2>0
  <2> DEFINE b == [status |-> "running", lease |-> "live", pc |-> "begun",
                   wiki |-> w, base |-> r, sources |-> V, edit |-> edit]
  <2>2. w \in 0 .. MaxBuilds /\ r \in 0 .. MaxBuilds BY DEF Builds
  <2>3. b \in BuildRow BY <2>2 DEF BuildRow
  <2>4. RowOK(k, b) BY <1>0, <1>1, <2>0, <2>1, <2>2 DEF RowOK, BeginBuild, Builds
  <2>5. build' = [build EXCEPT ![k] = b] BY <2>1
  <2>6. UNCHANGED <<version, revision, head, chat, looping>> /\ stops' \in 0 .. MaxStops
      BY <1>0, <1>1 DEF BeginBuild
  <2> HIDE DEF b
  <2> QED BY <2>3, <2>4, <2>5, <2>6, BuildUpdate
<1>2. CASE FreezeSources(k)
  <2> DEFINE b == [build[k] EXCEPT !.pc = "generating"]
  <2>1. b \in BuildRow /\ RowOK(k, b) BY <1>0, <1>2, FieldsOfRow DEF FreezeSources
  <2>2. build' = [build EXCEPT ![k] = b] BY <1>0, <1>2 DEF FreezeSources
  <2>3. UNCHANGED <<version, revision, head, chat, looping>> /\ stops' \in 0 .. MaxStops
      BY <1>0, <1>2 DEF FreezeSources
  <2> HIDE DEF b
  <2> QED BY <2>1, <2>2, <2>3, BuildUpdate
<1>3. CASE BuildRaises(k)
  <2> DEFINE b == [build[k] EXCEPT !.pc = "failing"]
  <2>1. b \in BuildRow /\ RowOK(k, b) BY <1>0, <1>3, FieldsOfRow DEF BuildRaises
  <2>2. build' = [build EXCEPT ![k] = b] BY <1>0, <1>3 DEF BuildRaises
  <2>3. UNCHANGED <<version, revision, head, chat, looping>> /\ stops' \in 0 .. MaxStops
      BY <1>0, <1>3 DEF BuildRaises
  <2> HIDE DEF b
  <2> QED BY <2>1, <2>2, <2>3, BuildUpdate
<1>4. CASE FailBuild(k)
  <2> DEFINE b == Over(Ended(build[k], "failed"))
  <2>1. b \in BuildRow BY <1>0, OverRow DEF Ended, BuildRow
  <2>2. RowOK(k, b) BY <1>0, <1>4 DEF FailBuild, RowOK, Over, Ended
  <2>3. build' = [build EXCEPT ![k] = b] BY <1>0, <1>4 DEF FailBuild
  <2>4. UNCHANGED <<version, revision, head, chat, looping>> /\ stops' \in 0 .. MaxStops
      BY <1>0, <1>4 DEF FailBuild
  <2> HIDE DEF b
  <2> QED BY <2>1, <2>2, <2>3, <2>4, BuildUpdate
<1>5. CASE RenewBuild(k)
  <2> DEFINE b == [build[k] EXCEPT !.lease = "live"]
  <2>1. b \in BuildRow /\ RowOK(k, b) BY <1>0, <1>5, FieldsOfRow DEF RenewBuild
  <2>2. build' = [build EXCEPT ![k] = b] BY <1>0, <1>5 DEF RenewBuild
  <2>3. UNCHANGED <<version, revision, head, chat, looping>> /\ stops' \in 0 .. MaxStops
      BY <1>0, <1>5 DEF RenewBuild
  <2> HIDE DEF b
  <2> QED BY <2>1, <2>2, <2>3, BuildUpdate
<1>6. CASE BuildLeaseRunsOut(k)
  <2> DEFINE b == [build[k] EXCEPT !.lease = "expired"]
  <2>1. b \in BuildRow /\ RowOK(k, b) BY <1>0, <1>6, FieldsOfRow DEF BuildLeaseRunsOut
  <2>2. build' = [build EXCEPT ![k] = b] BY <1>0, <1>6 DEF BuildLeaseRunsOut
  <2>3. UNCHANGED <<version, revision, head, chat, looping>> /\ stops' \in 0 .. MaxStops
      BY <1>0, <1>6 DEF BuildLeaseRunsOut
  <2> HIDE DEF b
  <2> QED BY <2>1, <2>2, <2>3, BuildUpdate
<1>7. CASE CancelBuild(k)
  <2> DEFINE b == EndedRow(build[k], "cancelled")
  <2>1. b \in BuildRow /\ RowOK(k, b) BY <1>0, <1>7, EndedRowOK DEF CancelBuild
  <2>2. build' = [build EXCEPT ![k] = b] BY <1>0, <1>7 DEF CancelBuild
  <2>3. UNCHANGED <<version, revision, head, chat, looping>> /\ stops' \in 0 .. MaxStops
      BY <1>0, <1>7 DEF CancelBuild
  <2> HIDE DEF b
  <2> QED BY <2>1, <2>2, <2>3, BuildUpdate
<1>8. CASE BuildIsKilled(k)
  <2>1. UNCHANGED <<version, revision, head, chat, looping>> /\ stops' \in 0 .. MaxStops
      BY <1>0, <1>8 DEF BuildIsKilled
  <2>2. build[k].pc # "none" /\ build[k].status \in {"running", "failed", "cancelled"}
      BY <1>0, <1>8 DEF BuildIsKilled, Alive, RowOK
  <2>3. PICK b : /\ build' = [build EXCEPT ![k] = b]
                 /\ \/ b = Over(Ended(build[k], "failed"))
                    \/ /\ build[k].status = "running"
                       /\ b = [Over("running") EXCEPT !.lease = build[k].lease]
                    \/ b = Over(build[k].status)
      BY <1>0, <1>8 DEF BuildIsKilled
  <2>4. b \in BuildRow
    <3>1. build[k].lease \in {"none", "live", "expired"} BY <1>0 DEF BuildRow
    <3> QED BY <2>2, <2>3, <3>1, OverRow, FieldsOfRow DEF Ended
  <2>5. RowOK(k, b) BY <1>0, <2>2, <2>3 DEF RowOK, Over, Ended
  <2> QED BY <2>1, <2>3, <2>4, <2>5, BuildUpdate
<1> QED BY <1>1, <1>2, <1>3, <1>4, <1>5, <1>6, <1>7, <1>8

LEMMA InterruptInv == WikiInv /\ InterruptBuilds => WikiInv'
<1> SUFFICES ASSUME WikiInv, InterruptBuilds PROVE WikiInv' OBVIOUS
<1>1. /\ build' = [k \in Builds |->
             IF Interruptible(k) THEN EndedRow(build[k], "failed") ELSE build[k]]
      /\ UNCHANGED <<version, revision, head, chat, looping, stops>>
    BY DEF InterruptBuilds
<1>2. ASSUME NEW k \in Builds PROVE build'[k] \in BuildRow /\ RowOK(k, build'[k])
  <2>1. build[k] \in BuildRow /\ RowOK(k, build[k])
      BY DEF WikiInv, LocalWikiTypeOK, BuildInv
  <2>2. CASE Interruptible(k) BY <1>1, <2>1, <2>2, EndedRowOK DEF Interruptible
  <2>3. CASE ~Interruptible(k) BY <1>1, <2>1, <2>3
  <2> QED BY <2>2, <2>3
<1>3. LocalWikiTypeOK'
  <2>1. build' \in [Builds -> BuildRow] BY <1>1, <1>2
  <2> QED BY <1>1, <2>1 DEF WikiInv, LocalWikiTypeOK
<1>4. BuildInv' BY <1>1, <1>2 DEF BuildInv, RowOK
<1>5. ChainInv' BY <1>1 DEF WikiInv, ChainInv, Rooted, Headed, Chained, Siblings
<1>6. ChatInv' BY <1>1 DEF WikiInv, ChatInv, Exists
<1>7. SourcesAreRetained' BY <1>1 DEF WikiInv, SourcesAreRetained, Exists
<1> QED BY <1>3, <1>4, <1>5, <1>6, <1>7 DEF WikiInv

-----------------------------------------------------------------------------
(* Publication: a revision is added behind the head, or starts a wiki.     *)

LEMMA PublishInv ==
    ASSUME WikiInv, NEW k \in Builds, PublishRevision(k)
    PROVE  WikiInv'
<1> DEFINE w == IF build[k].wiki = 0 THEN k ELSE build[k].wiki
           base == build[k].base
<1>0. /\ build \in [Builds -> BuildRow] /\ build[k] \in BuildRow /\ RowOK(k, build[k])
      /\ revision \in [Builds -> RevisionRow] /\ head \in [Builds -> 0 .. MaxBuilds]
    BY DEF WikiInv, LocalWikiTypeOK, BuildInv
<1>1. PICK rev : /\ rev \in {[wiki |-> w, base |-> base, deps |-> Frozen(k) \cup Carried(k),
                             human |-> human] : human \in BOOLEAN}
                 /\ revision' = [revision EXCEPT ![k] = rev]
  <2>1. base \in 0 .. MaxBuilds BY <1>0 DEF BuildRow
  <2>2. base # 0 => revision[base].human \in BOOLEAN BY <1>0, <2>1 DEF RevisionRow, Builds
  <2> QED BY <2>2 DEF PublishRevision
<1>2. /\ head' = [head EXCEPT ![w] = k]
      /\ build' = [build EXCEPT ![k] = Over("succeeded")]
      /\ UNCHANGED <<version, chat, looping, stops>>
      /\ build[k].pc = "generating" /\ build[k].status = "running"
      /\ Ready(Frozen(k)) /\ CurrentBase(k)
    BY DEF PublishRevision, StillRuns, StillFrozen
<1>3. w \in Builds /\ w # 0 /\ base \in 0 .. MaxBuilds BY <1>0 DEF BuildRow, Builds
<1>4. /\ revision[k].wiki = 0
      /\ build[k].wiki = 0 => base = 0 /\ ~build[k].edit
      /\ build[k].wiki # 0 => base # 0 /\ revision[base].wiki = w /\ head[w] = base
    BY <1>0, <1>2 DEF RowOK, CurrentBase
<1>5. Frozen(k) \subseteq Versions /\ Carried(k) \subseteq Versions
  <2>1. base # 0 => revision[base].deps \subseteq Versions BY <1>0, <1>3 DEF RevisionRow, Builds
  <2>2. build[k].edit => base # 0 BY <1>4
  <2> QED BY <1>0, <2>1, <2>2 DEF Frozen, Carried, BuildRow
<1>6. rev \in RevisionRow /\ rev.wiki = w /\ rev.base = base
      /\ rev.deps = Frozen(k) \cup Carried(k)
    BY <1>1, <1>3, <1>5 DEF RevisionRow, Builds
<1>7. /\ revision'[k] = rev /\ \A j \in Builds \ {k} : revision'[j] = revision[j]
      /\ head'[w] = k /\ \A j \in Builds \ {w} : head'[j] = head[j]
      /\ revision' \in [Builds -> RevisionRow] /\ head' \in [Builds -> 0 .. MaxBuilds]
    BY <1>0, <1>1, <1>2, <1>3, <1>6 DEF Builds
<1> HIDE DEF w, base
<1>8. LocalWikiTypeOK'
    BY <1>0, <1>2, <1>7, OverRow DEF WikiInv, LocalWikiTypeOK
<1>9. BuildInv'
  <2> SUFFICES ASSUME NEW j \in Builds PROVE RowOK(j, build[j])' BY DEF BuildInv
  <2>1. CASE j = k BY <1>0, <1>2, <1>3, <1>6, <1>7, <2>1 DEF RowOK, Over
  <2>2. CASE j # k
    <3>1. build'[j] = build[j] /\ RowOK(j, build[j]) /\ build[j] \in BuildRow
        BY <1>0, <1>2, <2>2 DEF WikiInv, BuildInv
    <3>2. build[j].base # 0 => build[j].base \in Builds BY <3>1 DEF BuildRow, Builds
    <3> QED BY <1>4, <1>7, <2>2, <3>1, <3>2 DEF RowOK
  <2> QED BY <2>1, <2>2
<1>10. ChainInv'
  <2> USE DEF Siblings
  <2>1. \A j \in Builds : Rooted(j) /\ Headed(j) /\ Chained(j) BY DEF WikiInv, ChainInv
  <2>2. \A j \in Builds : /\ revision[j].wiki \in 0 .. MaxBuilds /\ revision[j].base \in 0 .. MaxBuilds
                          /\ head[j] \in 0 .. MaxBuilds
      BY <1>0 DEF RevisionRow
  <2>3. 0 \notin Builds /\ 0 .. MaxBuilds = {0} \cup Builds BY DEF Builds
  <2>4. CASE build[k].wiki = 0
    <3>1. w = k /\ base = 0 BY <1>4, <2>4 DEF w
    <3>2. \A j \in Builds : revision[j].wiki # k BY <1>4, <2>1, <2>3 DEF Rooted
    <3>3. ASSUME NEW j \in Builds PROVE Rooted(j)' /\ Headed(j)' /\ Chained(j)'
      <4>1. CASE j = k
        <5>1. Rooted(j)' BY <1>6, <1>7, <2>3, <3>1, <4>1 DEF Rooted
        <5>2. Headed(j)' BY <1>6, <1>7, <2>3, <3>1, <4>1 DEF Headed
        <5>3. Chained(j)' BY <1>6, <1>7, <2>3, <3>1, <3>2, <4>1 DEF Chained
        <5> QED BY <5>1, <5>2, <5>3
      <4>2. CASE j # k
        <5>1. revision'[j] = revision[j] /\ head'[j] = head[j] /\ revision[j].wiki # k
            BY <1>7, <3>1, <3>2, <4>2
        <5>2. head[j] # k /\ (revision[j].wiki # 0 => revision[j].base # k)
            BY <1>4, <2>1, <2>3 DEF Headed, Rooted
        <5>3. Rooted(j)'
            BY <1>7, <2>1, <2>2, <2>3, <3>1, <5>1, <5>2 DEF Rooted
        <5>4. Headed(j)' BY <1>7, <2>1, <2>2, <2>3, <5>1, <5>2 DEF Headed
        <5>5. Chained(j)'
            BY <1>4, <1>6, <1>7, <2>1, <2>2, <2>3, <3>1, <4>2, <5>1, <5>2 DEF Chained
        <5> QED BY <5>3, <5>4, <5>5
      <4> QED BY <4>1, <4>2
    <3> QED BY <3>3 DEF ChainInv
  <2>5. CASE build[k].wiki # 0
    <3>1. base \in Builds /\ base # k /\ revision[base].wiki = w /\ head[w] = base
        BY <1>3, <1>4, <2>3, <2>5
    <3>2. w # k /\ revision[w].wiki = w BY <1>3, <1>4, <2>1, <3>1 DEF Rooted
    <3>3. \A j \in Builds : revision[j].wiki # 0 => revision[j].base # k
        BY <1>4, <2>1, <2>3 DEF Rooted
    <3>4. \A j \in Builds : revision[j].wiki = w => revision[j].base # base
        BY <1>3, <2>1, <3>1 DEF Rooted
    <3>5. ASSUME NEW j \in Builds PROVE Rooted(j)' /\ Headed(j)' /\ Chained(j)'
      <4>1. CASE j = k
        <5>1. Rooted(j)' BY <1>3, <1>6, <1>7, <2>3, <3>1, <3>2, <4>1 DEF Rooted
        <5>2. Headed(j)' BY <1>4, <1>7, <2>1, <2>2, <2>3, <3>2, <4>1 DEF Headed
        <5>3. Chained(j)' BY <1>3, <1>6, <1>7, <3>4, <4>1 DEF Chained
        <5> QED BY <5>1, <5>2, <5>3
      <4>2. CASE j # k
        <5>1. revision'[j] = revision[j] /\ Rooted(j) /\ Headed(j) /\ Chained(j)
            BY <1>7, <2>1, <4>2
        <5>2. Rooted(j)'
          <6>1. CASE revision[j].wiki = w
              BY <1>3, <1>4, <1>7, <2>2, <2>3, <3>2, <3>3, <5>1, <6>1 DEF Rooted
          <6>2. CASE revision[j].wiki # w
              BY <1>4, <1>7, <2>2, <2>3, <5>1, <6>2 DEF Rooted
          <6> QED BY <6>1, <6>2
        <5>3. Headed(j)' BY <1>4, <1>6, <1>7, <2>2, <2>3, <5>1 DEF Headed
        <5>4. Chained(j)'
          <6>1. CASE revision[j].wiki = w
            <7>1. \A i \in Builds : Siblings(j, i)' /\ revision'[i].base = revision'[j].base
                                        => i = j
                BY <1>6, <1>7, <3>4, <5>1, <6>1 DEF Chained
            <7>2. head'[w] = j \/ \E i \in Builds : Siblings(j, i)' /\ revision'[i].base = j
              <8>1. CASE j = base BY <1>3, <1>6, <1>7, <5>1, <6>1, <8>1
              <8>2. CASE j # base
                <9>1. PICK i \in Builds : Siblings(j, i) /\ revision[i].base = j
                    BY <1>3, <3>1, <5>1, <6>1, <8>2 DEF Chained
                <9>2. i # k BY <1>4, <9>1
                <9> QED BY <1>7, <5>1, <9>1, <9>2
              <8> QED BY <8>1, <8>2
            <7> QED BY <5>1, <6>1, <7>1, <7>2 DEF Chained
          <6>2. CASE revision[j].wiki # w
              BY <1>4, <1>6, <1>7, <2>2, <2>3, <5>1, <6>2 DEF Chained
          <6> QED BY <6>1, <6>2
        <5> QED BY <5>2, <5>3, <5>4
      <4> QED BY <4>1, <4>2
    <3> QED BY <3>5 DEF ChainInv
  <2> QED BY <2>4, <2>5
<1>11. ChatInv' BY <1>2 DEF WikiInv, ChatInv, Exists
<1>12. SourcesAreRetained'
  <2>1. \A v \in rev.deps : Exists(v)
    <3>1. \A v \in Frozen(k) : Exists(v) BY <1>2 DEF Ready, Exists
    <3>2. \A v \in Carried(k) : Exists(v) BY DEF Carried
    <3> QED BY <1>6, <3>1, <3>2
  <2>2. \A j \in Builds : \A v \in revision'[j].deps : Exists(v)
      BY <1>7, <2>1 DEF WikiInv, SourcesAreRetained
  <2> QED BY <1>2, <2>2 DEF WikiInv, SourcesAreRetained, Exists
<1> QED BY <1>8, <1>9, <1>10, <1>11, <1>12 DEF WikiInv

-----------------------------------------------------------------------------
(* What is done to versions and conversations.                             *)

(* Steps that touch neither builds nor revisions.                          *)
LEMMA SourcesUpdate ==
    ASSUME WikiInv, UNCHANGED <<build, revision, head>>,
           looping' \in BOOLEAN, stops' \in 0 .. MaxStops,
           version' \in [Versions -> VersionRow], chat' \in [Chats -> ChatRow],
           \A j \in Builds : \A v \in revision[j].deps : Exists(v)',
           ChatInv', \A c \in Chats : chat'[c].cites => chat'[c].of # 0
    PROVE  WikiInv'
<1>1. LocalWikiTypeOK' BY DEF WikiInv, LocalWikiTypeOK
<1>2. BuildInv' BY DEF WikiInv, BuildInv, RowOK
<1>3. ChainInv' BY DEF WikiInv, ChainInv, Rooted, Headed, Chained, Siblings
<1>4. SourcesAreRetained' BY DEF SourcesAreRetained, ChatInv
<1> QED BY <1>1, <1>2, <1>3, <1>4 DEF WikiInv

(* A conversation row with its fields spelled out.                         *)
LEMMA ChatFields ==
    ASSUME NEW b \in ChatRow
    PROVE  /\ b.of \in 0 .. MaxVersions /\ b.asking \in 0 .. MaxVersions /\ b.cites \in BOOLEAN
           /\ \A v \in 0 .. MaxVersions : [b EXCEPT !.of = v] \in ChatRow
           /\ \A v \in 0 .. MaxVersions : [b EXCEPT !.asking = v] \in ChatRow
           /\ \A e \in BOOLEAN : [b EXCEPT !.cites = e] \in ChatRow
           /\ [[b EXCEPT !.of = 0] EXCEPT !.cites = FALSE] \in ChatRow
<1>1. /\ b.of \in 0 .. MaxVersions /\ b.asking \in 0 .. MaxVersions /\ b.cites \in BOOLEAN
      /\ \A v \in 0 .. MaxVersions : [b EXCEPT !.of = v] \in ChatRow
      /\ \A v \in 0 .. MaxVersions : [b EXCEPT !.asking = v] \in ChatRow
    BY DEF ChatRow
<1>2. ASSUME NEW d \in ChatRow, NEW e \in BOOLEAN PROVE [d EXCEPT !.cites = e] \in ChatRow
    BY DEF ChatRow
<1>3. [b EXCEPT !.of = 0] \in ChatRow BY DEF ChatRow
<1>4. [[b EXCEPT !.of = 0] EXCEPT !.cites = FALSE] \in ChatRow BY <1>2, <1>3
<1> QED BY <1>1, <1>2, <1>4

LEMMA VersionStepsInv ==
    ASSUME WikiInv, NEW v \in Versions, VersionAppears(v) \/ Withdraw(v)
    PROVE  WikiInv'
<1>0. /\ version \in [Versions -> VersionRow] /\ chat \in [Chats -> ChatRow]
      /\ revision \in [Builds -> RevisionRow]
      /\ looping \in BOOLEAN /\ stops \in 0 .. MaxStops
    BY DEF WikiInv, LocalWikiTypeOK
<1>1. /\ version' \in [Versions -> VersionRow]
      /\ \A u \in Versions : Exists(u) => Exists(u)'
      /\ UNCHANGED <<build, revision, head, chat, looping, stops>>
  <2>1. CASE VersionAppears(v)
    <3>1. PICK r \in {v} \cup {version[u].resource : u \in {w \in Versions : Exists(w)}} :
             version' = [version EXCEPT ![v] = [state |-> "ready", resource |-> r]]
        BY <2>1 DEF VersionAppears
    <3>2. r \in 0 .. MaxVersions BY <1>0 DEF VersionRow, Versions
    <3>3. [state |-> "ready", resource |-> r] \in VersionRow BY <3>2 DEF VersionRow
    <3> QED BY <1>0, <2>1, <3>1, <3>3 DEF VersionAppears, Exists
  <2>2. CASE Withdraw(v) BY <1>0, <2>2 DEF Withdraw, Exists, VersionRow
  <2> QED BY <2>1, <2>2
<1>2. \A j \in Builds : \A u \in revision[j].deps : Exists(u)'
    BY <1>0, <1>1 DEF WikiInv, SourcesAreRetained, RevisionRow
<1>3. ChatInv'
  <2>1. \A c \in Chats : chat[c].of # 0 => chat[c].of \in Versions
      BY <1>0 DEF ChatRow, Versions
  <2> QED BY <1>1, <2>1 DEF WikiInv, ChatInv
<1>4. \A c \in Chats : chat'[c].cites => chat'[c].of # 0
    BY <1>1 DEF WikiInv, SourcesAreRetained
<1> QED BY <1>0, <1>1, <1>2, <1>3, <1>4, SourcesUpdate

(* Nothing that is deleted is cited, depended on or spoken about after.    *)
LEMMA DeleteInv ==
    ASSUME WikiInv, NEW V \in SUBSET Versions, Delete(V)
    PROVE  WikiInv'
<1> DEFINE gone(c) == /\ chat[c].of # 0
                      /\ \E v \in V : version[v].resource = version[chat[c].of].resource
<1>0. /\ version \in [Versions -> VersionRow] /\ chat \in [Chats -> ChatRow]
      /\ revision \in [Builds -> RevisionRow]
      /\ looping \in BOOLEAN /\ stops \in 0 .. MaxStops
    BY DEF WikiInv, LocalWikiTypeOK
<1>1. /\ version' = [v \in Versions |->
              IF v \in V THEN [version[v] EXCEPT !.state = "deleted"] ELSE version[v]]
      /\ chat' = [c \in Chats |->
              IF gone(c) THEN [chat[c] EXCEPT !.of = 0, !.cites = FALSE] ELSE chat[c]]
      /\ UNCHANGED <<build, revision, head, looping, stops>>
      /\ ~Retained(V)
    BY DEF Delete
<1>2. \A v \in Versions \ V : Exists(v) => Exists(v)' BY <1>1 DEF Exists
<1>3. version' \in [Versions -> VersionRow] BY <1>0, <1>1 DEF VersionRow
<1>4. chat' \in [Chats -> ChatRow]
  <2>1. ASSUME NEW c \in Chats PROVE chat'[c] \in ChatRow
    <3>1. chat[c] \in ChatRow BY <1>0
    <3>2. [chat[c] EXCEPT !.of = 0, !.cites = FALSE]
            = [[chat[c] EXCEPT !.of = 0] EXCEPT !.cites = FALSE]
        BY <3>1 DEF ChatRow
    <3>3. [[chat[c] EXCEPT !.of = 0] EXCEPT !.cites = FALSE] \in ChatRow
        BY <3>1, ChatFields
    <3> QED BY <1>1, <3>1, <3>2, <3>3
  <2> QED BY <1>1, <2>1
<1>5. \A j \in Builds : \A v \in revision[j].deps : Exists(v)'
  <2> SUFFICES ASSUME NEW j \in Builds, NEW v \in revision[j].deps PROVE Exists(v)' OBVIOUS
  <2>1. v \in Versions BY <1>0 DEF RevisionRow
  <2>2. v \notin V BY <1>1 DEF Retained
  <2>3. Exists(v) BY DEF WikiInv, SourcesAreRetained
  <2> QED BY <1>2, <2>1, <2>2, <2>3
<1>6. ASSUME NEW c \in Chats
      PROVE  /\ chat'[c].of # 0 => Exists(chat[c].of)' /\ chat'[c].of = chat[c].of
             /\ chat'[c].cites => chat'[c].of # 0
  <2>1. chat[c] \in ChatRow BY <1>0
  <2>2. chat[c].cites => chat[c].of # 0 BY DEF WikiInv, SourcesAreRetained
  <2>3. CASE gone(c) BY <1>1, <2>1, <2>3 DEF ChatRow
  <2>4. CASE ~gone(c)
    <3>1. chat'[c] = chat[c] BY <1>1, <2>4
    <3>2. chat[c].of # 0 => chat[c].of \in Versions \ V BY <2>1, <2>4 DEF ChatRow, Versions
    <3> QED BY <1>2, <2>2, <3>1, <3>2 DEF WikiInv, ChatInv
  <2> QED BY <2>3, <2>4
<1>7. ChatInv' BY <1>6 DEF ChatInv
<1> QED BY <1>0, <1>1, <1>3, <1>4, <1>5, <1>6, <1>7, SourcesUpdate

LEMMA ChatStepsInv ==
    ASSUME WikiInv, NEW c \in Chats,
           \/ \E v \in Versions : OpenChat(c, v)
           \/ Ask(c) \/ StoreAnswer(c) \/ DeleteChat(c)
    PROVE  WikiInv'
<1>0. /\ version \in [Versions -> VersionRow] /\ chat \in [Chats -> ChatRow]
      /\ chat[c] \in ChatRow /\ looping \in BOOLEAN /\ stops \in 0 .. MaxStops
    BY DEF WikiInv, LocalWikiTypeOK
<1>1. UNCHANGED <<version, build, revision, head, looping, stops>>
    BY DEF OpenChat, Ask, StoreAnswer, DeleteChat
<1>2. PICK b \in ChatRow :
        /\ chat' = [chat EXCEPT ![c] = b]
        /\ b.of # 0 => Exists(b.of)
        /\ b.cites => b.of # 0
  <2>1. chat[c].of # 0 => Exists(chat[c].of) BY DEF WikiInv, ChatInv
  <2>2. chat[c].cites => chat[c].of # 0 BY DEF WikiInv, SourcesAreRetained
  <2>3. CASE \E v \in Versions : OpenChat(c, v)
    <3>1. PICK v \in Versions : OpenChat(c, v) BY <2>3
    <3> DEFINE b == [chat[c] EXCEPT !.of = v]
    <3>2. chat' = [chat EXCEPT ![c] = b] /\ Exists(v) BY <3>1 DEF OpenChat
    <3>3. v \in 0 .. MaxVersions BY DEF Versions
    <3>4. b \in ChatRow BY <1>0, <3>3, ChatFields
    <3>5. b.of = v /\ v # 0 BY <1>0 DEF ChatRow, Versions
    <3> QED BY <3>2, <3>4, <3>5
  <2>4. CASE Ask(c)
    <3> DEFINE b == [chat[c] EXCEPT !.asking = chat[c].of]
    <3>1. chat' = [chat EXCEPT ![c] = b] BY <2>4 DEF Ask
    <3>2. b \in ChatRow BY <1>0, ChatFields
    <3>3. b.of = chat[c].of /\ b.cites = chat[c].cites BY <1>0 DEF ChatRow
    <3> QED BY <2>1, <2>2, <3>1, <3>2, <3>3
  <2>5. CASE StoreAnswer(c)
    <3>1. PICK e \in BOOLEAN :
            chat' = [chat EXCEPT ![c].asking = 0,
                                 ![c].cites = chat[c].cites \/ (e /\ chat[c].of # 0)]
        BY <2>5 DEF StoreAnswer
    <3> DEFINE z == chat[c].cites \/ (e /\ chat[c].of # 0)
               b == [[chat[c] EXCEPT !.asking = 0] EXCEPT !.cites = z]
    <3>2. chat' = [chat EXCEPT ![c] = b] BY <1>0, <3>1 DEF ChatRow
    <3>3. b \in ChatRow
      <4>1. 0 \in 0 .. MaxVersions OBVIOUS
      <4>2. z \in BOOLEAN OBVIOUS
      <4>3. [chat[c] EXCEPT !.asking = 0] \in ChatRow BY <1>0, <4>1, ChatFields
      <4> HIDE DEF z
      <4> QED BY <4>2, <4>3, ChatFields
    <3>4. b.of = chat[c].of /\ b.cites = z BY <1>0 DEF ChatRow
    <3> QED BY <2>1, <2>2, <3>2, <3>3, <3>4
  <2>6. CASE DeleteChat(c)
    <3> DEFINE b == [[chat[c] EXCEPT !.of = 0] EXCEPT !.cites = FALSE]
    <3>1. chat' = [chat EXCEPT ![c] = b] BY <1>0, <2>6 DEF DeleteChat, ChatRow
    <3>2. b \in ChatRow BY <1>0, ChatFields
    <3>3. b.of = 0 /\ b.cites = FALSE BY <1>0 DEF ChatRow
    <3> QED BY <3>1, <3>2, <3>3
  <2> QED BY <2>3, <2>4, <2>5, <2>6
<1>3. chat' \in [Chats -> ChatRow] BY <1>0, <1>2
<1>4. ChatInv' BY <1>0, <1>1, <1>2 DEF WikiInv, ChatInv, Exists
<1>5. \A d \in Chats : chat'[d].cites => chat'[d].of # 0
    BY <1>0, <1>2 DEF WikiInv, SourcesAreRetained
<1>6. \A j \in Builds : \A v \in revision[j].deps : Exists(v)'
    BY <1>1 DEF WikiInv, SourcesAreRetained, Exists
<1> QED BY <1>0, <1>1, <1>3, <1>4, <1>5, <1>6, SourcesUpdate

-----------------------------------------------------------------------------
LEMMA WikiNextInv == WikiInv /\ [LocalWikiNext]_wikiVars => WikiInv'
<1> SUFFICES ASSUME WikiInv, [LocalWikiNext]_wikiVars PROVE WikiInv' OBVIOUS
<1>1. ASSUME NEW v \in Versions, VersionAppears(v) \/ Withdraw(v) PROVE WikiInv'
    BY <1>1, VersionStepsInv
<1>2. ASSUME NEW v \in Versions, Delete({v}) \/ Delete(OfResource(v)) PROVE WikiInv'
  <2>1. {v} \in SUBSET Versions /\ OfResource(v) \in SUBSET Versions BY DEF OfResource
  <2> QED BY <1>2, <2>1, DeleteInv
<1>3. ASSUME NEW k \in Builds, PublishRevision(k) PROVE WikiInv' BY <1>3, PublishInv
<1>4. ASSUME NEW k \in Builds,
             \/ BeginBuild(k) \/ FreezeSources(k) \/ BuildRaises(k) \/ FailBuild(k)
             \/ RenewBuild(k) \/ BuildLeaseRunsOut(k) \/ CancelBuild(k) \/ BuildIsKilled(k)
      PROVE WikiInv'
    BY <1>4, BuildStepsInv
<1>5. CASE InterruptBuilds BY <1>5, InterruptInv
<1>6. ASSUME NEW c \in Chats,
             \/ \E v \in Versions : OpenChat(c, v)
             \/ Ask(c) \/ StoreAnswer(c) \/ DeleteChat(c)
      PROVE WikiInv'
    BY <1>6, ChatStepsInv
<1>7. CASE UNCHANGED wikiVars
  <2>1. UNCHANGED <<version, build, revision, head, chat, looping, stops>> BY <1>7 DEF wikiVars
  <2> QED BY <2>1, SourcesUpdate DEF WikiInv, LocalWikiTypeOK, ChatInv, SourcesAreRetained, Exists
<1>8. CASE StartLoop \/ EndLoop
  <2>1. UNCHANGED <<version, build, revision, head, chat, stops>> /\ looping' \in BOOLEAN
      BY <1>8 DEF StartLoop, EndLoop
  <2> QED BY <2>1, SourcesUpdate DEF WikiInv, LocalWikiTypeOK, ChatInv, SourcesAreRetained, Exists
<1> QED BY <1>1, <1>2, <1>3, <1>4, <1>5, <1>6, <1>7, <1>8 DEF LocalWikiNext, BuildStep

THEOREM WikiInvariance == LocalWikiSpec => []WikiInv
<1>1. LocalWikiInit => WikiInv BY WikiInitInv
<1>2. WikiInv /\ [LocalWikiNext]_wikiVars => WikiInv' BY WikiNextInv
<1> QED BY <1>1, <1>2, PTL DEF LocalWikiSpec

(* Types: every row, revision and conversation keeps its type.             *)
THEOREM WikiTypes == LocalWikiSpec => []LocalWikiTypeOK
<1>1. WikiInv => LocalWikiTypeOK BY DEF WikiInv
<1> QED BY <1>1, WikiInvariance, PTL

(* No deletion, however it falls into a build or an answer, takes away     *)
(* what a revision depends on or an answer cites (_guard_delete()).        *)
THEOREM CitedIsKept == LocalWikiSpec => []SourcesAreRetained
<1>1. WikiInv => SourcesAreRetained BY DEF WikiInv
<1> QED BY <1>1, WikiInvariance, PTL

(* However many builds and edits of a wiki overlap, its revisions are one  *)
(* chain that ends at its head (check_base()).                             *)
THEOREM WikisNeverFork == LocalWikiSpec => []NoForks
<1>1. WikiInv => NoForks BY ChainsAreForkless DEF WikiInv
<1> QED BY <1>1, WikiInvariance, PTL

(* A late model answer never revives a build that has ended or rewrites a  *)
(* revision (finish_generation(), fail()).                                 *)
THEOREM EndedBuildsAreFinal == LocalWikiSpec => EndedBuildsStay
<1> DEFINE Ends(k) == build[k].status \in {"succeeded", "failed", "cancelled"}
           Stays(k) == build'[k].status = build[k].status /\ revision'[k] = revision[k]
<1>1. WikiInv /\ [LocalWikiNext]_wikiVars => [\A k \in Builds : Ends(k) => Stays(k)]_wikiVars
  <2> SUFFICES ASSUME WikiInv, LocalWikiNext, NEW j \in Builds, Ends(j) PROVE Stays(j)
      BY DEF wikiVars
  <2>0. /\ build \in [Builds -> BuildRow] /\ build[j].status # "running"
        /\ revision \in [Builds -> RevisionRow]
        /\ build[j].status # "none"
      BY DEF WikiInv, LocalWikiTypeOK
  <2>1. ASSUME NEW k \in Builds, BeginBuild(k) PROVE Stays(j)
    <3>1. k # j BY <2>0, <2>1 DEF BeginBuild
    <3> QED BY <2>0, <2>1, <3>1 DEF BeginBuild
  <2>8. ASSUME NEW k \in Builds, FreezeSources(k) \/ BuildRaises(k) PROVE Stays(j)
    <3>1. build[j] \in BuildRow BY <2>0
    <3> QED BY <2>0, <2>8, <3>1 DEF FreezeSources, BuildRaises, BuildRow
  <2>9. ASSUME NEW k \in Builds, RenewBuild(k) \/ BuildLeaseRunsOut(k) \/ CancelBuild(k)
        PROVE  Stays(j)
    <3>1. k # j BY <2>0, <2>9 DEF RenewBuild, BuildLeaseRunsOut, CancelBuild
    <3> QED BY <2>0, <2>9, <3>1 DEF RenewBuild, BuildLeaseRunsOut, CancelBuild
  <2>2. ASSUME NEW k \in Builds, PublishRevision(k) PROVE Stays(j)
    <3>1. k # j BY <2>0, <2>2 DEF PublishRevision, StillRuns
    <3> QED BY <2>0, <2>2, <3>1 DEF PublishRevision
  <2>3. ASSUME NEW k \in Builds, FailBuild(k) PROVE Stays(j)
      BY <2>0, <2>3 DEF FailBuild, Ended, Over
  <2>4. ASSUME NEW k \in Builds, BuildIsKilled(k) PROVE Stays(j)
      BY <2>0, <2>4 DEF BuildIsKilled, Ended, Over
  <2>5. CASE InterruptBuilds BY <2>0, <2>5 DEF InterruptBuilds, Interruptible
  <2>6. CASE UNCHANGED <<build, revision>> BY <2>6
  <2>7. \/ \E k \in Builds : \/ BeginBuild(k) \/ FreezeSources(k) \/ BuildRaises(k)
                             \/ RenewBuild(k) \/ BuildLeaseRunsOut(k) \/ CancelBuild(k)
                             \/ PublishRevision(k) \/ FailBuild(k) \/ BuildIsKilled(k)
        \/ InterruptBuilds \/ UNCHANGED <<build, revision>>
      BY DEF LocalWikiNext, BuildStep, VersionAppears, Withdraw, Delete, OpenChat, Ask,
             StoreAnswer, DeleteChat, StartLoop, EndLoop
  <2> QED BY <2>1, <2>2, <2>3, <2>4, <2>5, <2>6, <2>7, <2>8, <2>9
<1> QED BY <1>1, WikiInvariance, PTL DEF LocalWikiSpec, EndedBuildsStay
=============================================================================
