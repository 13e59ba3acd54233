----------------------------- MODULE LocalWiki -----------------------------
(***************************************************************************)
(* What retains the versions of a local workspace: the revisions of its    *)
(* wikis (wiki_store.py, build_wiki() and edit_wiki() of runtime.py) and   *)
(* the answers of its conversations.  A build is a row of tasks under its  *)
(* operation key; it runs in the process that was asked, and never again.  *)
(* Builds are numbered by the order of their requests; a revision has the  *)
(* number of the build that wrote it, a wiki that of its first revision.   *)
(* How a version becomes ready is in LocalParse; here it is or is not.     *)
(***************************************************************************)
EXTENDS Integers

CONSTANTS
    MaxVersions,   \* bound: versions ever imported or parsed
    MaxBuilds,     \* bound: builds and edits ever requested
    Chats,         \* conversations
    MaxStops       \* bound: processes killed and leases lost by a stall

ASSUME LocalWikiAssumption ==
    MaxVersions \in Nat /\ MaxBuilds \in Nat /\ MaxStops \in Nat

Versions == 1 .. MaxVersions
Builds   == 1 .. MaxBuilds

VARIABLES
    version,    \* version -> its state and its resource
    build,      \* build -> its task row, its request and how far it has come
    revision,   \* build -> the revision it wrote
    head,       \* wiki -> its current revision, 0 without one
    chat,       \* conversation -> its version, a question under way, its answers
    looping,    \* some process of the workspace has a work_forever() that goes on
    stops

wikiVars == <<version, build, revision, head, chat, looping, stops>>

VersionRow == [state : {"absent", "ready", "withdrawn", "deleted"}, resource : 0 .. MaxVersions]

BuildRow == [status : {"none", "running", "succeeded", "failed", "cancelled"},
             lease : {"none", "live", "expired"},
             pc : {"none", "begun", "generating", "failing"},
             wiki : 0 .. MaxBuilds, base : 0 .. MaxBuilds,
             sources : SUBSET Versions, edit : BOOLEAN]

RevisionRow == [wiki : 0 .. MaxBuilds, base : 0 .. MaxBuilds,
                deps : SUBSET Versions, human : BOOLEAN]

ChatRow == [of : 0 .. MaxVersions, asking : 0 .. MaxVersions, cites : BOOLEAN]

(* Once it is over, a build is its status.                                 *)
Over(status) == [status |-> status, lease |-> "none", pc |-> "none",
                 wiki |-> 0, base |-> 0, sources |-> {}, edit |-> FALSE]

LocalWikiInit ==
    /\ version = [v \in Versions |-> [state |-> "absent", resource |-> 0]]
    /\ build = [k \in Builds |-> Over("none")]
    /\ revision = [k \in Builds |-> [wiki |-> 0, base |-> 0, deps |-> {}, human |-> FALSE]]
    /\ head = [k \in Builds |-> 0]
    /\ chat = [c \in Chats |-> [of |-> 0, asking |-> 0, cites |-> FALSE]]
    /\ looping \in BOOLEAN
    /\ stops = 0

Exists(v) == version[v].state \in {"ready", "withdrawn"}
Ready(V) == \A v \in V : version[v].state = "ready"
Alive(k) == build[k].pc # "none"

StopsOnce == stops < MaxStops /\ stops' = stops + 1

-----------------------------------------------------------------------------
(* An import, or the success of a parse: of a new resource or of one that  *)
(* is there.                                                               *)
VersionAppears(v) ==
    /\ version[v].state = "absent" /\ \A u \in 1 .. (v - 1) : version[u].state # "absent"
    /\ \E r \in {v} \cup {version[u].resource : u \in {w \in Versions : Exists(w)}} :
          version' = [version EXCEPT ![v] = [state |-> "ready", resource |-> r]]
    /\ UNCHANGED <<build, revision, head, chat, looping, stops>>

Withdraw(v) ==
    /\ version[v].state = "ready"
    /\ version' = [version EXCEPT ![v].state = "withdrawn"]
    /\ UNCHANGED <<build, revision, head, chat, looping, stops>>

-----------------------------------------------------------------------------
(* begin_generation(): a request for a new wiki from some sources, for a   *)
(* rebuild of a wiki, or for an edit of one of its pages; the base is the  *)
(* revision the client has seen last.                                      *)
BeginBuild(k) ==
    /\ build[k].status = "none" /\ \A j \in 1 .. (k - 1) : build[j].status # "none"
    /\ \E w \in {0} \cup {j \in Builds : head[j] # 0}, edit \in BOOLEAN,
          V \in SUBSET {v \in Versions : Exists(v)} :
          /\ edit => w # 0
          /\ edit <=> V = {}
          /\ \E r \in IF w = 0 THEN {0} ELSE {j \in Builds : revision[j].wiki = w} :
                build' = [build EXCEPT ![k] =
                    [status |-> "running", lease |-> "live", pc |-> "begun",
                     wiki |-> w, base |-> r, sources |-> V, edit |-> edit]]
    /\ UNCHANGED <<version, revision, head, chat, looping, stops>>

(* The evidence of an edit is all that its base depends on.                *)
Frozen(k) == IF build[k].edit THEN revision[build[k].base].deps ELSE build[k].sources

CurrentBase_Trusted(k) == TRUE

CurrentBase(k) == build[k].wiki # 0 => head[build[k].wiki] = build[k].base

(* check_base() and freeze(), or the staleness check of an edit.           *)
FreezeSources(k) ==
    /\ build[k].pc = "begun" /\ Ready(Frozen(k))
    /\ build[k].wiki # 0 => head[build[k].wiki] = build[k].base
    /\ build' = [build EXCEPT ![k].pc = "generating"]
    /\ UNCHANGED <<version, revision, head, chat, looping, stops>>

(* check_frozen(): the sources may have been withdrawn or deleted while    *)
(* the model was generating.                                               *)
StillFrozen_Trusted(k) == TRUE

StillFrozen(k) == Ready(Frozen(k))

StillRuns_Trusted(k) == TRUE

StillRuns(k) == build[k].status = "running"

(* A rebuild keeps the pages people have written, and what those cite.     *)
Carried(k) ==
    IF build[k].base # 0 /\ revision[build[k].base].human
    THEN {v \in revision[build[k].base].deps : Exists(v)} ELSE {}

(* finish_generation() with publish() in one transaction.                  *)
PublishRevision(k) ==
    /\ build[k].pc = "generating"
    /\ StillRuns(k) /\ StillFrozen(k) /\ CurrentBase(k)
    /\ LET w == IF build[k].wiki = 0 THEN k ELSE build[k].wiki
       IN  /\ \E human \in IF build[k].edit THEN BOOLEAN
                           ELSE {build[k].base # 0 /\ revision[build[k].base].human} :
                 revision' = [revision EXCEPT ![k] =
                    [wiki |-> w, base |-> build[k].base,
                     deps |-> Frozen(k) \cup Carried(k), human |-> human]]
           /\ head' = [head EXCEPT ![w] = k]
    /\ build' = [build EXCEPT ![k] = Over("succeeded")]
    /\ UNCHANGED <<version, chat, looping, stops>>

(* Whatever operation(), the heartbeat or finish_generation() raises rolls *)
(* back and is followed by fail() in a transaction of its own.             *)
BuildRaises(k) ==
    /\ build[k].pc \in {"begun", "generating"}
    /\ build' = [build EXCEPT ![k].pc = "failing"]
    /\ UNCHANGED <<version, revision, head, chat, looping, stops>>

Ended(b, status) == IF b.status = "running" THEN status ELSE b.status

FailBuild(k) ==
    /\ build[k].pc = "failing"
    /\ build' = [build EXCEPT ![k] = Over(Ended(@, "failed"))]
    /\ UNCHANGED <<version, revision, head, chat, looping, stops>>

RenewBuild(k) ==
    /\ build[k].pc \in {"begun", "generating"}
    /\ build[k].status = "running" /\ build[k].lease = "expired"
    /\ build' = [build EXCEPT ![k].lease = "live"]
    /\ UNCHANGED <<version, revision, head, chat, looping, stops>>

BuildLeaseRunsOut(k) ==
    /\ build[k].status = "running" /\ build[k].lease = "live"
    /\ build' = [build EXCEPT ![k].lease = "expired"]
    /\ IF Alive(k) THEN StopsOnce ELSE UNCHANGED stops
    /\ UNCHANGED <<version, revision, head, chat, looping>>

(* The row ends while the run goes on, if there is one.                    *)
EndedRow(b, status) == IF b.pc = "none" THEN Over(status) ELSE [b EXCEPT !.status = status]

CancelBuild(k) ==
    /\ build[k].status = "running"
    /\ build' = [build EXCEPT ![k] = EndedRow(@, "cancelled")]
    /\ UNCHANGED <<version, revision, head, chat, looping, stops>>

(* A server starts its loop once, and the command "work" is one; the other *)
(* commands have none.  A loop ends with its process, or by an exception.  *)
StartLoop ==
    /\ ~looping /\ looping' = TRUE
    /\ UNCHANGED <<version, build, revision, head, chat, stops>>

EndLoop ==
    /\ looping /\ looping' = FALSE
    /\ UNCHANGED <<version, build, revision, head, chat, stops>>

(* The first part of claim(), in the loop of any process: a build whose    *)
(* lease has run out may have reached a provider that is paid, so it is    *)
(* ended and not run again.                                                *)
Interruptible_Never(k) == FALSE

Interruptible(k) == build[k].status = "running" /\ build[k].lease = "expired"

InterruptBuilds ==
    /\ looping
    /\ \E k \in Builds : Interruptible(k)
    /\ build' = [k \in Builds |->
            IF Interruptible(k) THEN EndedRow(build[k], "failed") ELSE build[k]]
    /\ UNCHANGED <<version, revision, head, chat, looping, stops>>

(* The process of a build ends: in order, and then the build fails, or     *)
(* killed, and then its row is left to its lease.                          *)
BuildIsKilled(k) ==
    /\ Alive(k) /\ StopsOnce
    /\ \/ build' = [build EXCEPT ![k] = Over(Ended(@, "failed"))]
       \/ build' = [build EXCEPT ![k] =
             IF @.status = "running" THEN [Over("running") EXCEPT !.lease = build[k].lease]
             ELSE Over(@.status)]
    /\ UNCHANGED <<version, revision, head, chat, looping>>

-----------------------------------------------------------------------------
(* Conversations about a version.                                          *)

OpenChat(c, v) ==
    /\ chat[c].of = 0 /\ chat[c].asking = 0 /\ Exists(v)
    /\ chat' = [chat EXCEPT ![c].of = v]
    /\ UNCHANGED <<version, build, revision, head, looping, stops>>

(* ask(): search in the version, then the model, then the answer with its  *)
(* citations, which is refused when the conversation is gone by then.      *)
Ask(c) ==
    /\ chat[c].of # 0 /\ chat[c].asking = 0 /\ Ready({chat[c].of})
    /\ chat' = [chat EXCEPT ![c].asking = chat[c].of]
    /\ UNCHANGED <<version, build, revision, head, looping, stops>>

StoreAnswer(c) ==
    /\ chat[c].asking # 0
    /\ \E cites \in BOOLEAN :
          chat' = [chat EXCEPT ![c].asking = 0, ![c].cites = @ \/ (cites /\ chat[c].of # 0)]
    /\ UNCHANGED <<version, build, revision, head, looping, stops>>

DeleteChat(c) ==
    /\ chat[c].of # 0
    /\ chat' = [chat EXCEPT ![c].of = 0, ![c].cites = FALSE]
    /\ UNCHANGED <<version, build, revision, head, looping, stops>>

-----------------------------------------------------------------------------
(* _guard_delete(), and the conversations that go with the versions: those *)
(* about them and all about their resource.                                *)
Retained(V) ==
    \/ \E k \in Builds : revision[k].deps \cap V # {}
    \/ \E c \in Chats : chat[c].cites /\ chat[c].of \in V

Delete(V) ==
    /\ V # {} /\ (\A v \in V : Exists(v)) /\ ~Retained(V)
    /\ version' = [v \in Versions |->
            IF v \in V THEN [version[v] EXCEPT !.state = "deleted"] ELSE version[v]]
    /\ LET gone(c) == /\ chat[c].of # 0
                      /\ \E v \in V : version[v].resource = version[chat[c].of].resource
       IN  chat' = [c \in Chats |->
              IF gone(c) THEN [chat[c] EXCEPT !.of = 0, !.cites = FALSE] ELSE chat[c]]
    /\ UNCHANGED <<build, revision, head, looping, stops>>

OfResource(v) == {u \in Versions : Exists(u) /\ version[u].resource = version[v].resource}

-----------------------------------------------------------------------------
BuildStep(k) == FreezeSources(k) \/ PublishRevision(k) \/ BuildRaises(k) \/ FailBuild(k)

LocalWikiNext ==
    \/ \E v \in Versions : \/ VersionAppears(v) \/ Withdraw(v)
                           \/ Delete({v}) \/ Delete(OfResource(v))
    \/ \E k \in Builds : \/ BeginBuild(k) \/ BuildStep(k) \/ RenewBuild(k)
                         \/ BuildLeaseRunsOut(k) \/ CancelBuild(k) \/ BuildIsKilled(k)
    \/ StartLoop \/ EndLoop \/ InterruptBuilds
    \/ \E c \in Chats : \/ \E v \in Versions : OpenChat(c, v)
                        \/ Ask(c) \/ StoreAnswer(c) \/ DeleteChat(c)

LocalWikiSpec == LocalWikiInit /\ [][LocalWikiNext]_wikiVars

(* Model calls have a timeout, abandoned leases run out, and a loop claims *)
(* as long as it goes on.  Nothing makes one start, or go on for ever.     *)
WikiFairness ==
    /\ \A k \in Builds : /\ WF_wikiVars(BuildStep(k))
                         /\ WF_wikiVars(stops' = stops /\ BuildLeaseRunsOut(k))
    /\ WF_wikiVars(InterruptBuilds)

FairLocalWikiSpec == LocalWikiSpec /\ WikiFairness

-----------------------------------------------------------------------------
(* Properties.                                                             *)

(* Every variable keeps its type.                                          *)
LocalWikiTypeOK ==
    /\ version \in [Versions -> VersionRow]
    /\ build \in [Builds -> BuildRow]
    /\ revision \in [Builds -> RevisionRow]
    /\ head \in [Builds -> 0 .. MaxBuilds]
    /\ chat \in [Chats -> ChatRow]
    /\ looping \in BOOLEAN
    /\ stops \in 0 .. MaxStops

(* What a revision depends on and what an answer cites is still there,     *)
(* though a source may be deleted while a model generates from it          *)
(* (_guard_delete(), check_frozen()).                                      *)
SourcesAreRetained ==
    /\ \A k \in Builds : \A v \in revision[k].deps : Exists(v)
    /\ \A c \in Chats : chat[c].cites => chat[c].of # 0 /\ Exists(chat[c].of)

(* No edit is lost: the revisions of a wiki are one chain that ends at its *)
(* head, whoever builds and edits at once (check_base() in publish()).     *)
NoForks ==
    \A j \in Builds :
        LET chain == {k \in Builds : revision[k].wiki = revision[j].wiki}
        IN  revision[j].wiki # 0 =>
                /\ \A k \in chain : revision[k].base = revision[j].base => k = j
                /\ head[revision[j].wiki] = j \/ \E k \in chain : revision[k].base = j

(* A build that was cancelled, interrupted or has failed never publishes   *)
(* after all, though its model may still be generating, and a revision is  *)
(* not written again (finish_generation()).                                *)
EndedBuildsStay ==
    [][\A k \in Builds : build[k].status \in {"succeeded", "failed", "cancelled"} =>
          build'[k].status = build[k].status /\ revision'[k] = revision[k]]_wikiVars

(* An accepted build comes to an end, also when its process is killed,     *)
(* unless no loop is left to find it: then it is running for nobody until  *)
(* a server or a worker of the workspace starts (claim(), work_forever()). *)
EveryBuildEnds ==
    \A k \in Builds :
        build[k].status = "running" ~>
            (build[k].status # "running" \/ (~looping /\ ~Alive(k)))

=============================================================================
