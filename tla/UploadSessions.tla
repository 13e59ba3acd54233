--------------------------- MODULE UploadSessions ---------------------------
(***************************************************************************)
(* Direct uploads in control-api: the rows of control.upload_sessions      *)
(* (internal/store/uploads.go, uploads_gc.go), the requests that open and  *)
(* finalize them (internal/api/upload_handlers.go), and the two loops of   *)
(* each replica that verify and expire them (internal/api/background.go).  *)
(* The object store is at the other end of every request: a call to it may *)
(* succeed without its caller ever learning so.                            *)
(*                                                                         *)
(* An upload stands for a creation key with the random object key bound to *)
(* it.  Uploads are permanent ones; quota and audit are not modelled.      *)
(* Time is abstract: a lease is live or expired, a session is overdue when *)
(* its expires_at has passed.                                              *)
(***************************************************************************)
EXTENDS Integers, FiniteSets

CONSTANTS
    Uploads,       \* upload sessions
    Commands,      \* idempotency key with engine and options of a finalize
    NoCommand,
    Callers,       \* HTTP requests in flight
    Verifiers,     \* verifyUploads() of each replica
    Keepers,       \* housekeeping() of each replica
    NoKeeper,
    BatchLimit,    \* the limit PendingVerification is called with
    MaxVerifyAttempts,   \* claims of a verification
    MaxFaults      \* bound on the faults the model explores

ASSUME UploadAssumption ==
    /\ NoCommand \notin Commands
    /\ NoKeeper \notin Keepers
    /\ BatchLimit \in Nat \ {0}
    /\ MaxVerifyAttempts \in Nat \ {0}
    /\ MaxFaults \in Nat

VARIABLES
    row,       \* the table
    s3,        \* per upload: what the object store knows of its key
    event,     \* per upload: its DocumentSubmitted event and what came of it
    hand,      \* per caller: the request it works on
    check,     \* per verifier: its batch
    keep,      \* per keeper: the session it reclaims
    faults     \* faults so far

vars == <<row, s3, event, hand, check, keep, faults>>

-----------------------------------------------------------------------------

Open  == {"created", "verifying"}
Ended == {"ready", "failed", "expired"}

Row == [status : {"absent"} \cup Open \cup Ended,
        alloc : {"pending", "allocating", "unknown", "ready"},
        mp : Nat,                              \* upload_id, 0 for NULL
        command : Commands \cup {NoCommand},   \* finalize_digest and its key
        run : Commands \cup {NoCommand},       \* engine and options
        attempts : Nat, lease : {"none", "live", "expired"},
        overdue : BOOLEAN,
        claimant : Keepers \cup {NoKeeper},    \* whose reclaim_attempted_at it is
        cooling : BOOLEAN,                     \* ... within its five minutes
        reclaimed : BOOLEAN]

Content == {"none", "good", "bad", "short"}    \* against the declared digest and size

Store == [creating : Nat,         \* NewMultipartUpload calls under way
          begun : Nat,            \* multiparts ever begun
          live : SUBSET Nat,      \* multiparts neither completed nor aborted
          parts : Content, object : Content]

Event == [sent : Nat,
          state : {"none", "pending", "registered", "rejected", "settled"},
          ref : BOOLEAN]          \* the corpus refers to the object key

Idle   == [at |-> "idle"]
Caller == {Idle}
    \cup [at : {"start", "begin", "lost", "find"}, upload : Uploads]
    \cup [at : {"attach"}, upload : Uploads, mp : Nat]
    \cup [at : {"bind"}, upload : Uploads, command : Commands, open : BOOLEAN]
    \cup [at : {"stat", "merge", "size", "void", "record"},
          upload : Uploads, command : Commands]

Claim    == [upload : Uploads, attempt : Nat]
NoVerdict == [is |-> "none"]
Verifier == [busy : BOOLEAN, todo : SUBSET Claim,
             verdict : {NoVerdict} \cup [is : {"good", "bad"}, claim : Claim]]
Resting  == [busy |-> FALSE, todo |-> {}, verdict |-> NoVerdict]

Keeper == [at : {"idle", "sweep"}] \cup
          [at : {"ask", "abort", "done", "refused"}, upload : Uploads]

Init ==
    /\ row = [u \in Uploads |->
          [status |-> "absent", alloc |-> "pending", mp |-> 0,
           command |-> NoCommand, run |-> NoCommand, attempts |-> 0, lease |-> "none",
           overdue |-> FALSE, claimant |-> NoKeeper, cooling |-> FALSE,
           reclaimed |-> FALSE]]
    /\ s3 = [u \in Uploads |-> [creating |-> 0, begun |-> 0, live |-> {},
                                parts |-> "none", object |-> "none"]]
    /\ event = [u \in Uploads |-> [sent |-> 0, state |-> "none", ref |-> FALSE]]
    /\ hand = [c \in Callers |-> Idle]
    /\ check = [v \in Verifiers |-> Resting]
    /\ keep = [k \in Keepers |-> [at |-> "idle"]]
    /\ faults = 0

Fault == faults < MaxFaults /\ faults' = faults + 1

Of(c) == hand[c].upload
End(c) == hand' = [hand EXCEPT ![c] = Idle]
At(c, pc, u) == hand' = [hand EXCEPT ![c] = [at |-> pc, upload |-> u]]
On(c, pc) == hand' = [hand EXCEPT ![c] =
                         [at |-> pc, upload |-> Of(c), command |-> hand[c].command]]

-----------------------------------------------------------------------------
(* Opening a session: handleCreateUpload() commits the row before any call *)
(* to the object store, and reconcileUploadAllocation() makes sure that at *)
(* most one multipart is ever asked for.                                   *)

Unallocated(u) == row[u].alloc # "ready" /\ row[u].status = "created" /\ ~row[u].overdue

ClaimUpload(c, u) ==
    /\ hand[c] = Idle
    /\ row[u].status = "absent"
    /\ row' = [row EXCEPT ![u].status = "created"]
    /\ At(c, "start", u)
    /\ UNCHANGED <<s3, event, check, keep, faults>>

(* A create repeated with its key, a GET or a reconcile.                   *)
Reconcile(c, u) ==
    /\ hand[c] = Idle
    /\ Unallocated(u)
    /\ At(c, IF row[u].alloc = "pending" THEN "start" ELSE "find", u)
    /\ UNCHANGED <<row, s3, event, check, keep, faults>>

MayStart_Again(u) == row[u].alloc # "ready" /\ row[u].status = "created" /\ ~row[u].overdue

MayStart(u) == row[u].alloc = "pending" /\ row[u].status = "created" /\ ~row[u].overdue

StartUploadAllocation(c) ==
    /\ hand[c].at = "start"
    /\ IF MayStart(Of(c))
       THEN /\ row' = [row EXCEPT ![Of(c)].alloc = "allocating"]
            /\ s3' = [s3 EXCEPT ![Of(c)].creating = @ + 1]
            /\ At(c, "begin", Of(c))
       ELSE UNCHANGED <<row, s3>> /\ End(c)
    /\ UNCHANGED <<event, check, keep, faults>>

(* The object store works off the call, perhaps long after it was made.    *)
S3Creates(u) ==
    /\ s3[u].creating > 0
    /\ s3' = [s3 EXCEPT ![u].creating = @ - 1, ![u].begun = @ + 1,
                        ![u].live = @ \cup {s3[u].begun + 1}]
    /\ UNCHANGED <<row, event, hand, check, keep, faults>>

S3Drops(u) ==
    /\ s3[u].creating > 0
    /\ Fault
    /\ s3' = [s3 EXCEPT ![u].creating = @ - 1]
    /\ UNCHANGED <<row, event, hand, check, keep>>

BeginAnswered(c) ==
    /\ hand[c].at = "begin"
    /\ \E id \in 1 .. s3[Of(c)].begun :
          hand' = [hand EXCEPT ![c] = [at |-> "attach", upload |-> Of(c), mp |-> id]]
    /\ UNCHANGED <<row, s3, event, check, keep, faults>>

BeginFails(c) ==
    /\ hand[c].at = "begin"
    /\ IF s3[Of(c)].creating = 0 /\ s3[Of(c)].begun = 0 THEN UNCHANGED faults ELSE Fault
    /\ At(c, "lost", Of(c))
    /\ UNCHANGED <<row, s3, event, check, keep>>

FindMultipart(c) ==
    /\ hand[c].at = "find"
    /\ \/ \E id \in s3[Of(c)].live :
             /\ s3[Of(c)].live = {id}
             /\ hand' = [hand EXCEPT ![c] = [at |-> "attach", upload |-> Of(c), mp |-> id]]
       \/ At(c, "lost", Of(c))           \* none, several, or no answer
    /\ UNCHANGED <<row, s3, event, check, keep, faults>>

AttachUploadMultipart(c) ==
    /\ hand[c].at = "attach"
    /\ row' = IF row[Of(c)].mp \in {0, hand[c].mp}
              THEN [row EXCEPT ![Of(c)].mp = hand[c].mp, ![Of(c)].alloc = "ready"]
              ELSE row
    /\ End(c)
    /\ UNCHANGED <<s3, event, check, keep, faults>>

Unknowable(u) == row[u].mp = 0 /\ row[u].alloc \in {"allocating", "unknown"}

MarkUploadAllocationUnknown(c) ==
    /\ hand[c].at = "lost"
    /\ row' = IF Unknowable(Of(c)) THEN [row EXCEPT ![Of(c)].alloc = "unknown"] ELSE row
    /\ End(c)
    /\ UNCHANGED <<s3, event, check, keep, faults>>

(* The client sends parts with the signed URLs, whole, wrong or cut short. *)
PutParts(u) ==
    /\ row[u].mp \in s3[u].live
    /\ \E p \in Content \ {"none"} : s3' = [s3 EXCEPT ![u].parts = p]
    /\ UNCHANGED <<row, event, hand, check, keep, faults>>

-----------------------------------------------------------------------------
(* handleFinalizeUpload(): it decides by the row it reads first.           *)

Finalize(c, u, k) ==
    /\ hand[c] = Idle
    /\ row[u].status \in {"created", "verifying", "ready"}
    /\ row[u].status = "created" => ~row[u].overdue
    /\ row[u].alloc = "ready"
    /\ hand' = [hand EXCEPT ![c] = [at |-> "bind", upload |-> u, command |-> k,
                                    open |-> row[u].status = "created"]]
    /\ UNCHANGED <<row, s3, event, check, keep, faults>>

Bindable_Always(u, k) == TRUE

Bindable(u, k) == row[u].command \in {NoCommand, k}

BindUploadFinalize(c) ==
    /\ hand[c].at = "bind"
    /\ LET u == Of(c)
           k == hand[c].command IN
       IF Bindable(u, k)
       THEN /\ row' = [row EXCEPT ![u].command = k]
            /\ IF hand[c].open THEN On(c, "stat") ELSE End(c)
       ELSE UNCHANGED row /\ End(c)
    /\ UNCHANGED <<s3, event, check, keep, faults>>

(* Is the object there already?  If not, all parts must be there.          *)
Stat(c) ==
    /\ hand[c].at = "stat"
    /\ LET u == Of(c) IN
       IF s3[u].object # "none" THEN On(c, "size")
       ELSE IF row[u].mp \in s3[u].live /\ s3[u].parts \in {"good", "bad"} THEN On(c, "merge")
       ELSE End(c)
    /\ UNCHANGED <<row, s3, event, check, keep, faults>>

(* The parts are listed again for the merge, and may have been sent anew.  *)
CompleteMultipart(c) ==
    /\ hand[c].at = "merge"
    /\ LET u == Of(c) IN
       IF row[u].mp \in s3[u].live
       THEN /\ s3' = [s3 EXCEPT ![u].object = s3[u].parts, ![u].live = @ \ {row[u].mp}]
            /\ On(c, "size")
       ELSE /\ UNCHANGED s3
            /\ IF s3[u].object # "none" THEN On(c, "size") ELSE End(c)
    /\ UNCHANGED <<row, event, check, keep, faults>>

CheckSize(c) ==
    /\ hand[c].at = "size"
    /\ CASE s3[Of(c)].object = "none"  -> End(c)
         [] s3[Of(c)].object = "short" -> On(c, "void")
         [] OTHER                      -> On(c, "record")
    /\ UNCHANGED <<row, s3, event, check, keep, faults>>

MarkedFailed(r) == IF r.status \in Open THEN [r EXCEPT !.status = "failed"] ELSE r

VoidUpload(c) ==
    /\ hand[c].at = "void"
    /\ row' = [row EXCEPT ![Of(c)] = MarkedFailed(@)]
    /\ End(c)
    /\ UNCHANGED <<s3, event, check, keep, faults>>

Finalized_Again(r, k) == [r EXCEPT !.status = "verifying", !.run = k]

Finalized(r, k) ==
    IF r.status = "created" THEN [r EXCEPT !.status = "verifying", !.run = k] ELSE r

FinalizeUpload(c) ==
    /\ hand[c].at = "record"
    /\ row' = [row EXCEPT ![Of(c)] = Finalized(@, hand[c].command)]
    /\ End(c)
    /\ UNCHANGED <<s3, event, check, keep, faults>>

(* A request ends anywhere: an error, a lost connection, a killed process. *)
Abandon(c) ==
    /\ hand[c] # Idle
    /\ Fault
    /\ End(c)
    /\ UNCHANGED <<row, s3, event, check, keep>>

-----------------------------------------------------------------------------
(* verifyUploads(): claim a batch, digest one object after the other, fail *)
(* what has been claimed too often.                                        *)

Verifiable(u) == row[u].status = "verifying" /\ row[u].lease # "live"

PendingVerification(v) ==
    /\ ~check[v].busy
    /\ \E S \in SUBSET {u \in Uploads : Verifiable(u)} :
          /\ \/ Cardinality(S) = BatchLimit
             \/ Cardinality(S) < BatchLimit /\ S = {u \in Uploads : Verifiable(u)}
          /\ row' = [u \in Uploads |->
                IF u \in S THEN [row[u] EXCEPT !.attempts = @ + 1, !.lease = "live"]
                           ELSE row[u]]
          /\ check' = [check EXCEPT ![v] =
                [busy |-> TRUE, verdict |-> NoVerdict,
                 todo |-> {[upload |-> u, attempt |-> row[u].attempts + 1] : u \in S}]]
    /\ UNCHANGED <<s3, event, hand, keep, faults>>

Digest(v) ==
    /\ check[v].verdict = NoVerdict
    /\ \E q \in check[v].todo :
          /\ s3[q.upload].object # "none"
          /\ check' = [check EXCEPT ![v].todo = @ \ {q}, ![v].verdict =
                         [is |-> IF s3[q.upload].object = "good" THEN "good" ELSE "bad",
                          claim |-> q]]
    /\ UNCHANGED <<row, s3, event, hand, keep, faults>>

(* The object cannot be read: unknown, not corrupt.                        *)
DigestFails(v) ==
    /\ check[v].verdict = NoVerdict
    /\ \E q \in check[v].todo :
          /\ IF s3[q.upload].object = "none" THEN UNCHANGED faults ELSE Fault
          /\ check' = [check EXCEPT ![v].todo = @ \ {q}]
    /\ UNCHANGED <<row, s3, event, hand, keep>>

Fenced_LeaseOnly(u) == row[u].lease = "live"

Fenced(u) == row[u].status = "verifying" /\ row[u].lease = "live"

Settle(v) == check' = [check EXCEPT ![v].verdict = NoVerdict]

(* The event is written in the transaction that makes the upload ready.    *)
MarkUploadVerified(v) ==
    /\ check[v].verdict.is = "good"
    /\ LET u == check[v].verdict.claim.upload IN
       IF Fenced(u)
       THEN /\ row' = [row EXCEPT ![u].status = "ready"]
            /\ event' = [event EXCEPT ![u].sent = @ + 1, ![u].state = "pending"]
       ELSE UNCHANGED <<row, event>>
    /\ Settle(v)
    /\ UNCHANGED <<s3, hand, keep, faults>>

MarkUploadFailed(v) ==
    /\ check[v].verdict.is = "bad"
    /\ LET u == check[v].verdict.claim.upload IN
          row' = [row EXCEPT ![u] = MarkedFailed(@)]
    /\ Settle(v)
    /\ UNCHANGED <<s3, event, hand, keep, faults>>

VerdictIsLost(v) ==
    /\ check[v].verdict # NoVerdict
    /\ Fault
    /\ Settle(v)
    /\ UNCHANGED <<row, s3, event, hand, keep>>

(* The limit of 32 rows in one sweep is not modelled.                      *)
Stalled(u) == Verifiable(u) /\ row[u].attempts >= MaxVerifyAttempts

FailStalledVerifications(v) ==
    /\ check[v].busy
    /\ check[v].todo = {}
    /\ check[v].verdict = NoVerdict
    /\ row' = [u \in Uploads |-> IF Stalled(u) THEN MarkedFailed(row[u]) ELSE row[u]]
    /\ check' = [check EXCEPT ![v] = Resting]
    /\ UNCHANGED <<s3, event, hand, keep, faults>>

VerifierRestarts(v) ==
    /\ check[v].busy
    /\ Fault
    /\ check' = [check EXCEPT ![v] = Resting]
    /\ UNCHANGED <<row, s3, event, hand, keep>>

InBatch(u) ==
    \E v \in Verifiers :
        \/ \E q \in check[v].todo : q.upload = u
        \/ check[v].verdict # NoVerdict /\ check[v].verdict.claim.upload = u

LeaseRunsOut(u) ==
    /\ row[u].status = "verifying"
    /\ row[u].lease = "live"
    /\ IF InBatch(u) THEN Fault ELSE UNCHANGED faults
    /\ row' = [row EXCEPT ![u].lease = "expired"]
    /\ UNCHANGED <<s3, event, hand, check, keep>>

-----------------------------------------------------------------------------
(* housekeeping(): expire what is overdue, then give back the storage of   *)
(* sessions that ended, one after the other.                               *)

Expirable_NotVerifying == {"created"}

Expirable == {"created", "verifying"}

ExpireStaleUploads(k) ==
    /\ keep[k].at = "idle"
    /\ row' = [u \in Uploads |->
          IF row[u].status \in Expirable /\ row[u].overdue
          THEN [row[u] EXCEPT !.status = "expired"] ELSE row[u]]
    /\ keep' = [keep EXCEPT ![k] = [at |-> "sweep"]]
    /\ UNCHANGED <<s3, event, hand, check, faults>>

(* The hour of grace is over: no request of the session's time is left.    *)
GraceOver(u) == row[u].overdue /\ \A c \in Callers : hand[c] # Idle => Of(c) # u

Eligible_AnyAllocation(u) ==
    \/ row[u].status \in {"failed", "expired"}
    \/ row[u].status = "ready" /\ event[u].state = "settled"

Eligible(u) ==
    /\ row[u].alloc \in {"pending", "ready"}
    /\ \/ row[u].status \in {"failed", "expired"}
       \/ row[u].status = "ready" /\ event[u].state = "settled"

Reclaimable(u) ==
    Eligible(u) /\ GraceOver(u) /\ ~row[u].reclaimed /\ ~row[u].cooling

ClaimReclaim(k, u) ==
    /\ keep[k].at = "sweep"
    /\ Reclaimable(u)
    /\ row' = [row EXCEPT ![u].claimant = k, ![u].cooling = TRUE]
    /\ keep' = [keep EXCEPT ![k] = [at |-> "ask", upload |-> u]]
    /\ UNCHANGED <<s3, event, hand, check, faults>>

NothingToReclaim(k) ==
    /\ keep[k].at = "sweep"
    /\ \A u \in Uploads : ~Reclaimable(u)
    /\ keep' = [keep EXCEPT ![k] = [at |-> "idle"]]
    /\ UNCHANGED <<row, s3, event, hand, check, faults>>

Goto(k, pc) == keep' = [keep EXCEPT ![k].at = pc]

(* collect_terminal_upload() in the corpus, under its table lock.          *)
Protected_Never(u) == FALSE

Protected(u) == event[u].ref

CollectTerminalUpload(k) ==
    /\ keep[k].at = "ask"
    /\ IF Protected(keep[k].upload)
       THEN Goto(k, "refused") /\ UNCHANGED s3
       ELSE Goto(k, "abort") /\ s3' = [s3 EXCEPT ![keep[k].upload].object = "none"]
    /\ UNCHANGED <<row, event, hand, check, faults>>

AbortMultiparts(k) ==
    /\ keep[k].at = "abort"
    /\ s3' = [s3 EXCEPT ![keep[k].upload].live = {}]
    /\ Goto(k, "done")
    /\ UNCHANGED <<row, event, hand, check, faults>>

ReclaimFails(k) ==
    /\ keep[k].at \in {"ask", "abort"}
    /\ Fault
    /\ Goto(k, "refused")
    /\ UNCHANGED <<row, s3, event, hand, check>>

Sweep(k) == keep' = [keep EXCEPT ![k] = [at |-> "sweep"]]

(* The outcome counts only if the claim is still the keeper's own.         *)
FinishReclaim(k) ==
    /\ keep[k].at \in {"done", "refused"}
    /\ LET u == keep[k].upload IN
       row' = IF row[u].claimant = k /\ ~row[u].reclaimed
              THEN [row EXCEPT ![u].claimant = NoKeeper, ![u].cooling = TRUE,
                               ![u].reclaimed = (keep[k].at = "done")]
              ELSE row
    /\ Sweep(k)
    /\ UNCHANGED <<s3, event, hand, check, faults>>

KeeperRestarts(k) ==
    /\ keep[k].at # "idle"
    /\ Fault
    /\ keep' = [keep EXCEPT ![k] = [at |-> "idle"]]
    /\ UNCHANGED <<row, s3, event, hand, check>>

Cooled(u) ==
    /\ row[u].cooling
    /\ ~row[u].reclaimed
    /\ IF \E k \in Keepers : /\ row[u].claimant = k
                             /\ keep[k].at \notin {"idle", "sweep"}
                             /\ keep[k].upload = u
       THEN Fault               \* the cleanup takes longer than five minutes
       ELSE UNCHANGED faults
    /\ row' = [row EXCEPT ![u].cooling = FALSE]
    /\ UNCHANGED <<s3, event, hand, check, keep>>

-----------------------------------------------------------------------------
(* Time, and the corpus at the other end of the outbox.                    *)

Overdue(u) ==
    /\ row[u].status # "absent"
    /\ ~row[u].overdue
    /\ row' = [row EXCEPT ![u].overdue = TRUE]
    /\ UNCHANGED <<s3, event, hand, check, keep, faults>>

(* Registered with this object, registered with an equal one that was      *)
(* there before (which deletes this one), or refused.                      *)
Deliver(u) ==
    /\ event[u].state = "pending"
    /\ \/ event' = [event EXCEPT ![u].state = "registered", ![u].ref = TRUE] /\ UNCHANGED s3
       \/ /\ event' = [event EXCEPT ![u].state = "registered"]
          /\ s3' = [s3 EXCEPT ![u].object = "none"]
       \/ event' = [event EXCEPT ![u].state = "rejected"] /\ UNCHANGED s3
    /\ UNCHANGED <<row, hand, check, keep, faults>>

(* A delivery that was still under way when another one was refused.       *)
DeliverLate(u) ==
    /\ event[u].state = "rejected"
    /\ ~event[u].ref
    /\ event' = [event EXCEPT ![u].ref = TRUE]
    /\ UNCHANGED <<row, s3, hand, check, keep, faults>>

RejectionSettles(u) ==
    /\ event[u].state = "rejected"
    /\ event' = [event EXCEPT ![u].state = "settled"]
    /\ UNCHANGED <<row, s3, hand, check, keep, faults>>

-----------------------------------------------------------------------------

CallerProgress(c) ==
    \/ StartUploadAllocation(c) \/ BeginAnswered(c) \/ BeginFails(c) \/ FindMultipart(c)
    \/ AttachUploadMultipart(c) \/ MarkUploadAllocationUnknown(c)
    \/ BindUploadFinalize(c) \/ Stat(c) \/ CompleteMultipart(c) \/ CheckSize(c)
    \/ VoidUpload(c) \/ FinalizeUpload(c)

CallerStep(c) ==
    \/ \E u \in Uploads : \/ ClaimUpload(c, u) \/ Reconcile(c, u)
                          \/ \E k \in Commands : Finalize(c, u, k)
    \/ CallerProgress(c)
    \/ Abandon(c)

VerifierStep(v) ==
    \/ PendingVerification(v) \/ Digest(v) \/ DigestFails(v)
    \/ MarkUploadVerified(v) \/ MarkUploadFailed(v) \/ VerdictIsLost(v)
    \/ FailStalledVerifications(v) \/ VerifierRestarts(v)

KeeperProgress(k) ==
    \/ ExpireStaleUploads(k) \/ NothingToReclaim(k)
    \/ CollectTerminalUpload(k) \/ AbortMultiparts(k) \/ FinishReclaim(k)

KeeperStep(k) ==
    \/ KeeperProgress(k)
    \/ \E u \in Uploads : ClaimReclaim(k, u)
    \/ ReclaimFails(k) \/ KeeperRestarts(k)

UploadStep(u) ==
    \/ S3Creates(u) \/ S3Drops(u) \/ PutParts(u) \/ LeaseRunsOut(u) \/ Cooled(u)
    \/ Overdue(u) \/ Deliver(u) \/ DeliverLate(u) \/ RejectionSettles(u)

Next ==
    \/ \E c \in Callers : CallerStep(c)
    \/ \E v \in Verifiers : VerifierStep(v)
    \/ \E k \in Keepers : KeeperStep(k)
    \/ \E u \in Uploads : UploadStep(u)

Spec == Init /\ [][Next]_vars

(* The housekeeping loops tick, requests come to an end, sessions and      *)
(* abandoned claims run out.  Nothing is assumed of verifiers.             *)
Fairness ==
    /\ \A c \in Callers : WF_vars(CallerProgress(c))
    /\ \A k \in Keepers : WF_vars(KeeperProgress(k))
    /\ \A u \in Uploads :
          /\ WF_vars(\E k \in Keepers : ClaimReclaim(k, u))
          /\ WF_vars(Overdue(u))
          /\ WF_vars(faults' = faults /\ Cooled(u))

FairSpec == Spec /\ Fairness

-----------------------------------------------------------------------------
(* Properties.                                                             *)

(* The types of the rows, the object store and the processes.              *)
TypeOK ==
    /\ row \in [Uploads -> Row]
    /\ s3 \in [Uploads -> Store]
    /\ event \in [Uploads -> Event]
    /\ hand \in [Callers -> Caller]
    /\ check \in [Verifiers -> Verifier]
    /\ keep \in [Keepers -> Keeper]
    /\ faults \in 0 .. MaxFaults

(* However often a create is repeated, and whatever became of the answer   *)
(* of the object store, an upload gets one multipart and no second one.    *)
OneMultipart == \A u \in Uploads : s3[u].begun + s3[u].creating <= 1

(* Once a receipt is attached nothing takes it away: a request that did    *)
(* not learn of it cannot put the allocation back to unknown.              *)
ReceiptStays ==
    [][\A u \in Uploads : row[u].alloc = "ready" =>
          row'[u].alloc = "ready" /\ row'[u].mp = row[u].mp]_vars

(* What is verified and submitted runs with the command that was bound     *)
(* first, however many finalize requests with other options overlap.       *)
BoundCommandRuns ==
    \A u \in Uploads :
        row[u].status \in {"verifying", "ready"} =>
            row[u].run = row[u].command /\ row[u].run # NoCommand

(* One event per upload, sent exactly when it becomes ready, although two  *)
(* replicas may digest the same object at once.                            *)
SubmittedOnce ==
    \A u \in Uploads : event[u].sent = IF row[u].status = "ready" THEN 1 ELSE 0

(* What this module says of the event of an upload is what EventOutbox     *)
(* promises, and so what OutboxDelivery keeps: it is submitted once, not   *)
(* again by a second verifier, and registers at most one document.         *)
EventStatus(e) ==
    CASE e.state = "none"                   -> "none"
      [] e.state = "pending"                -> "open"
      [] e.state = "registered"             -> "delivered"
      [] e.state \in {"rejected", "settled"} -> "dead"

Outbox == INSTANCE EventOutbox WITH
    Events  <- Uploads,
    status  <- [u \in Uploads |-> EventStatus(event[u])],
    effects <- [u \in Uploads |->
                   IF event[u].state = "registered" \/ event[u].ref THEN 1 ELSE 0]

EventsKeepOutbox == Outbox!Spec

(* A session that ended keeps its outcome: no late finalize, verdict or    *)
(* expiry revives or rewrites it, and a reclaimed row is never written.    *)
EndedStaysEnded ==
    [][\A u \in Uploads :
          /\ row[u].status \in Ended => row'[u].status = row[u].status
          /\ row[u].reclaimed => row'[u] = row[u]]_vars

(* A reclaimed session leaves nothing in the object store, not even a      *)
(* multipart whose creation was still under way.                           *)
ReclaimedLeavesNothing ==
    \A u \in Uploads : row[u].reclaimed =>
        /\ s3[u].object = "none"
        /\ s3[u].live = {}
        /\ s3[u].creating = 0

(* The bytes a document refers to are there, also when the upload reads    *)
(* rejected and a delivery that was under way registered it all the same.  *)
ReferencedIsKept == \A u \in Uploads : event[u].ref => s3[u].object # "none"

(* Every session ends by itself, even if no verifier is running, and the   *)
(* storage of one that did not become ready is given back, whatever        *)
(* failed, was slow or restarted on the way; only an allocation that is    *)
(* not settled is left to an operator.                                     *)
EverySessionEnds ==
    \A u \in Uploads :
        row[u].status \in Open ~>
            \/ row[u].status = "ready" \/ row[u].reclaimed
            \/ row[u].status \in Ended /\ row[u].alloc \notin {"pending", "ready"}
=============================================================================
