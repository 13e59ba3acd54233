------------------------ MODULE UploadSessions_proofs ------------------------
(* Proofs about UploadSessions: its types, its safety invariants and its    *)
(* action properties hold for any number of uploads, commands, requests,    *)
(* verifiers and keepers, and for every batch and every number of faults.   *)
EXTENDS UploadSessions, TLAPS

USE UploadAssumption

(* The inductive invariant.  What is checked of the object store follows    *)
(* from how an allocation is settled (Allocated); what is checked of the    *)
(* command from what a request under way has bound (Bound); what is checked *)
(* of reclamation from the fact that a session which was claimed for it     *)
(* once has ended, and has no request left that could still write anything  *)
(* (Over).                                                                  *)
Recording == {"stat", "merge", "size", "void", "record"}

Allocated(u) ==
    /\ s3[u].begun + s3[u].creating <= 1
    /\ row[u].alloc = "pending" => s3[u].begun = 0 /\ s3[u].creating = 0
    /\ s3[u].live \subseteq 1 .. s3[u].begun
    /\ row[u].mp <= s3[u].begun
    /\ row[u].alloc = "ready" => row[u].mp # 0

Attaching(c) == hand[c].at = "attach" => hand[c].mp \in 1 .. s3[Of(c)].begun

AllocInv == (\A u \in Uploads : Allocated(u)) /\ (\A c \in Callers : Attaching(c))

Bound(u) ==
    row[u].status \in {"verifying", "ready"} =>
        row[u].run = row[u].command /\ row[u].run # NoCommand

Binding(c) == hand[c].at \in Recording => row[Of(c)].command = hand[c].command

BoundInv == (\A u \in Uploads : Bound(u)) /\ (\A c \in Callers : Binding(c))

Sent(u) ==
    /\ event[u].sent = IF row[u].status = "ready" THEN 1 ELSE 0
    /\ event[u].state = "none" <=> row[u].status # "ready"
    /\ event[u].ref => event[u].state \notin {"none", "pending"}

SentInv == \A u \in Uploads : Sent(u)

(* Nothing is left to do for the session but to give its storage back.     *)
(* A finalize request may still repeat the command a ready one is bound to. *)
Quiet(c, u) ==
    hand[c] # Idle /\ Of(c) = u =>
        hand[c].at = "bind" /\ ~hand[c].open /\ row[u].status = "ready"

Over(u) ==
    /\ row[u].status \in Ended
    /\ row[u].overdue
    /\ row[u].alloc \in {"pending", "ready"}
    /\ row[u].status = "ready" => event[u].state = "settled"
    /\ \A c \in Callers : Quiet(c, u)

Keeping(k) ==
    keep[k].at \in {"ask", "abort", "done", "refused"} =>
        LET u == keep[k].upload IN
        /\ Over(u)
        /\ keep[k].at \in {"abort", "done"} => s3[u].object = "none"
        /\ keep[k].at = "done" => s3[u].live = {}

Reclaimed(u) ==
    /\ row[u].claimant # NoKeeper \/ row[u].reclaimed => Over(u)
    /\ row[u].reclaimed => s3[u].object = "none" /\ s3[u].live = {}

KeepInv == (\A k \in Keepers : Keeping(k)) /\ (\A u \in Uploads : Reclaimed(u))

(* An object is there from its first digest to the delivery of its event.  *)
Stored(u) ==
    /\ event[u].ref \/ event[u].state \in {"pending", "rejected"} => s3[u].object # "none"
    /\ \A v \in Verifiers :
          /\ check[v].verdict.is = "good"
          /\ check[v].verdict.claim.upload = u
          /\ row[u].status \notin Ended
          => s3[u].object # "none"

Merging(c) == hand[c].at = "merge" => s3[Of(c)].parts # "none"

StoreInv == (\A u \in Uploads : Stored(u)) /\ (\A c \in Callers : Merging(c))

IInv == TypeOK /\ AllocInv /\ BoundInv /\ SentInv /\ KeepInv /\ StoreInv
-----------------------------------------------------------------------------
(* What a step makes of each part of the state, and when.  The invariants   *)
(* are shown from these six summaries and not from the actions.             *)

RowByCaller(u, c, n) ==
    /\ hand[c] # Idle /\ Of(c) = u
    /\ \/ /\ hand[c].at = "start" /\ MayStart(u)
          /\ n = [row[u] EXCEPT !.alloc = "allocating"]
       \/ /\ hand[c].at = "attach" /\ row[u].mp \in {0, hand[c].mp}
          /\ n = [row[u] EXCEPT !.mp = hand[c].mp, !.alloc = "ready"]
       \/ /\ hand[c].at = "lost" /\ Unknowable(u)
          /\ n = [row[u] EXCEPT !.alloc = "unknown"]
       \/ /\ hand[c].at = "bind" /\ Bindable(u, hand[c].command)
          /\ n = [row[u] EXCEPT !.command = hand[c].command]
       \/ /\ hand[c].at = "record" /\ row[u].status = "created"
          /\ n = [row[u] EXCEPT !.status = "verifying", !.run = hand[c].command]

RowByKeeper(u, k, n) ==
    \/ Reclaimable(u) /\ hand' = hand
       /\ n = [row[u] EXCEPT !.claimant = k, !.cooling = TRUE]
    \/ /\ keep[k].at \in {"done", "refused"} /\ keep[k].upload = u
       /\ row[u].claimant = k /\ ~row[u].reclaimed
       /\ n = [row[u] EXCEPT !.claimant = NoKeeper, !.cooling = TRUE,
                             !.reclaimed = (keep[k].at = "done")]

RowBecomes(u, n) ==
    \/ n = row[u]
    \/ row[u].status = "absent" /\ n = [row[u] EXCEPT !.status = "created"]
    \/ row[u].status \in Open /\ n = [row[u] EXCEPT !.status = "failed"]
    \/ row[u].status \in Open /\ n = [row[u] EXCEPT !.status = "expired"]
    \/ Fenced(u) /\ n = [row[u] EXCEPT !.status = "ready"]
                 /\ event'[u] = [event[u] EXCEPT !.sent = @ + 1, !.state = "pending"]
    \/ Verifiable(u) /\ n = [row[u] EXCEPT !.attempts = @ + 1, !.lease = "live"]
    \/ row[u].status = "verifying" /\ n = [row[u] EXCEPT !.lease = "expired"]
    \/ ~row[u].overdue /\ n = [row[u] EXCEPT !.overdue = TRUE]
    \/ ~row[u].reclaimed /\ n = [row[u] EXCEPT !.cooling = FALSE]
    \/ \E c \in Callers : RowByCaller(u, c, n)
    \/ \E k \in Keepers : RowByKeeper(u, k, n)

(* A row that changes alone.                                               *)
LEMMA OneRow ==
    ASSUME TypeOK, NEW u \in Uploads, NEW r,
           row' = [row EXCEPT ![u] = r], RowBecomes(u, r)
    PROVE  \A x \in Uploads : RowBecomes(x, row'[x])
<1>1. ASSUME NEW x \in Uploads PROVE row'[x] = IF x = u THEN r ELSE row[x]
    BY Zenon DEF TypeOK
<1>2. \A x \in Uploads : RowBecomes(x, row[x])
    BY Zenon DEF RowBecomes
<1> QED BY <1>1, <1>2, Zenon

LEMMA RowStep ==
    ASSUME TypeOK, [Next]_vars
    PROVE  \A u \in Uploads : RowBecomes(u, row'[u])
<1>1. CASE row' = row
    BY <1>1 DEF RowBecomes
<1>2. ASSUME NEW c \in Callers, CallerStep(c) PROVE \A u \in Uploads : RowBecomes(u, row'[u])
  <2>1. CASE \E u \in Uploads : ClaimUpload(c, u)
    <3>1. PICK u \in Uploads : ClaimUpload(c, u)
        BY <2>1
    <3> DEFINE r == [row[u] EXCEPT !.status = "created"]
    <3>2. row' = [row EXCEPT ![u] = r] /\ RowBecomes(u, r)
        BY <3>1 DEF ClaimUpload, RowBecomes, RowByCaller
    <3> QED BY <3>2, OneRow
  <2>2. ASSUME hand[c] # Idle PROVE Of(c) \in Uploads
      BY <2>2 DEF TypeOK, Caller, Of
  <2> DEFINE u == Of(c)
  <2>3. CASE StartUploadAllocation(c)
    <3> DEFINE r == [row[u] EXCEPT !.alloc = "allocating"]
    <3>1. u \in Uploads /\ hand[c] # Idle
        BY <2>2, <2>3 DEF StartUploadAllocation, Idle
    <3>2. CASE MayStart(u)
      <4>1. row' = [row EXCEPT ![u] = r] /\ RowBecomes(u, r)
          BY <2>3, <3>1, <3>2 DEF StartUploadAllocation, RowBecomes, RowByCaller
      <4> QED BY <3>1, <4>1, OneRow
    <3> QED BY <1>1, <2>3, <3>2 DEF StartUploadAllocation
  <2>4. CASE AttachUploadMultipart(c)
    <3> DEFINE r == [row[u] EXCEPT !.mp = hand[c].mp, !.alloc = "ready"]
    <3>1. u \in Uploads /\ hand[c] # Idle
        BY <2>2, <2>4 DEF AttachUploadMultipart, Idle
    <3>2. CASE row[u].mp \in {0, hand[c].mp}
      <4>1. row' = [row EXCEPT ![u] = r]
          BY <2>4, <3>2, Zenon DEF AttachUploadMultipart
      <4>2. RowBecomes(u, r)
          BY <2>4, <3>1, <3>2 DEF AttachUploadMultipart, RowBecomes, RowByCaller
      <4> QED BY <3>1, <4>1, <4>2, OneRow
    <3> QED BY <1>1, <2>4, <3>2 DEF AttachUploadMultipart
  <2>5. CASE MarkUploadAllocationUnknown(c)
    <3> DEFINE r == [row[u] EXCEPT !.alloc = "unknown"]
    <3>1. u \in Uploads /\ hand[c] # Idle
        BY <2>2, <2>5 DEF MarkUploadAllocationUnknown, Idle
    <3>2. CASE Unknowable(u)
      <4>1. row' = [row EXCEPT ![u] = r] /\ RowBecomes(u, r)
          BY <2>5, <3>1, <3>2 DEF MarkUploadAllocationUnknown, RowBecomes, RowByCaller
      <4> QED BY <3>1, <4>1, OneRow
    <3> QED BY <1>1, <2>5, <3>2 DEF MarkUploadAllocationUnknown
  <2>6. CASE BindUploadFinalize(c)
    <3> DEFINE r == [row[u] EXCEPT !.command = hand[c].command]
    <3>1. u \in Uploads /\ hand[c] # Idle
        BY <2>2, <2>6 DEF BindUploadFinalize, Idle
    <3>2. CASE Bindable(u, hand[c].command)
      <4>1. row' = [row EXCEPT ![u] = r] /\ RowBecomes(u, r)
          BY <2>6, <3>1, <3>2 DEF BindUploadFinalize, RowBecomes, RowByCaller
      <4> QED BY <3>1, <4>1, OneRow
    <3> QED BY <1>1, <2>6, <3>2 DEF BindUploadFinalize
  <2>7. CASE VoidUpload(c)
    <3>1. u \in Uploads
        BY <2>2, <2>7 DEF VoidUpload, Idle
    <3>2. row' = [row EXCEPT ![u] = MarkedFailed(row[u])] /\ RowBecomes(u, MarkedFailed(row[u]))
        BY <2>7, <3>1 DEF VoidUpload, MarkedFailed, RowBecomes, RowByCaller
    <3> QED BY <3>1, <3>2, OneRow
  <2>8. CASE FinalizeUpload(c)
    <3> DEFINE r == Finalized(row[u], hand[c].command)
    <3>1. u \in Uploads /\ hand[c] # Idle
        BY <2>2, <2>8 DEF FinalizeUpload, Idle
    <3>2. row' = [row EXCEPT ![u] = r] /\ RowBecomes(u, r)
        BY <2>8, <3>1 DEF FinalizeUpload, Finalized, RowBecomes, RowByCaller
    <3> HIDE DEF r
    <3> QED BY <3>1, <3>2, OneRow
  <2>9. CASE \/ \E x \in Uploads : Reconcile(c, x) \/ \E k \in Commands : Finalize(c, x, k)
             \/ BeginAnswered(c) \/ BeginFails(c) \/ FindMultipart(c)
             \/ Stat(c) \/ CompleteMultipart(c) \/ CheckSize(c) \/ Abandon(c)
      BY <1>1, <2>9 DEF Reconcile, Finalize, BeginAnswered, BeginFails, FindMultipart,
                        Stat, CompleteMultipart, CheckSize, Abandon
  <2> QED BY <1>2, <2>1, <2>3, <2>4, <2>5, <2>6, <2>7, <2>8, <2>9
          DEF CallerStep, CallerProgress
<1>3. ASSUME NEW v \in Verifiers, VerifierStep(v) PROVE \A u \in Uploads : RowBecomes(u, row'[u])
  <2>1. CASE PendingVerification(v)
      BY <2>1 DEF PendingVerification, RowBecomes
  <2>2. ASSUME check[v].verdict.is \in {"good", "bad"}
        PROVE  check[v].verdict.claim.upload \in Uploads
      BY <2>2 DEF TypeOK, Verifier, NoVerdict, Claim
  <2>3. CASE MarkUploadVerified(v)
    <3> DEFINE u == check[v].verdict.claim.upload
    <3>1. CASE Fenced(u)
      <4> DEFINE r == [row[u] EXCEPT !.status = "ready"]
                 e == [event[u] EXCEPT !.sent = @ + 1, !.state = "pending"]
      <4>1. u \in Uploads
          BY <2>2, <2>3 DEF MarkUploadVerified
      <4>2. row' = [row EXCEPT ![u] = r] /\ event' = [event EXCEPT ![u] = e]
          BY <2>3, <3>1, Zenon DEF MarkUploadVerified
      <4>3. event'[u] = e
          BY <4>1, <4>2, Zenon DEF TypeOK
      <4>4. RowBecomes(u, r)
          BY <3>1, <4>3 DEF RowBecomes
      <4> QED BY <4>1, <4>2, <4>4, OneRow
    <3>2. CASE ~Fenced(u)
        BY <1>1, <2>3, <3>2 DEF MarkUploadVerified
    <3> QED BY <3>1, <3>2
  <2>4. CASE MarkUploadFailed(v)
    <3> DEFINE u == check[v].verdict.claim.upload
               r == MarkedFailed(row[u])
    <3>1. u \in Uploads
        BY <2>2, <2>4 DEF MarkUploadFailed
    <3>2. row' = [row EXCEPT ![u] = r]
        BY <2>4, Zenon DEF MarkUploadFailed
    <3>3. RowBecomes(u, r)
        BY DEF MarkedFailed, RowBecomes
    <3> QED BY <3>1, <3>2, <3>3, OneRow
  <2>5. CASE FailStalledVerifications(v)
      BY <2>5 DEF FailStalledVerifications, MarkedFailed, RowBecomes
  <2>6. CASE Digest(v) \/ DigestFails(v) \/ VerdictIsLost(v) \/ VerifierRestarts(v)
      BY <1>1, <2>6 DEF Digest, DigestFails, VerdictIsLost, VerifierRestarts
  <2> QED BY <1>3, <2>1, <2>3, <2>4, <2>5, <2>6 DEF VerifierStep
<1>4. ASSUME NEW k \in Keepers, KeeperStep(k) PROVE \A u \in Uploads : RowBecomes(u, row'[u])
  <2>1. CASE ExpireStaleUploads(k)
      BY <2>1 DEF ExpireStaleUploads, Expirable, Open, RowBecomes, RowByKeeper
  <2>2. CASE \E u \in Uploads : ClaimReclaim(k, u)
    <3>1. PICK u \in Uploads : ClaimReclaim(k, u)
        BY <2>2
    <3> DEFINE r == [row[u] EXCEPT !.claimant = k, !.cooling = TRUE]
    <3>2. row' = [row EXCEPT ![u] = r]
        BY <3>1, Zenon DEF ClaimReclaim
    <3>3. RowBecomes(u, r)
        BY <3>1 DEF ClaimReclaim, RowBecomes, RowByKeeper
    <3> QED BY <3>2, <3>3, OneRow
  <2>3. CASE FinishReclaim(k)
    <3> DEFINE u == keep[k].upload
               r == [row[u] EXCEPT !.claimant = NoKeeper, !.cooling = TRUE,
                                   !.reclaimed = (keep[k].at = "done")]
    <3>1. u \in Uploads
        BY <2>3 DEF FinishReclaim, TypeOK, Keeper
    <3>2. CASE row[u].claimant = k /\ ~row[u].reclaimed
      <4>1. row' = [row EXCEPT ![u] = r]
          BY <2>3, <3>2, Zenon DEF FinishReclaim
      <4>2. RowBecomes(u, r)
          BY <2>3, <3>2 DEF FinishReclaim, RowBecomes, RowByKeeper
      <4> QED BY <3>1, <4>1, <4>2, OneRow
    <3> QED BY <1>1, <2>3, <3>2 DEF FinishReclaim
  <2>4. CASE \/ NothingToReclaim(k) \/ CollectTerminalUpload(k) \/ AbortMultiparts(k)
             \/ ReclaimFails(k) \/ KeeperRestarts(k)
      BY <1>1, <2>4 DEF NothingToReclaim, CollectTerminalUpload, AbortMultiparts,
                        ReclaimFails, KeeperRestarts
  <2> QED BY <1>4, <2>1, <2>2, <2>3, <2>4 DEF KeeperStep, KeeperProgress
<1>5. ASSUME NEW u \in Uploads, UploadStep(u) PROVE \A x \in Uploads : RowBecomes(x, row'[x])
  <2>1. CASE LeaseRunsOut(u)
      BY <2>1, OneRow DEF LeaseRunsOut, RowBecomes
  <2>2. CASE Cooled(u)
      BY <2>2, OneRow DEF Cooled, RowBecomes
  <2>3. CASE Overdue(u)
      BY <2>3, OneRow DEF Overdue, RowBecomes
  <2>4. CASE \/ S3Creates(u) \/ S3Drops(u) \/ PutParts(u)
             \/ Deliver(u) \/ DeliverLate(u) \/ RejectionSettles(u)
      BY <1>1, <2>4 DEF S3Creates, S3Drops, PutParts, Deliver, DeliverLate, RejectionSettles
  <2> QED BY <1>5, <2>1, <2>2, <2>3, <2>4 DEF UploadStep
<1>6. CASE UNCHANGED vars
    BY <1>1, <1>6 DEF vars
<1> QED BY <1>2, <1>3, <1>4, <1>5, <1>6 DEF Next

HandStarts(c, h) ==
    /\ hand[c] = Idle
    /\ \/ \E u \in Uploads, pc \in {"start", "find"} :
             row[u].status \in {"absent", "created"} /\ h = [at |-> pc, upload |-> u]
       \/ \E u \in Uploads, k \in Commands :
             /\ row[u].status \in {"created", "verifying", "ready"}
             /\ h = [at |-> "bind", upload |-> u, command |-> k,
                     open |-> row[u].status = "created"]

HandMoves(c, h) ==
    \/ /\ hand[c].at = "start"
       /\ h = [at |-> "begin", upload |-> Of(c)]
    \/ \E id \in (1 .. s3[Of(c)].begun) \cup s3[Of(c)].live :
          /\ hand[c].at \in {"begin", "find"}
          /\ h = [at |-> "attach", upload |-> Of(c), mp |-> id]
    \/ /\ hand[c].at \in {"begin", "find"}
       /\ h = [at |-> "lost", upload |-> Of(c)]
    \/ /\ hand[c].at = "bind" /\ hand[c].open
       /\ row'[Of(c)].command = hand[c].command
       /\ h = [at |-> "stat", upload |-> Of(c), command |-> hand[c].command]
    \/ \E pc \in {"merge", "size", "void", "record"} :
          /\ hand[c].at \in {"stat", "merge", "size"}
          /\ pc = "merge" => s3[Of(c)].parts \in {"good", "bad"} /\ s3' = s3
          /\ h = [at |-> pc, upload |-> Of(c), command |-> hand[c].command]

HandBecomes(c, h) == h = hand[c] \/ h = Idle \/ HandStarts(c, h) \/ HandMoves(c, h)

LEMMA OneHand ==
    ASSUME TypeOK, NEW c \in Callers, NEW h,
           hand' = [hand EXCEPT ![c] = h], HandBecomes(c, h)
    PROVE  \A d \in Callers : HandBecomes(d, hand'[d])
<1>1. ASSUME NEW d \in Callers PROVE hand'[d] = IF d = c THEN h ELSE hand[d]
    BY Zenon DEF TypeOK
<1>2. \A d \in Callers : HandBecomes(d, hand[d])
    BY Zenon DEF HandBecomes
<1> QED BY <1>1, <1>2, Zenon

LEMMA HandStep ==
    ASSUME TypeOK, [Next]_vars
    PROVE  \A c \in Callers : HandBecomes(c, hand'[c])
<1>1. CASE hand' = hand
    BY <1>1 DEF HandBecomes, HandStarts, HandMoves
<1>2. ASSUME NEW c \in Callers, CallerStep(c)
      PROVE  \A d \in Callers : HandBecomes(d, hand'[d])
  <2>1. ASSUME End(c) PROVE \A d \in Callers : HandBecomes(d, hand'[d])
      BY <2>1, OneHand DEF End, HandBecomes, HandStarts, HandMoves
  <2>2. ASSUME NEW u \in Uploads, ClaimUpload(c, u)
        PROVE  \A d \in Callers : HandBecomes(d, hand'[d])
    <3> DEFINE h == [at |-> "start", upload |-> u]
    <3>1. hand' = [hand EXCEPT ![c] = h] /\ HandBecomes(c, h)
        BY <2>2 DEF ClaimUpload, At, HandBecomes, HandStarts, HandMoves
    <3> QED BY <3>1, OneHand
  <2>3. ASSUME NEW u \in Uploads, Reconcile(c, u)
        PROVE  \A d \in Callers : HandBecomes(d, hand'[d])
    <3>1. PICK pc \in {"start", "find"} : At(c, pc, u)
        BY <2>3 DEF Reconcile
    <3> DEFINE h == [at |-> pc, upload |-> u]
    <3>2. hand' = [hand EXCEPT ![c] = h]
        BY <3>1 DEF At
    <3>3. HandBecomes(c, h)
        BY <2>3 DEF Reconcile, Unallocated, HandBecomes, HandStarts, HandMoves
    <3> QED BY <3>2, <3>3, OneHand
  <2>4. ASSUME NEW u \in Uploads, NEW k \in Commands, Finalize(c, u, k)
        PROVE  \A d \in Callers : HandBecomes(d, hand'[d])
    <3> DEFINE h == [at |-> "bind", upload |-> u, command |-> k,
                     open |-> row[u].status = "created"]
    <3>1. hand' = [hand EXCEPT ![c] = h]
        BY <2>4, Zenon DEF Finalize
    <3>2. HandBecomes(c, h)
        BY <2>4, Zenon DEF Finalize, HandBecomes, HandStarts, HandMoves
    <3> QED BY <3>1, <3>2, OneHand
  <2>5. CASE StartUploadAllocation(c)
    <3> DEFINE h == [at |-> "begin", upload |-> Of(c)]
    <3>1. End(c) \/ (hand' = [hand EXCEPT ![c] = h] /\ HandBecomes(c, h))
        BY <2>5 DEF StartUploadAllocation, At, HandBecomes, HandStarts, HandMoves
    <3> QED BY <2>1, <3>1, OneHand
  <2>6. CASE BeginAnswered(c)
    <3>1. PICK id \in 1 .. s3[Of(c)].begun :
             hand' = [hand EXCEPT ![c] = [at |-> "attach", upload |-> Of(c), mp |-> id]]
        BY <2>6 DEF BeginAnswered
    <3> DEFINE h == [at |-> "attach", upload |-> Of(c), mp |-> id]
    <3>2. HandBecomes(c, h)
        BY <2>6 DEF BeginAnswered, HandBecomes, HandStarts, HandMoves
    <3> QED BY <3>1, <3>2, OneHand
  <2>7. ASSUME hand[c].at \in {"begin", "find"}, At(c, "lost", Of(c))
        PROVE  \A d \in Callers : HandBecomes(d, hand'[d])
    <3> DEFINE h == [at |-> "lost", upload |-> Of(c)]
    <3>1. hand' = [hand EXCEPT ![c] = h] /\ HandBecomes(c, h)
        BY <2>7 DEF At, HandBecomes, HandStarts, HandMoves
    <3> QED BY <3>1, OneHand
  <2>8. CASE FindMultipart(c)
    <3>1. CASE At(c, "lost", Of(c))
        BY <2>7, <2>8, <3>1 DEF FindMultipart
    <3>2. CASE ~At(c, "lost", Of(c))
      <4>1. PICK id \in s3[Of(c)].live :
               hand' = [hand EXCEPT ![c] = [at |-> "attach", upload |-> Of(c), mp |-> id]]
          BY <2>8, <3>2 DEF FindMultipart
      <4> DEFINE h == [at |-> "attach", upload |-> Of(c), mp |-> id]
      <4>2. HandBecomes(c, h)
          BY <2>8 DEF FindMultipart, HandBecomes, HandStarts, HandMoves
      <4> QED BY <4>1, <4>2, OneHand
    <3> QED BY <3>1, <3>2
  <2>9. CASE BindUploadFinalize(c)
    <3>1. CASE ~End(c)
      <4> DEFINE h == [at |-> "stat", upload |-> Of(c), command |-> hand[c].command]
      <4>1. /\ hand[c].at = "bind" /\ hand[c].open
            /\ row' = [row EXCEPT ![Of(c)].command = hand[c].command]
            /\ hand' = [hand EXCEPT ![c] = h]
          BY <2>9, <3>1 DEF BindUploadFinalize, On
      <4>2. Of(c) \in Uploads
          BY <4>1 DEF TypeOK, Caller, Idle, Of
      <4>3. row'[Of(c)].command = hand[c].command
          BY <4>1, <4>2 DEF TypeOK, Row
      <4>4. HandBecomes(c, h)
          BY <4>1, <4>3 DEF HandBecomes, HandStarts, HandMoves
      <4> QED BY <4>1, <4>4, OneHand
    <3> QED BY <2>1, <3>1
  <2>10. ASSUME NEW pc \in {"merge", "size", "void", "record"},
                hand[c].at \in {"stat", "merge", "size"}, On(c, pc),
                pc = "merge" => s3[Of(c)].parts \in {"good", "bad"} /\ s3' = s3
         PROVE  \A d \in Callers : HandBecomes(d, hand'[d])
    <3> DEFINE h == [at |-> pc, upload |-> Of(c), command |-> hand[c].command]
    <3>1. hand' = [hand EXCEPT ![c] = h] /\ HandBecomes(c, h)
        BY <2>10 DEF On, HandBecomes, HandStarts, HandMoves
    <3> QED BY <3>1, OneHand
  <2>11. CASE Stat(c)
      BY <2>1, <2>10, <2>11 DEF Stat
  <2>12. CASE CompleteMultipart(c)
      BY <2>1, <2>10, <2>12 DEF CompleteMultipart
  <2>13. CASE CheckSize(c)
      BY <2>1, <2>10, <2>13 DEF CheckSize
  <2>14. CASE \/ AttachUploadMultipart(c) \/ MarkUploadAllocationUnknown(c) \/ VoidUpload(c)
              \/ FinalizeUpload(c) \/ Abandon(c)
      BY <2>1, <2>14 DEF AttachUploadMultipart, MarkUploadAllocationUnknown, VoidUpload,
                         FinalizeUpload, Abandon
  <2>15. CASE BeginFails(c)
      BY <2>7, <2>15 DEF BeginFails
  <2> QED BY <1>2, <2>2, <2>3, <2>4, <2>5, <2>6, <2>8, <2>9, <2>11, <2>12, <2>13, <2>14, <2>15
          DEF CallerStep, CallerProgress
<1>3. ASSUME NEW v \in Verifiers, VerifierStep(v) PROVE hand' = hand
    BY <1>3 DEF VerifierStep, PendingVerification, Digest, DigestFails, MarkUploadVerified,
        MarkUploadFailed, VerdictIsLost, FailStalledVerifications, VerifierRestarts
<1>4. ASSUME NEW k \in Keepers, KeeperStep(k) PROVE hand' = hand
    BY <1>4 DEF KeeperStep, KeeperProgress, ExpireStaleUploads, NothingToReclaim,
        CollectTerminalUpload, AbortMultiparts, FinishReclaim, ClaimReclaim, ReclaimFails,
        KeeperRestarts
<1>5. ASSUME NEW u \in Uploads, UploadStep(u) PROVE hand' = hand
    BY <1>5 DEF UploadStep, S3Creates, S3Drops, PutParts, LeaseRunsOut, Cooled, Overdue,
        Deliver, DeliverLate, RejectionSettles
<1>6. CASE UNCHANGED vars
    BY <1>1, <1>6 DEF vars
<1> QED BY <1>1, <1>2, <1>3, <1>4, <1>5, <1>6 DEF Next

StoreBecomes(u, n) ==
    \/ n = s3[u]
    \/ /\ row[u].alloc = "pending" /\ row'[u].alloc = "allocating"
       /\ n = [s3[u] EXCEPT !.creating = @ + 1]
    \/ /\ s3[u].creating > 0
       /\ \/ n = [s3[u] EXCEPT !.creating = @ - 1]
          \/ n = [s3[u] EXCEPT !.creating = @ - 1, !.begun = @ + 1,
                               !.live = @ \cup {s3[u].begun + 1}]
    \/ \E p \in Content \ {"none"} : n = [s3[u] EXCEPT !.parts = p]
    \/ \E c \in Callers :
          /\ hand[c].at = "merge" /\ Of(c) = u
          /\ n = [s3[u] EXCEPT !.object = s3[u].parts, !.live = @ \ {row[u].mp}]
    \/ /\ n = [s3[u] EXCEPT !.object = "none"]
       /\ row' = row /\ hand' = hand /\ check' = check
       /\ \/ event[u].state = "pending"
             /\ event'[u].state = "registered" /\ event'[u].ref = event[u].ref
          \/ event' = event /\ ~event[u].ref
             /\ \E k \in Keepers : keep[k].at = "ask" /\ keep[k].upload = u
    \/ n = [s3[u] EXCEPT !.live = {}]

LEMMA OneStore ==
    ASSUME TypeOK, NEW u \in Uploads, NEW n,
           s3' = [s3 EXCEPT ![u] = n], StoreBecomes(u, n)
    PROVE  \A x \in Uploads : StoreBecomes(x, s3'[x])
<1>1. ASSUME NEW x \in Uploads PROVE s3'[x] = IF x = u THEN n ELSE s3[x]
    BY Zenon DEF TypeOK
<1>2. \A x \in Uploads : StoreBecomes(x, s3[x])
    BY Zenon DEF StoreBecomes
<1> QED BY <1>1, <1>2, Zenon

LEMMA StoreStep ==
    ASSUME TypeOK, [Next]_vars
    PROVE  \A u \in Uploads : StoreBecomes(u, s3'[u])
<1>1. CASE s3' = s3
    BY <1>1 DEF StoreBecomes
<1>2. ASSUME NEW c \in Callers, CallerStep(c)
      PROVE  \A u \in Uploads : StoreBecomes(u, s3'[u])
  <2> DEFINE u == Of(c)
  <2>1. ASSUME hand[c] # Idle PROVE u \in Uploads
      BY <2>1 DEF TypeOK, Caller, Of
  <2>2. CASE StartUploadAllocation(c) /\ MayStart(u)
    <3> DEFINE n == [s3[u] EXCEPT !.creating = @ + 1]
    <3>1. u \in Uploads
        BY <2>1, <2>2 DEF StartUploadAllocation, Idle
    <3>2. row' = [row EXCEPT ![u].alloc = "allocating"] /\ s3' = [s3 EXCEPT ![u] = n]
        BY <2>2, Zenon DEF StartUploadAllocation
    <3>3. row'[u].alloc = "allocating"
        BY <3>1, <3>2 DEF TypeOK, Row
    <3>4. StoreBecomes(u, n)
        BY <2>2, <3>3 DEF MayStart, StoreBecomes
    <3> QED BY <3>1, <3>2, <3>4, OneStore
  <2>3. CASE CompleteMultipart(c) /\ s3' # s3
    <3> DEFINE n == [s3[u] EXCEPT !.object = s3[u].parts, !.live = @ \ {row[u].mp}]
    <3>1. u \in Uploads
        BY <2>1, <2>3 DEF CompleteMultipart, Idle
    <3>2. s3' = [s3 EXCEPT ![u] = n]
        BY <2>3, Zenon DEF CompleteMultipart
    <3>3. StoreBecomes(u, n)
        BY <2>3 DEF CompleteMultipart, StoreBecomes
    <3> QED BY <3>1, <3>2, <3>3, OneStore
  <2>4. CASE \/ \E x \in Uploads : \/ ClaimUpload(c, x) \/ Reconcile(c, x)
                                   \/ \E k \in Commands : Finalize(c, x, k)
             \/ StartUploadAllocation(c) /\ ~MayStart(u)
             \/ BeginAnswered(c) \/ BeginFails(c) \/ FindMultipart(c)
             \/ AttachUploadMultipart(c) \/ MarkUploadAllocationUnknown(c)
             \/ BindUploadFinalize(c) \/ Stat(c) \/ CheckSize(c)
             \/ VoidUpload(c) \/ FinalizeUpload(c) \/ Abandon(c)
      BY <1>1, <2>4 DEF ClaimUpload, Reconcile, Finalize, StartUploadAllocation, BeginAnswered,
          BeginFails, FindMultipart, AttachUploadMultipart, MarkUploadAllocationUnknown,
          BindUploadFinalize, Stat, CheckSize, VoidUpload, FinalizeUpload, Abandon
  <2> QED BY <1>1, <1>2, <2>2, <2>3, <2>4 DEF CallerStep, CallerProgress
<1>3. ASSUME NEW v \in Verifiers, VerifierStep(v) PROVE s3' = s3
    BY <1>3 DEF VerifierStep, PendingVerification, Digest, DigestFails, MarkUploadVerified,
        MarkUploadFailed, VerdictIsLost, FailStalledVerifications, VerifierRestarts
<1>4. ASSUME NEW k \in Keepers, KeeperStep(k)
      PROVE  \A u \in Uploads : StoreBecomes(u, s3'[u])
  <2> DEFINE u == keep[k].upload
  <2>1. ASSUME keep[k].at \in {"ask", "abort"} PROVE u \in Uploads
      BY <2>1 DEF TypeOK, Keeper
  <2>2. CASE CollectTerminalUpload(k) /\ ~Protected(u)
    <3> DEFINE n == [s3[u] EXCEPT !.object = "none"]
    <3>1. u \in Uploads
        BY <2>1, <2>2 DEF CollectTerminalUpload
    <3>2. s3' = [s3 EXCEPT ![u] = n]
        BY <2>2, Zenon DEF CollectTerminalUpload
    <3>3. StoreBecomes(u, n)
        BY <2>2 DEF CollectTerminalUpload, Protected, StoreBecomes
    <3> QED BY <3>1, <3>2, <3>3, OneStore
  <2>3. CASE AbortMultiparts(k)
    <3> DEFINE n == [s3[u] EXCEPT !.live = {}]
    <3>1. u \in Uploads
        BY <2>1, <2>3 DEF AbortMultiparts
    <3>2. s3' = [s3 EXCEPT ![u] = n] /\ StoreBecomes(u, n)
        BY <2>3 DEF AbortMultiparts, StoreBecomes
    <3> QED BY <3>1, <3>2, OneStore
  <2>4. CASE \/ ExpireStaleUploads(k) \/ NothingToReclaim(k) \/ FinishReclaim(k)
             \/ CollectTerminalUpload(k) /\ Protected(u)
             \/ (\E x \in Uploads : ClaimReclaim(k, x)) \/ ReclaimFails(k) \/ KeeperRestarts(k)
      BY <1>1, <2>4 DEF ExpireStaleUploads, NothingToReclaim, FinishReclaim,
          CollectTerminalUpload, ClaimReclaim, ReclaimFails, KeeperRestarts
  <2> QED BY <1>4, <2>2, <2>3, <2>4 DEF KeeperStep, KeeperProgress
<1>5. ASSUME NEW u \in Uploads, UploadStep(u)
      PROVE  \A x \in Uploads : StoreBecomes(x, s3'[x])
  <2>1. CASE S3Creates(u)
    <3> DEFINE n == [s3[u] EXCEPT !.creating = @ - 1, !.begun = @ + 1,
                                  !.live = @ \cup {s3[u].begun + 1}]
    <3>1. s3' = [s3 EXCEPT ![u] = n]
        BY <2>1, Zenon DEF S3Creates
    <3>2. StoreBecomes(u, n)
        BY <2>1 DEF S3Creates, StoreBecomes
    <3> QED BY <3>1, <3>2, OneStore
  <2>2. CASE S3Drops(u)
    <3> DEFINE n == [s3[u] EXCEPT !.creating = @ - 1]
    <3>1. s3' = [s3 EXCEPT ![u] = n] /\ StoreBecomes(u, n)
        BY <2>2 DEF S3Drops, StoreBecomes
    <3> QED BY <3>1, OneStore
  <2>3. CASE PutParts(u)
    <3>1. PICK p \in Content \ {"none"} : s3' = [s3 EXCEPT ![u] = [s3[u] EXCEPT !.parts = p]]
        BY <2>3 DEF PutParts
    <3> DEFINE n == [s3[u] EXCEPT !.parts = p]
    <3>2. StoreBecomes(u, n)
        BY DEF StoreBecomes
    <3> QED BY <3>1, <3>2, OneStore
  <2>4. CASE Deliver(u) /\ s3' # s3
    <3> DEFINE n == [s3[u] EXCEPT !.object = "none"]
    <3>1. s3' = [s3 EXCEPT ![u] = n] /\ event' = [event EXCEPT ![u].state = "registered"]
        BY <2>4 DEF Deliver
    <3>2. event'[u].state = "registered" /\ event'[u].ref = event[u].ref
        BY <3>1 DEF TypeOK, Event
    <3>3. StoreBecomes(u, n)
        BY <2>4, <3>2 DEF Deliver, StoreBecomes
    <3> QED BY <3>1, <3>3, OneStore
  <2>5. CASE \/ LeaseRunsOut(u) \/ Cooled(u) \/ Overdue(u)
             \/ DeliverLate(u) \/ RejectionSettles(u)
      BY <1>1, <2>5 DEF LeaseRunsOut, Cooled, Overdue, DeliverLate, RejectionSettles
  <2> QED BY <1>1, <1>5, <2>1, <2>2, <2>3, <2>4, <2>5 DEF UploadStep
<1>6. CASE UNCHANGED vars
    BY <1>1, <1>6 DEF vars
<1> QED BY <1>1, <1>2, <1>3, <1>4, <1>5, <1>6 DEF Next

EventBecomes(u, n) ==
    \/ n = event[u]
    \/ /\ row[u].status = "verifying" /\ row'[u].status = "ready" /\ s3' = s3
       /\ \E v \in Verifiers :
             check[v].verdict.is = "good" /\ check[v].verdict.claim.upload = u
       /\ n = [event[u] EXCEPT !.sent = @ + 1, !.state = "pending"]
    \/ /\ row' = row /\ event[u].state = "pending"
       /\ \/ n = [event[u] EXCEPT !.state = "registered", !.ref = TRUE] /\ s3' = s3
          \/ n = [event[u] EXCEPT !.state = "registered"]
          \/ n = [event[u] EXCEPT !.state = "rejected"] /\ s3' = s3
    \/ /\ row' = row /\ event[u].state = "rejected" /\ s3' = s3
       /\ \/ n = [event[u] EXCEPT !.ref = TRUE]
          \/ n = [event[u] EXCEPT !.state = "settled"]

LEMMA OneEvent ==
    ASSUME TypeOK, NEW u \in Uploads, NEW n,
           event' = [event EXCEPT ![u] = n], EventBecomes(u, n)
    PROVE  \A x \in Uploads : EventBecomes(x, event'[x])
<1>1. ASSUME NEW x \in Uploads PROVE event'[x] = IF x = u THEN n ELSE event[x]
    BY Zenon DEF TypeOK
<1>2. \A x \in Uploads : EventBecomes(x, event[x])
    BY Zenon DEF EventBecomes
<1> QED BY <1>1, <1>2, Zenon

EventWritten ==
    \/ event' = event
    \/ \E u \in Uploads : \E n : event' = [event EXCEPT ![u] = n] /\ EventBecomes(u, n)

(* No step writes the events of two uploads.                               *)
LEMMA OneIsWritten ==
    ASSUME TypeOK, [Next]_vars
    PROVE  EventWritten
<1>1. CASE event' = event
    BY <1>1 DEF EventWritten
<1>2. ASSUME NEW c \in Callers, CallerStep(c) PROVE event' = event
    BY <1>2 DEF CallerStep, CallerProgress, ClaimUpload, Reconcile, Finalize,
        StartUploadAllocation, BeginAnswered, BeginFails, FindMultipart, AttachUploadMultipart,
        MarkUploadAllocationUnknown, BindUploadFinalize, Stat, CompleteMultipart, CheckSize,
        VoidUpload, FinalizeUpload, Abandon
<1>3. ASSUME NEW v \in Verifiers, VerifierStep(v), event' # event
      PROVE  EventWritten
  <2> DEFINE u == check[v].verdict.claim.upload
             n == [event[u] EXCEPT !.sent = @ + 1, !.state = "pending"]
  <2>1. MarkUploadVerified(v)
      BY <1>3 DEF VerifierStep, PendingVerification, Digest, DigestFails,
          MarkUploadFailed, VerdictIsLost, FailStalledVerifications, VerifierRestarts
  <2>2. u \in Uploads
      BY <2>1 DEF MarkUploadVerified, TypeOK, Verifier, NoVerdict, Claim
  <2>3. /\ Fenced(u) /\ s3' = s3
        /\ row' = [row EXCEPT ![u].status = "ready"]
        /\ event' = [event EXCEPT ![u] = n]
      BY <1>3, <2>1, Zenon DEF MarkUploadVerified
  <2>4. row'[u].status = "ready"
      BY <2>2, <2>3 DEF TypeOK, Row
  <2>5. EventBecomes(u, n)
      BY <2>1, <2>3, <2>4 DEF MarkUploadVerified, Fenced, EventBecomes
  <2> QED BY <2>2, <2>3, <2>5, Zenon DEF EventWritten
<1>4. ASSUME NEW k \in Keepers, KeeperStep(k) PROVE event' = event
    BY <1>4 DEF KeeperStep, KeeperProgress, ExpireStaleUploads, NothingToReclaim,
        CollectTerminalUpload, AbortMultiparts, FinishReclaim, ClaimReclaim, ReclaimFails,
        KeeperRestarts
<1>5. ASSUME NEW u \in Uploads, UploadStep(u), event' # event
      PROVE  EventWritten
  <2>1. CASE Deliver(u)
    <3>1. PICK n : event' = [event EXCEPT ![u] = n] /\ EventBecomes(u, n)
      <4>1. CASE event' = [event EXCEPT ![u].state = "registered", ![u].ref = TRUE] /\ s3' = s3
          BY <2>1, <4>1 DEF Deliver, EventBecomes
      <4>2. CASE event' = [event EXCEPT ![u].state = "registered"]
          BY <2>1, <4>2 DEF Deliver, EventBecomes
      <4>3. CASE event' = [event EXCEPT ![u].state = "rejected"] /\ s3' = s3
          BY <2>1, <4>3 DEF Deliver, EventBecomes
      <4> QED BY <2>1, <4>1, <4>2, <4>3 DEF Deliver
    <3> QED BY <3>1, Zenon DEF EventWritten
  <2>2. CASE DeliverLate(u)
    <3> DEFINE n == [event[u] EXCEPT !.ref = TRUE]
    <3>1. event' = [event EXCEPT ![u] = n] /\ EventBecomes(u, n)
        BY <2>2 DEF DeliverLate, EventBecomes
    <3> QED BY <3>1, Zenon DEF EventWritten
  <2>3. CASE RejectionSettles(u)
    <3> DEFINE n == [event[u] EXCEPT !.state = "settled"]
    <3>1. event' = [event EXCEPT ![u] = n] /\ EventBecomes(u, n)
        BY <2>3 DEF RejectionSettles, EventBecomes
    <3> QED BY <3>1, Zenon DEF EventWritten
  <2> QED BY <1>5, <2>1, <2>2, <2>3
          DEF UploadStep, S3Creates, S3Drops, PutParts, LeaseRunsOut, Cooled, Overdue
<1>6. CASE UNCHANGED vars
    BY <1>1, <1>6 DEF vars
<1> QED BY <1>1, <1>2, <1>3, <1>4, <1>5, <1>6 DEF Next

LEMMA EventChange ==
    ASSUME TypeOK, [Next]_vars
    PROVE  \A u \in Uploads : EventBecomes(u, event'[u])
<1>1. CASE event' = event
    BY <1>1 DEF EventBecomes
<1>2. CASE \E u \in Uploads : \E n : event' = [event EXCEPT ![u] = n] /\ EventBecomes(u, n)
    BY <1>2, OneEvent
<1> QED BY <1>1, <1>2, OneIsWritten DEF EventWritten

CheckBecomes(v, n) ==
    \/ n = check[v]
    \/ n = Resting
    \/ \E S \in SUBSET Uploads :
          n = [busy |-> TRUE, verdict |-> NoVerdict,
               todo |-> {[upload |-> u, attempt |-> row[u].attempts + 1] : u \in S}]
    \/ \E q \in check[v].todo, is \in {"good", "bad"} :
          /\ s3[q.upload].object # "none" /\ s3' = s3
          /\ n = [check[v] EXCEPT !.todo = @ \ {q}, !.verdict = [is |-> is, claim |-> q]]
    \/ \E q \in check[v].todo : n = [check[v] EXCEPT !.todo = @ \ {q}]
    \/ n = [check[v] EXCEPT !.verdict = NoVerdict]

LEMMA OneCheck ==
    ASSUME TypeOK, NEW v \in Verifiers, NEW n,
           check' = [check EXCEPT ![v] = n], CheckBecomes(v, n)
    PROVE  \A x \in Verifiers : CheckBecomes(x, check'[x])
<1>1. ASSUME NEW x \in Verifiers PROVE check'[x] = IF x = v THEN n ELSE check[x]
    BY Zenon DEF TypeOK
<1>2. \A x \in Verifiers : CheckBecomes(x, check[x])
    BY Zenon DEF CheckBecomes
<1> QED BY <1>1, <1>2, Zenon

LEMMA CheckStep ==
    ASSUME TypeOK, [Next]_vars
    PROVE  \A v \in Verifiers : CheckBecomes(v, check'[v])
<1>1. CASE check' = check
    BY <1>1 DEF CheckBecomes
<1>2. ASSUME NEW c \in Callers, CallerStep(c) PROVE check' = check
    BY <1>2 DEF CallerStep, CallerProgress, ClaimUpload, Reconcile, Finalize,
        StartUploadAllocation, BeginAnswered, BeginFails, FindMultipart, AttachUploadMultipart,
        MarkUploadAllocationUnknown, BindUploadFinalize, Stat, CompleteMultipart, CheckSize,
        VoidUpload, FinalizeUpload, Abandon
<1>3. ASSUME NEW v \in Verifiers, VerifierStep(v)
      PROVE  \A x \in Verifiers : CheckBecomes(x, check'[x])
  <2>1. CASE PendingVerification(v)
    <3>1. PICK S \in SUBSET Uploads : check' = [check EXCEPT ![v] =
              [busy |-> TRUE, verdict |-> NoVerdict,
               todo |-> {[upload |-> u, attempt |-> row[u].attempts + 1] : u \in S}]]
        BY <2>1 DEF PendingVerification
    <3> DEFINE n == [busy |-> TRUE, verdict |-> NoVerdict,
                     todo |-> {[upload |-> u, attempt |-> row[u].attempts + 1] : u \in S}]
    <3>2. CheckBecomes(v, n)
        BY DEF CheckBecomes
    <3> QED BY <3>1, <3>2, OneCheck
  <2>2. CASE Digest(v)
    <3>1. PICK q \in check[v].todo :
              /\ s3[q.upload].object # "none"
              /\ check' = [check EXCEPT ![v].todo = @ \ {q}, ![v].verdict =
                             [is |-> IF s3[q.upload].object = "good" THEN "good" ELSE "bad",
                              claim |-> q]]
        BY <2>2, Zenon DEF Digest
    <3> DEFINE is == IF s3[q.upload].object = "good" THEN "good" ELSE "bad"
               n == [check[v] EXCEPT !.todo = @ \ {q}, !.verdict = [is |-> is, claim |-> q]]
    <3>2. check' = [check EXCEPT ![v] = n]
        BY <3>1, Zenon
    <3>3. is \in {"good", "bad"} /\ s3' = s3
        BY <2>2 DEF Digest
    <3>4. CheckBecomes(v, n)
      <4> HIDE DEF is
      <4> QED BY <3>1, <3>3, Zenon DEF CheckBecomes
    <3> QED BY <3>2, <3>4, OneCheck
  <2>3. CASE DigestFails(v)
    <3>1. PICK q \in check[v].todo : check' = [check EXCEPT ![v].todo = @ \ {q}]
        BY <2>3, Zenon DEF DigestFails
    <3> DEFINE n == [check[v] EXCEPT !.todo = @ \ {q}]
    <3>2. check' = [check EXCEPT ![v] = n] /\ CheckBecomes(v, n)
        BY <3>1, Zenon DEF CheckBecomes
    <3> QED BY <3>2, OneCheck
  <2>4. CASE MarkUploadVerified(v) \/ MarkUploadFailed(v) \/ VerdictIsLost(v)
    <3> DEFINE n == [check[v] EXCEPT !.verdict = NoVerdict]
    <3>1. check' = [check EXCEPT ![v] = n] /\ CheckBecomes(v, n)
        BY <2>4 DEF MarkUploadVerified, MarkUploadFailed, VerdictIsLost, Settle, CheckBecomes
    <3> QED BY <3>1, OneCheck
  <2>5. CASE FailStalledVerifications(v) \/ VerifierRestarts(v)
    <3>1. check' = [check EXCEPT ![v] = Resting] /\ CheckBecomes(v, Resting)
        BY <2>5 DEF FailStalledVerifications, VerifierRestarts, CheckBecomes
    <3> QED BY <3>1, OneCheck
  <2> QED BY <1>3, <2>1, <2>2, <2>3, <2>4, <2>5 DEF VerifierStep
<1>4. ASSUME NEW k \in Keepers, KeeperStep(k) PROVE check' = check
    BY <1>4 DEF KeeperStep, KeeperProgress, ExpireStaleUploads, NothingToReclaim,
        CollectTerminalUpload, AbortMultiparts, FinishReclaim, ClaimReclaim, ReclaimFails,
        KeeperRestarts
<1>5. ASSUME NEW u \in Uploads, UploadStep(u) PROVE check' = check
    BY <1>5 DEF UploadStep, S3Creates, S3Drops, PutParts, LeaseRunsOut, Cooled, Overdue,
        Deliver, DeliverLate, RejectionSettles
<1>6. CASE UNCHANGED vars
    BY <1>1, <1>6 DEF vars
<1> QED BY <1>1, <1>2, <1>3, <1>4, <1>5, <1>6 DEF Next

KeepBecomes(k, n) ==
    \/ n = keep[k]
    \/ n \in [at : {"idle", "sweep"}]
    \/ \E u \in Uploads : Reclaimable(u) /\ n = [at |-> "ask", upload |-> u]
    \/ keep[k].at \in {"ask", "abort"} /\ n = [at |-> "refused", upload |-> keep[k].upload]
    \/ /\ keep[k].at = "ask" /\ s3'[keep[k].upload].object = "none"
       /\ n = [at |-> "abort", upload |-> keep[k].upload]
    \/ /\ keep[k].at = "abort" /\ s3'[keep[k].upload].live = {}
       /\ s3'[keep[k].upload].object = s3[keep[k].upload].object
       /\ n = [at |-> "done", upload |-> keep[k].upload]

LEMMA OneKeep ==
    ASSUME TypeOK, NEW k \in Keepers, NEW n,
           keep' = [keep EXCEPT ![k] = n], KeepBecomes(k, n)
    PROVE  \A x \in Keepers : KeepBecomes(x, keep'[x])
<1>1. ASSUME NEW x \in Keepers PROVE keep'[x] = IF x = k THEN n ELSE keep[x]
    BY Zenon DEF TypeOK
<1>2. \A x \in Keepers : KeepBecomes(x, keep[x])
    BY Zenon DEF KeepBecomes
<1> QED BY <1>1, <1>2, Zenon

LEMMA KeepStep ==
    ASSUME TypeOK, [Next]_vars
    PROVE  \A k \in Keepers : KeepBecomes(k, keep'[k])
<1>1. CASE keep' = keep
    BY <1>1 DEF KeepBecomes
<1>2. ASSUME NEW c \in Callers, CallerStep(c) PROVE keep' = keep
    BY <1>2 DEF CallerStep, CallerProgress, ClaimUpload, Reconcile, Finalize,
        StartUploadAllocation, BeginAnswered, BeginFails, FindMultipart, AttachUploadMultipart,
        MarkUploadAllocationUnknown, BindUploadFinalize, Stat, CompleteMultipart, CheckSize,
        VoidUpload, FinalizeUpload, Abandon
<1>3. ASSUME NEW v \in Verifiers, VerifierStep(v) PROVE keep' = keep
    BY <1>3 DEF VerifierStep, PendingVerification, Digest, DigestFails, MarkUploadVerified,
        MarkUploadFailed, VerdictIsLost, FailStalledVerifications, VerifierRestarts
<1>4. ASSUME NEW k \in Keepers, KeeperStep(k)
      PROVE  \A x \in Keepers : KeepBecomes(x, keep'[x])
  <2> DEFINE u == keep[k].upload
  <2>1. ASSUME keep[k].at \in {"ask", "abort"}, NEW pc, Goto(k, pc)
        PROVE  u \in Uploads /\ keep' = [keep EXCEPT ![k] = [at |-> pc, upload |-> u]]
    <3>1. keep[k] \in [at : {"ask", "abort", "done", "refused"}, upload : Uploads]
        BY <2>1 DEF TypeOK, Keeper
    <3>2. [keep[k] EXCEPT !.at = pc] = [at |-> pc, upload |-> u]
        BY <3>1
    <3>3. keep' = [keep EXCEPT ![k] = [keep[k] EXCEPT !.at = pc]]
        BY <2>1, Zenon DEF Goto
    <3> QED BY <3>1, <3>2, <3>3
  <2>2. CASE ExpireStaleUploads(k) \/ NothingToReclaim(k) \/ FinishReclaim(k) \/ KeeperRestarts(k)
    <3>1. PICK pc \in {"idle", "sweep"} : keep' = [keep EXCEPT ![k] = [at |-> pc]]
        BY <2>2 DEF ExpireStaleUploads, NothingToReclaim, FinishReclaim, KeeperRestarts, Sweep
    <3>2. KeepBecomes(k, [at |-> pc])
        BY DEF KeepBecomes
    <3> QED BY <3>1, <3>2, OneKeep
  <2>3. CASE \E x \in Uploads : ClaimReclaim(k, x)
    <3>1. PICK x \in Uploads : ClaimReclaim(k, x)
        BY <2>3
    <3>2. KeepBecomes(k, [at |-> "ask", upload |-> x])
        BY <3>1 DEF ClaimReclaim, KeepBecomes
    <3> QED BY <3>1, <3>2, OneKeep DEF ClaimReclaim
  <2>4. CASE CollectTerminalUpload(k)
    <3>1. CASE Goto(k, "refused")
        BY <2>1, <2>4, <3>1, OneKeep DEF CollectTerminalUpload, KeepBecomes
    <3>2. CASE ~Goto(k, "refused")
      <4>1. Goto(k, "abort") /\ s3' = [s3 EXCEPT ![u].object = "none"] /\ keep[k].at = "ask"
          BY <2>4, <3>2 DEF CollectTerminalUpload
      <4>2. u \in Uploads /\ keep' = [keep EXCEPT ![k] = [at |-> "abort", upload |-> u]]
          BY <2>1, <4>1
      <4>3. s3'[u].object = "none"
          BY <4>1, <4>2 DEF TypeOK, Store
      <4> QED BY <4>1, <4>2, <4>3, OneKeep DEF KeepBecomes
    <3> QED BY <3>1, <3>2
  <2>5. CASE AbortMultiparts(k)
    <3>1. u \in Uploads /\ keep' = [keep EXCEPT ![k] = [at |-> "done", upload |-> u]]
        BY <2>1, <2>5 DEF AbortMultiparts
    <3>2. s3'[u].live = {} /\ s3'[u].object = s3[u].object
        BY <2>5, <3>1 DEF AbortMultiparts, TypeOK, Store
    <3> QED BY <2>5, <3>1, <3>2, OneKeep DEF AbortMultiparts, KeepBecomes
  <2>6. CASE ReclaimFails(k)
      BY <2>1, <2>6, OneKeep DEF ReclaimFails, KeepBecomes
  <2> QED BY <1>4, <2>2, <2>3, <2>4, <2>5, <2>6 DEF KeeperStep, KeeperProgress
<1>5. ASSUME NEW u \in Uploads, UploadStep(u) PROVE keep' = keep
    BY <1>5 DEF UploadStep, S3Creates, S3Drops, PutParts, LeaseRunsOut, Cooled, Overdue,
        Deliver, DeliverLate, RejectionSettles
<1>6. CASE UNCHANGED vars
    BY <1>1, <1>6 DEF vars
<1> QED BY <1>1, <1>2, <1>3, <1>4, <1>5, <1>6 DEF Next

-----------------------------------------------------------------------------
(* Types.  A step changes a variable at its keys only, and what it puts     *)
(* there has the type of the variable.                                      *)

Keyed(f, D) == f = [x \in D |-> f[x]]

LEMMA KeysStay ==
    ASSUME TypeOK, [Next]_vars
    PROVE  /\ Keyed(row', Uploads) /\ Keyed(s3', Uploads) /\ Keyed(event', Uploads)
           /\ Keyed(hand', Callers) /\ Keyed(check', Verifiers) /\ Keyed(keep', Keepers)
<1>1. /\ Keyed(row, Uploads) /\ Keyed(s3, Uploads) /\ Keyed(event, Uploads)
      /\ Keyed(hand, Callers) /\ Keyed(check, Verifiers) /\ Keyed(keep, Keepers)
    BY Zenon DEF TypeOK, Keyed
<1>2. ASSUME NEW c \in Callers, CallerStep(c)
      PROVE  /\ Keyed(row', Uploads) /\ Keyed(s3', Uploads) /\ event' = event
             /\ Keyed(hand', Callers) /\ check' = check /\ keep' = keep
    BY <1>1, <1>2 DEF CallerStep, CallerProgress, ClaimUpload, Reconcile, Finalize,
        StartUploadAllocation, BeginAnswered, BeginFails, FindMultipart, AttachUploadMultipart,
        MarkUploadAllocationUnknown, BindUploadFinalize, Stat, CompleteMultipart, CheckSize,
        VoidUpload, FinalizeUpload, Abandon, End, At, On, Keyed
<1>3. ASSUME NEW v \in Verifiers, VerifierStep(v)
      PROVE  /\ Keyed(row', Uploads) /\ s3' = s3 /\ Keyed(event', Uploads)
             /\ hand' = hand /\ Keyed(check', Verifiers) /\ keep' = keep
    BY <1>1, <1>3 DEF VerifierStep, PendingVerification, Digest, DigestFails,
        MarkUploadVerified, MarkUploadFailed, VerdictIsLost, FailStalledVerifications,
        VerifierRestarts, Settle, Keyed
<1>4. ASSUME NEW k \in Keepers, KeeperStep(k)
      PROVE  /\ Keyed(row', Uploads) /\ Keyed(s3', Uploads) /\ event' = event
             /\ hand' = hand /\ check' = check /\ Keyed(keep', Keepers)
    BY <1>1, <1>4 DEF KeeperStep, KeeperProgress, ExpireStaleUploads, NothingToReclaim,
        CollectTerminalUpload, AbortMultiparts, FinishReclaim, ClaimReclaim, ReclaimFails,
        KeeperRestarts, Goto, Sweep, Keyed
<1>5. ASSUME NEW u \in Uploads, UploadStep(u)
      PROVE  /\ Keyed(row', Uploads) /\ Keyed(s3', Uploads) /\ Keyed(event', Uploads)
             /\ hand' = hand /\ check' = check /\ keep' = keep
    BY <1>1, <1>5 DEF UploadStep, S3Creates, S3Drops, PutParts, LeaseRunsOut, Cooled, Overdue,
        Deliver, DeliverLate, RejectionSettles, Keyed
<1>6. CASE UNCHANGED vars
    BY <1>1, <1>6 DEF vars
<1> QED BY <1>1, <1>2, <1>3, <1>4, <1>5, <1>6 DEF Next

LEMMA FaultsStay ==
    ASSUME TypeOK, [Next]_vars
    PROVE  faults' \in 0 .. MaxFaults
<1>1. faults' = faults \/ Fault
    BY DEF Next, vars,
        CallerStep, CallerProgress, ClaimUpload, Reconcile, Finalize,
        StartUploadAllocation, BeginAnswered, BeginFails, FindMultipart, AttachUploadMultipart,
        MarkUploadAllocationUnknown, BindUploadFinalize, Stat, CompleteMultipart, CheckSize,
        VoidUpload, FinalizeUpload, Abandon,
        VerifierStep, PendingVerification, Digest, DigestFails, MarkUploadVerified,
        MarkUploadFailed, VerdictIsLost, FailStalledVerifications, VerifierRestarts,
        KeeperStep, KeeperProgress, ExpireStaleUploads, NothingToReclaim,
        CollectTerminalUpload, AbortMultiparts, FinishReclaim, ClaimReclaim, ReclaimFails,
        KeeperRestarts, UploadStep, S3Creates, S3Drops, PutParts, LeaseRunsOut, Cooled,
        Overdue, Deliver, DeliverLate, RejectionSettles
<1> QED BY <1>1 DEF Fault, TypeOK

LEMMA TypeStep ==
    ASSUME TypeOK, [Next]_vars
    PROVE  TypeOK'
<1>1. ASSUME NEW u \in Uploads PROVE row'[u] \in Row
  <2>1. RowBecomes(u, row'[u]) /\ row[u] \in Row
      BY RowStep DEF TypeOK
  <2>2. ASSUME NEW c \in Callers
        PROVE  /\ hand[c].at = "attach" => hand[c].mp \in Nat
               /\ hand[c].at \in {"bind", "record"} => hand[c].command \in Commands
      BY DEF TypeOK, Caller, Idle
  <2>3. /\ [row[u] EXCEPT !.alloc = "allocating"] \in Row
        /\ [row[u] EXCEPT !.alloc = "unknown"] \in Row
        /\ \A id \in Nat : [row[u] EXCEPT !.mp = id, !.alloc = "ready"] \in Row
      BY <2>1, Zenon DEF Row
  <2>4. /\ \A s \in {"created", "failed", "expired", "ready"} :
              [row[u] EXCEPT !.status = s] \in Row
        /\ \A k \in Commands : [row[u] EXCEPT !.status = "verifying", !.run = k] \in Row
        /\ \A k \in Commands : [row[u] EXCEPT !.command = k] \in Row
      BY <2>1, Zenon DEF Row, Open, Ended
  <2>5. /\ [row[u] EXCEPT !.attempts = row[u].attempts + 1, !.lease = "live"] \in Row
        /\ [row[u] EXCEPT !.lease = "expired"] \in Row
        /\ [row[u] EXCEPT !.overdue = TRUE] \in Row
        /\ [row[u] EXCEPT !.cooling = FALSE] \in Row
    <3>1. row[u].attempts + 1 \in Nat
        BY <2>1 DEF Row
    <3> QED BY <2>1, <3>1, Zenon DEF Row
  <2>6. /\ \A k \in Keepers : [row[u] EXCEPT !.claimant = k, !.cooling = TRUE] \in Row
        /\ \A k \in Keepers :
              [row[u] EXCEPT !.claimant = NoKeeper, !.cooling = TRUE,
                             !.reclaimed = (keep[k].at = "done")] \in Row
      BY <2>1, Zenon DEF Row
  <2>7. ASSUME NEW c \in Callers, RowByCaller(u, c, row'[u]) PROVE row'[u] \in Row
    <3>1. CASE hand[c].at \in {"start", "lost"}
        BY <2>3, <2>7, <3>1 DEF RowByCaller
    <3>2. CASE hand[c].at = "attach"
      <4>1. row'[u] = [row[u] EXCEPT !.mp = hand[c].mp, !.alloc = "ready"]
          BY <2>7, <3>2 DEF RowByCaller
      <4> QED BY <2>2, <2>3, <3>2, <4>1, Zenon
    <3>3. CASE hand[c].at = "bind"
        BY <2>2, <2>4, <2>7, <3>3 DEF RowByCaller
    <3>4. CASE hand[c].at = "record"
      <4>1. row'[u] = [row[u] EXCEPT !.status = "verifying", !.run = hand[c].command]
          BY <2>7, <3>4 DEF RowByCaller
      <4>2. hand[c].command \in Commands
          BY <2>2, <3>4
      <4> QED BY <2>4, <4>1, <4>2, Zenon
    <3> QED BY <2>7, <3>1, <3>2, <3>3, <3>4 DEF RowByCaller
  <2>8. ASSUME NEW k \in Keepers, RowByKeeper(u, k, row'[u]) PROVE row'[u] \in Row
      BY <2>6, <2>8, Zenon DEF RowByKeeper
  <2> QED BY <2>1, <2>4, <2>5, <2>7, <2>8 DEF RowBecomes
<1>2. ASSUME NEW u \in Uploads PROVE s3'[u] \in Store
  <2>1. StoreBecomes(u, s3'[u]) /\ s3[u] \in Store
      BY StoreStep DEF TypeOK
  <2>2. \A p \in Content :
           [s3[u] EXCEPT !.parts = p] \in Store /\ [s3[u] EXCEPT !.object = p] \in Store
      BY <2>1, Zenon DEF Store
  <2>3. s3[u].creating + 1 \in Nat /\ s3[u].begun + 1 \in Nat /\ s3[u].live \in SUBSET Nat
      BY <2>1 DEF Store
  <2>4. s3[u].creating > 0 => s3[u].creating - 1 \in Nat
      BY <2>1 DEF Store
  <2>5. /\ [s3[u] EXCEPT !.creating = s3[u].creating + 1] \in Store
        /\ s3[u].creating > 0 => [s3[u] EXCEPT !.creating = s3[u].creating - 1] \in Store
        /\ s3[u].creating > 0 =>
              [s3[u] EXCEPT !.creating = s3[u].creating - 1, !.begun = s3[u].begun + 1,
                            !.live = s3[u].live \cup {s3[u].begun + 1}] \in Store
      BY <2>1, <2>3, <2>4, Zenon DEF Store
  <2>6. /\ \A x : [s3[u] EXCEPT !.object = s3[u].parts, !.live = s3[u].live \ {x}] \in Store
        /\ [s3[u] EXCEPT !.live = {}] \in Store
      BY <2>1, Zenon DEF Store
  <2>7. "none" \in Content
      BY DEF Content
  <2> QED BY <2>1, <2>2, <2>5, <2>6, <2>7 DEF StoreBecomes
<1>3. ASSUME NEW u \in Uploads PROVE event'[u] \in Event
  <2>1. EventBecomes(u, event'[u]) /\ event[u] \in Event
      BY EventChange DEF TypeOK
  <2>2. /\ \A x \in {"registered", "rejected", "settled"} : [event[u] EXCEPT !.state = x] \in Event
        /\ [event[u] EXCEPT !.ref = TRUE] \in Event
        /\ [event[u] EXCEPT !.state = "registered", !.ref = TRUE] \in Event
      BY <2>1, Zenon DEF Event
  <2>3. event[u].sent + 1 \in Nat
      BY <2>1 DEF Event
  <2>4. [event[u] EXCEPT !.sent = event[u].sent + 1, !.state = "pending"] \in Event
      BY <2>1, <2>3, Zenon DEF Event
  <2> QED BY <2>1, <2>2, <2>4 DEF EventBecomes
<1>4. ASSUME NEW c \in Callers PROVE hand'[c] \in Caller
  <2>1. HandBecomes(c, hand'[c]) /\ hand[c] \in Caller
      BY HandStep DEF TypeOK
  <2>2. CASE hand'[c] = hand[c] \/ hand'[c] = Idle
      BY <2>1, <2>2 DEF Caller
  <2>3. CASE HandStarts(c, hand'[c])
    <3>1. \A u \in Uploads, pc \in {"start", "find"} : [at |-> pc, upload |-> u] \in Caller
        BY Zenon DEF Caller
    <3>2. \A u \in Uploads, k \in Commands, b \in BOOLEAN :
             [at |-> "bind", upload |-> u, command |-> k, open |-> b] \in Caller
        BY DEF Caller
    <3>3. \A u \in Uploads, k \in Commands :
             [at |-> "bind", upload |-> u, command |-> k,
              open |-> row[u].status = "created"] \in Caller
        BY <3>2, Zenon
    <3> QED BY <2>3, <3>1, <3>3, Zenon DEF HandStarts
  <2>4. CASE HandMoves(c, hand'[c])
    <3>1. Of(c) \in Uploads
      <4>1. hand[c] # Idle
        <5>1. hand[c].at \in {"start", "begin", "find", "bind", "stat", "merge", "size"}
            BY <2>4, Zenon DEF HandMoves
        <5>2. Idle.at = "idle"
            BY DEF Idle
        <5> QED BY <5>1, <5>2
      <4> QED BY <2>1, <4>1 DEF Caller, Of
    <3>2. (1 .. s3[Of(c)].begun) \cup s3[Of(c)].live \subseteq Nat
        BY <3>1 DEF TypeOK, Store
    <3>3. hand[c].at \in Recording \cup {"bind"} => hand[c].command \in Commands
        BY <2>1 DEF Caller, Recording, Idle
    <3>4. /\ \A pc \in {"begin", "lost"} : [at |-> pc, upload |-> Of(c)] \in Caller
          /\ \A id \in Nat : [at |-> "attach", upload |-> Of(c), mp |-> id] \in Caller
        BY <3>1, Zenon DEF Caller
    <3>5. ASSUME hand[c].command \in Commands
          PROVE  \A pc \in Recording :
                    [at |-> pc, upload |-> Of(c), command |-> hand[c].command] \in Caller
        BY <3>1, <3>5, Zenon DEF Caller, Recording
    <3> QED BY <2>4, <3>2, <3>3, <3>4, <3>5 DEF HandMoves, Recording
  <2> QED BY <2>1, <2>2, <2>3, <2>4 DEF HandBecomes
<1>5. ASSUME NEW v \in Verifiers PROVE check'[v] \in Verifier
  <2>1. CheckBecomes(v, check'[v]) /\ check[v] \in Verifier
      BY CheckStep DEF TypeOK
  <2>2. ASSUME NEW S \in SUBSET Uploads
        PROVE  {[upload |-> u, attempt |-> row[u].attempts + 1] : u \in S} \subseteq Claim
      BY DEF TypeOK, Row, Claim
  <2>3. Resting \in Verifier
      BY DEF Resting, Verifier
  <2>4. \A S \in SUBSET Claim : [busy |-> TRUE, verdict |-> NoVerdict, todo |-> S] \in Verifier
      BY Zenon DEF Verifier
  <2>5. \A q \in check[v].todo :
           /\ q \in Claim /\ check[v].todo \ {q} \in SUBSET Claim
           /\ [check[v] EXCEPT !.todo = check[v].todo \ {q}] \in Verifier
      BY <2>1, Zenon DEF Verifier
  <2>6. \A q \in Claim, is \in {"good", "bad"}, S \in SUBSET Claim :
           [check[v] EXCEPT !.todo = S, !.verdict = [is |-> is, claim |-> q]] \in Verifier
      BY <2>1, Zenon DEF Verifier
  <2>7. [check[v] EXCEPT !.verdict = NoVerdict] \in Verifier
      BY <2>1, Zenon DEF Verifier
  <2>8. ASSUME NEW q \in check[v].todo, NEW is \in {"good", "bad"}
        PROVE  [check[v] EXCEPT !.todo = @ \ {q}, !.verdict = [is |-> is, claim |-> q]] \in Verifier
      BY <2>5, <2>6
  <2>9. ASSUME NEW q \in check[v].todo PROVE [check[v] EXCEPT !.todo = @ \ {q}] \in Verifier
      BY <2>5
  <2> QED BY <2>1, <2>2, <2>3, <2>4, <2>7, <2>8, <2>9, ZenonT(30) DEF CheckBecomes
<1>6. ASSUME NEW k \in Keepers PROVE keep'[k] \in Keeper
  <2>1. KeepBecomes(k, keep'[k]) /\ keep[k] \in Keeper
      BY KeepStep DEF TypeOK
  <2>2. keep[k].at \in {"ask", "abort"} => keep[k].upload \in Uploads
      BY <2>1 DEF Keeper
  <2>3. \A pc \in {"ask", "abort", "done", "refused"}, u \in Uploads :
           [at |-> pc, upload |-> u] \in Keeper
      BY Zenon DEF Keeper
  <2>4. [at : {"idle", "sweep"}] \subseteq Keeper
      BY DEF Keeper
  <2> QED BY <2>1, <2>2, <2>3, <2>4 DEF KeepBecomes
<1> QED BY <1>1, <1>2, <1>3, <1>4, <1>5, <1>6, KeysStay, FaultsStay DEF TypeOK, Keyed

-----------------------------------------------------------------------------
(* The summaries again, field by field.                                     *)

LEMMA AllocFields ==
    ASSUME TypeOK, [Next]_vars, NEW u \in Uploads
    PROVE  \/ row'[u].alloc = row[u].alloc /\ row'[u].mp = row[u].mp
           \/ MayStart(u) /\ row'[u].alloc = "allocating" /\ row'[u].mp = row[u].mp
           \/ Unknowable(u) /\ row'[u].alloc = "unknown" /\ row'[u].mp = row[u].mp
           \/ \E c \in Callers :
                 /\ hand[c].at = "attach" /\ Of(c) = u /\ row[u].mp \in {0, hand[c].mp}
                 /\ row'[u].alloc = "ready" /\ row'[u].mp = hand[c].mp
<1>1. RowBecomes(u, row'[u]) /\ row[u] \in Row
    BY RowStep DEF TypeOK
<1>2. CASE \E c \in Callers : RowByCaller(u, c, row'[u])
  <2>1. PICK c \in Callers : RowByCaller(u, c, row'[u])
      BY <1>2
  <2>2. CASE hand[c].at = "attach"
    <3>1. /\ row[u].mp \in {0, hand[c].mp}
          /\ row'[u] = [row[u] EXCEPT !.mp = hand[c].mp, !.alloc = "ready"]
        BY <2>1, <2>2 DEF RowByCaller
    <3>2. row'[u].alloc = "ready" /\ row'[u].mp = hand[c].mp
        BY <1>1, <3>1 DEF Row
    <3> QED BY <2>1, <2>2, <3>1, <3>2 DEF RowByCaller
  <2>3. CASE hand[c].at \in {"start", "lost"}
      BY <1>1, <2>1, <2>3 DEF RowByCaller, Row
  <2>4. CASE hand[c].at \in {"bind", "record"}
      BY <1>1, <2>1, <2>4 DEF RowByCaller, Row
  <2> QED BY <2>1, <2>2, <2>3, <2>4 DEF RowByCaller
<1>3. CASE \E k \in Keepers : RowByKeeper(u, k, row'[u])
    BY <1>1, <1>3 DEF RowByKeeper, Row
<1> QED BY <1>1, <1>2, <1>3 DEF RowBecomes, Row

LEMMA CommandFields ==
    ASSUME TypeOK, [Next]_vars, NEW u \in Uploads
    PROVE  \/ row'[u].command = row[u].command /\ row'[u].run = row[u].run
           \/ /\ row'[u].run = row[u].run /\ row'[u].status = row[u].status
              /\ \E c \in Callers :
                    /\ hand[c].at = "bind" /\ Of(c) = u /\ Bindable(u, hand[c].command)
                    /\ row'[u].command = hand[c].command
           \/ /\ row'[u].command = row[u].command /\ row[u].status = "created"
              /\ \E c \in Callers : /\ hand[c].at = "record" /\ Of(c) = u
                                    /\ row'[u].run = hand[c].command
<1>1. RowBecomes(u, row'[u]) /\ row[u] \in Row
    BY RowStep DEF TypeOK
<1>2. CASE \E c \in Callers : RowByCaller(u, c, row'[u])
  <2>1. PICK c \in Callers : RowByCaller(u, c, row'[u])
      BY <1>2
  <2>2. CASE hand[c].at = "bind"
      BY <1>1, <2>1, <2>2 DEF RowByCaller, Row
  <2>3. CASE hand[c].at = "record"
    <3>1. /\ row[u].status = "created"
          /\ row'[u] = [row[u] EXCEPT !.status = "verifying", !.run = hand[c].command]
        BY <2>1, <2>3 DEF RowByCaller
    <3>2. /\ row'[u].run = hand[c].command /\ row'[u].command = row[u].command
          /\ row'[u].status = "verifying"
        BY <1>1, <3>1 DEF Row
    <3> QED BY <2>1, <2>3, <3>1, <3>2 DEF RowByCaller
  <2>4. CASE hand[c].at \in {"start", "attach", "lost"}
      BY <1>1, <2>1, <2>4 DEF RowByCaller, Row
  <2> QED BY <2>1, <2>2, <2>3, <2>4 DEF RowByCaller
<1>3. CASE \E k \in Keepers : RowByKeeper(u, k, row'[u])
    BY <1>1, <1>3 DEF RowByKeeper, Row
<1> QED BY <1>1, <1>2, <1>3 DEF RowBecomes, Row

LEMMA StatusFields ==
    ASSUME TypeOK, [Next]_vars, NEW u \in Uploads
    PROVE  \/ row'[u].status = row[u].status
           \/ row[u].status = "absent" /\ row'[u].status = "created"
           \/ row[u].status \in Open /\ row'[u].status \in {"failed", "expired"}
           \/ /\ row[u].status = "verifying" /\ row'[u].status = "ready"
              /\ event'[u] = [event[u] EXCEPT !.sent = @ + 1, !.state = "pending"]
           \/ /\ row[u].status = "created" /\ row'[u].status = "verifying"
              /\ \E c \in Callers : /\ hand[c].at = "record" /\ Of(c) = u
                                    /\ row'[u].run = hand[c].command
                                    /\ row'[u].command = row[u].command
<1>1. RowBecomes(u, row'[u]) /\ row[u] \in Row
    BY RowStep DEF TypeOK
<1>2. CASE \E c \in Callers : RowByCaller(u, c, row'[u])
  <2>1. PICK c \in Callers : RowByCaller(u, c, row'[u])
      BY <1>2
  <2>2. CASE hand[c].at = "bind"
      BY <1>1, <2>1, <2>2 DEF RowByCaller, Row
  <2>3. CASE hand[c].at = "record"
    <3>1. /\ row[u].status = "created"
          /\ row'[u] = [row[u] EXCEPT !.status = "verifying", !.run = hand[c].command]
        BY <2>1, <2>3 DEF RowByCaller
    <3>2. /\ row'[u].run = hand[c].command /\ row'[u].command = row[u].command
          /\ row'[u].status = "verifying"
        BY <1>1, <3>1 DEF Row
    <3> QED BY <2>1, <2>3, <3>1, <3>2 DEF RowByCaller
  <2>4. CASE hand[c].at \in {"start", "attach", "lost"}
      BY <1>1, <2>1, <2>4 DEF RowByCaller, Row
  <2> QED BY <2>1, <2>2, <2>3, <2>4 DEF RowByCaller
<1>3. CASE \E k \in Keepers : RowByKeeper(u, k, row'[u])
    BY <1>1, <1>3 DEF RowByKeeper, Row
<1> QED BY <1>1, <1>2, <1>3 DEF RowBecomes, Row, Fenced

Kept(n, r) == n.overdue = r.overdue /\ n.claimant = r.claimant /\ n.reclaimed = r.reclaimed

(* What a request or a verifier writes is of no concern to reclamation.     *)
LEMMA EditsKeep ==
    ASSUME NEW r \in Row, NEW n, NEW x,
           \/ n = [r EXCEPT !.status = x] \/ n = [r EXCEPT !.command = x]
           \/ n = [r EXCEPT !.alloc = x] \/ n = [r EXCEPT !.lease = x]
           \/ n = [r EXCEPT !.cooling = x]
    PROVE  Kept(n, r)
<1>1. CASE n = [r EXCEPT !.status = x] \/ n = [r EXCEPT !.command = x]
    BY <1>1, Zenon DEF Row, Kept
<1>2. CASE n = [r EXCEPT !.alloc = x] \/ n = [r EXCEPT !.lease = x]
    BY <1>2, Zenon DEF Row, Kept
<1>3. CASE n = [r EXCEPT !.cooling = x]
    BY <1>3, Zenon DEF Row, Kept
<1> QED BY <1>1, <1>2, <1>3, Zenon

LEMMA ReclaimFields ==
    ASSUME TypeOK, [Next]_vars, NEW u \in Uploads
    PROVE  /\ row[u].overdue => row'[u].overdue
           /\ \/ row'[u].claimant = row[u].claimant /\ row'[u].reclaimed = row[u].reclaimed
              \/ Reclaimable(u) /\ row'[u].reclaimed = row[u].reclaimed
              \/ /\ row'[u].claimant = NoKeeper
                 /\ \E k \in Keepers :
                       /\ keep[k].upload = u /\ keep[k].at \in {"done", "refused"}
                       /\ row'[u].reclaimed = (keep[k].at = "done")
<1> DEFINE r == row[u]
           n == row'[u]
<1>1. RowBecomes(u, n) /\ r \in Row
    BY RowStep DEF TypeOK
<1>2. CASE Kept(n, r)
    BY <1>2, Zenon DEF Kept
<1>3. CASE \E c \in Callers : RowByCaller(u, c, n)
  <2>1. PICK c \in Callers : RowByCaller(u, c, n)
      BY <1>3
  <2>2. CASE hand[c].at \in {"start", "lost"}
    <3>1. n = [r EXCEPT !.alloc = "allocating"] \/ n = [r EXCEPT !.alloc = "unknown"]
        BY <2>1, <2>2 DEF RowByCaller
    <3> QED BY <1>1, <1>2, <3>1, EditsKeep, Zenon
  <2>3. CASE hand[c].at = "attach"
    <3>1. n = [r EXCEPT !.mp = hand[c].mp, !.alloc = "ready"]
        BY <2>1, <2>3 DEF RowByCaller
    <3>2. Kept(n, r)
        BY <1>1, <3>1, Zenon DEF Row, Kept
    <3> QED BY <1>2, <3>2
  <2>4. CASE hand[c].at = "bind"
    <3>1. n = [r EXCEPT !.command = hand[c].command]
        BY <2>1, <2>4 DEF RowByCaller
    <3> QED BY <1>1, <1>2, <3>1, EditsKeep, Zenon
  <2>5. CASE hand[c].at = "record"
    <3>1. n = [r EXCEPT !.status = "verifying", !.run = hand[c].command]
        BY <2>1, <2>5 DEF RowByCaller
    <3>2. Kept(n, r)
        BY <1>1, <3>1, Zenon DEF Row, Kept
    <3> QED BY <1>2, <3>2
  <2> QED BY <2>1, <2>2, <2>3, <2>4, <2>5 DEF RowByCaller
<1>4. CASE \E k \in Keepers : RowByKeeper(u, k, n)
  <2>1. PICK k \in Keepers : RowByKeeper(u, k, n)
      BY <1>4
  <2>2. CASE Reclaimable(u) /\ n = [r EXCEPT !.claimant = k, !.cooling = TRUE]
    <3>1. n.overdue = r.overdue /\ n.reclaimed = r.reclaimed
        BY <1>1, <2>2, Zenon DEF Row
    <3> QED BY <2>2, <3>1, Zenon
  <2>3. CASE /\ keep[k].at \in {"done", "refused"} /\ keep[k].upload = u
             /\ n = [r EXCEPT !.claimant = NoKeeper, !.cooling = TRUE,
                             !.reclaimed = (keep[k].at = "done")]
    <3>1. ASSUME NEW b, n = [r EXCEPT !.claimant = NoKeeper, !.cooling = TRUE, !.reclaimed = b]
          PROVE  n.overdue = r.overdue /\ n.claimant = NoKeeper /\ n.reclaimed = b
        BY <1>1, <3>1, Zenon DEF Row
    <3>2. /\ n.overdue = r.overdue /\ n.claimant = NoKeeper
          /\ n.reclaimed = (keep[k].at = "done")
        BY <2>3, <3>1, Zenon
    <3> QED BY <2>3, <3>2, Zenon
  <2> QED BY <2>1, <2>2, <2>3, Zenon DEF RowByKeeper
<1>5. CASE n = [r EXCEPT !.overdue = TRUE]
  <2>1. n.overdue = TRUE /\ n.claimant = r.claimant /\ n.reclaimed = r.reclaimed
      BY <1>1, <1>5, Zenon DEF Row
  <2> QED BY <2>1, Zenon
<1>6. CASE \/ n = r
           \/ n = [r EXCEPT !.status = "created"] \/ n = [r EXCEPT !.status = "failed"]
           \/ n = [r EXCEPT !.status = "expired"] \/ n = [r EXCEPT !.status = "ready"]
           \/ n = [r EXCEPT !.attempts = @ + 1, !.lease = "live"]
           \/ n = [r EXCEPT !.lease = "expired"] \/ n = [r EXCEPT !.cooling = FALSE]
  <2>1. CASE n = r
      BY <2>1, Zenon
  <2>2. CASE n = [r EXCEPT !.attempts = @ + 1, !.lease = "live"]
    <3>1. Kept(n, r)
        BY <1>1, <2>2, Zenon DEF Row, Kept
    <3> QED BY <1>2, <3>1
  <2>3. CASE \/ n = [r EXCEPT !.status = "created"] \/ n = [r EXCEPT !.status = "failed"]
             \/ n = [r EXCEPT !.status = "expired"] \/ n = [r EXCEPT !.status = "ready"]
      BY <1>1, <1>2, <2>3, EditsKeep, Zenon
  <2>4. CASE n = [r EXCEPT !.lease = "expired"] \/ n = [r EXCEPT !.cooling = FALSE]
      BY <1>1, <1>2, <2>4, EditsKeep, Zenon
  <2> QED BY <1>6, <2>1, <2>2, <2>3, <2>4, Zenon
<1> QED BY <1>1, <1>3, <1>4, <1>5, <1>6, Zenon DEF RowBecomes

LEMMA StoreFields ==
    ASSUME TypeOK, [Next]_vars, NEW u \in Uploads
    PROVE  /\ \/ /\ s3'[u].creating = s3[u].creating /\ s3'[u].begun = s3[u].begun
                 /\ s3'[u].live \subseteq s3[u].live
              \/ /\ row[u].alloc = "pending" /\ row'[u].alloc = "allocating"
                 /\ s3'[u].creating = s3[u].creating + 1 /\ s3'[u].begun = s3[u].begun
                 /\ s3'[u].live = s3[u].live
              \/ /\ s3[u].creating > 0 /\ s3'[u].creating = s3[u].creating - 1
                 /\ \/ s3'[u].begun = s3[u].begun /\ s3'[u].live = s3[u].live
                    \/ /\ s3'[u].begun = s3[u].begun + 1
                       /\ s3'[u].live = s3[u].live \cup {s3[u].begun + 1}
           /\ s3'[u].parts = s3[u].parts \/ s3'[u].parts # "none"
           /\ \/ s3'[u].object = s3[u].object
              \/ \E c \in Callers : /\ hand[c].at = "merge" /\ Of(c) = u
                                    /\ s3'[u].object = s3[u].parts
              \/ /\ s3'[u].object = "none"
                 /\ row' = row /\ hand' = hand /\ check' = check
                 /\ \/ /\ event[u].state = "pending" /\ event'[u].state = "registered"
                       /\ event'[u].ref = event[u].ref
                    \/ /\ event' = event /\ ~event[u].ref
                       /\ \E k \in Keepers : keep[k].at = "ask" /\ keep[k].upload = u
<1>1. StoreBecomes(u, s3'[u]) /\ s3[u] \in Store
    BY StoreStep DEF TypeOK
<1> QED BY <1>1 DEF StoreBecomes, Store

-----------------------------------------------------------------------------
(* Each part of the invariant is kept.                                      *)

LEMMA HandMoved ==
    ASSUME TypeOK, [Next]_vars, NEW c \in Callers, hand'[c] # hand[c],
           hand'[c].at \in Recording \cup {"begin", "attach", "lost"}
    PROVE  HandMoves(c, hand'[c])
<1>1. HandBecomes(c, hand'[c])
    BY HandStep
<1>2. ~HandStarts(c, hand'[c])
  <2>1. ASSUME HandStarts(c, hand'[c])
        PROVE  hand'[c].at = "start" \/ hand'[c].at = "find" \/ hand'[c].at = "bind"
    <3>1. ASSUME NEW u \in Uploads, NEW pc \in {"start", "find"},
                 hand'[c] = [at |-> pc, upload |-> u]
          PROVE  hand'[c].at = "start" \/ hand'[c].at = "find"
        BY <3>1
    <3>2. ASSUME NEW u \in Uploads, NEW k \in Commands,
                 hand'[c] = [at |-> "bind", upload |-> u, command |-> k,
                             open |-> row[u].status = "created"]
          PROVE  hand'[c].at = "bind"
        BY <3>2
    <3> QED BY <2>1, <3>1, <3>2, Zenon DEF HandStarts
  <2> QED BY <2>1 DEF Recording
<1>3. hand'[c] # Idle
    BY DEF Idle, Recording
<1> QED BY <1>1, <1>2, <1>3 DEF HandBecomes

LEMMA AllocStep ==
    ASSUME TypeOK, AllocInv, [Next]_vars
    PROVE  AllocInv'
<1>1. ASSUME NEW u \in Uploads PROVE s3[u].begun \in Nat /\ s3'[u].begun >= s3[u].begun
    BY <1>1, StoreFields DEF TypeOK, Store
<1>2. ASSUME NEW u \in Uploads PROVE Allocated(u)'
  <2>1. Allocated(u) /\ s3[u] \in Store /\ row[u] \in Row
      BY DEF AllocInv, TypeOK
  <2>2. s3'[u].begun + s3'[u].creating <= 1 /\ s3'[u].live \subseteq 1 .. s3'[u].begun
    <3> DEFINE o == s3[u]
               n == s3'[u]
    <3>1. \/ n.creating = o.creating /\ n.begun = o.begun /\ n.live \subseteq o.live
          \/ /\ row[u].alloc = "pending" /\ n.creating = o.creating + 1
             /\ n.begun = o.begun /\ n.live = o.live
          \/ /\ o.creating > 0 /\ n.creating = o.creating - 1
             /\ \/ n.begun = o.begun /\ n.live = o.live
                \/ n.begun = o.begun + 1 /\ n.live = o.live \cup {o.begun + 1}
        BY StoreFields
    <3>2. o.creating \in Nat /\ o.begun \in Nat
        BY <2>1 DEF Store
    <3>3. /\ o.begun + o.creating <= 1 /\ o.live \subseteq 1 .. o.begun
          /\ row[u].alloc = "pending" => o.begun = 0 /\ o.creating = 0
        BY <2>1 DEF Allocated
    <3> HIDE DEF o, n
    <3>4. n.begun + n.creating <= 1
        BY <3>1, <3>2, <3>3
    <3>5. n.live \subseteq o.live \/ (n.begun = o.begun + 1 /\ n.live = o.live \cup {o.begun + 1})
        BY <3>1
    <3>6. n.begun = o.begun \/ n.begun = o.begun + 1
        BY <3>1
    <3>7. n.live \subseteq 1 .. n.begun
        BY <3>2, <3>3, <3>5, <3>6
    <3> QED BY <3>4, <3>7 DEF n
  <2>3. row'[u].alloc = "pending" => s3'[u].begun = 0 /\ s3'[u].creating = 0
    <3>1. row'[u].alloc = "pending" => row[u].alloc = "pending"
        BY AllocFields
    <3> QED BY <2>1, <3>1, StoreFields DEF Allocated, Store
  <2>4. row'[u].mp <= s3'[u].begun /\ (row'[u].alloc = "ready" => row'[u].mp # 0)
    <3>1. CASE row'[u].mp = row[u].mp /\ (row'[u].alloc = "ready" => row[u].alloc = "ready")
      <4>1. /\ row[u].mp \in Nat /\ row[u].mp <= s3[u].begun
            /\ row[u].alloc = "ready" => row[u].mp # 0
          BY <2>1 DEF Allocated, Row
      <4>2. s3'[u].begun \in Nat /\ s3[u].begun \in Nat /\ s3'[u].begun >= s3[u].begun
          BY <1>1, TypeStep DEF TypeOK, Store
      <4> HIDE DEF Allocated
      <4> QED BY <3>1, <4>1, <4>2
    <3>2. CASE \E c \in Callers : /\ hand[c].at = "attach" /\ Of(c) = u
                                  /\ row'[u].mp = hand[c].mp
      <4>1. PICK c \in Callers : /\ hand[c].at = "attach" /\ Of(c) = u
                                 /\ row'[u].mp = hand[c].mp
          BY <3>2
      <4>2. hand[c].mp \in 1 .. s3[u].begun
          BY <4>1 DEF AllocInv, Attaching
      <4>3. s3'[u].begun \in Nat /\ s3[u].begun \in Nat /\ s3'[u].begun >= s3[u].begun
          BY <1>1, TypeStep DEF TypeOK, Store
      <4> QED BY <4>1, <4>2, <4>3
    <3> QED BY <3>1, <3>2, AllocFields
  <2> QED BY <2>2, <2>3, <2>4 DEF Allocated
<1>3. ASSUME NEW c \in Callers PROVE Attaching(c)'
  <2> SUFFICES ASSUME hand'[c].at = "attach"
               PROVE  hand'[c].mp \in 1 .. s3'[hand'[c].upload].begun
      BY DEF Attaching, Of
  <2>1. HandBecomes(c, hand'[c]) /\ hand[c] \in Caller
      BY HandStep DEF TypeOK
  <2>2. CASE hand'[c] = hand[c]
    <3>1. hand[c].mp \in 1 .. s3[hand[c].upload].begun /\ hand[c].upload \in Uploads
        BY <2>1, <2>2 DEF AllocInv, Attaching, Of, Caller, Idle
    <3>2. /\ s3'[hand[c].upload].begun \in Nat /\ s3[hand[c].upload].begun \in Nat
          /\ s3'[hand[c].upload].begun >= s3[hand[c].upload].begun
        BY <1>1, <3>1, TypeStep DEF TypeOK, Store
    <3> QED BY <2>2, <3>1, <3>2
  <2>3. CASE hand'[c] # hand[c]
    <3>1. PICK id \in (1 .. s3[Of(c)].begun) \cup s3[Of(c)].live :
              /\ hand[c].at \in {"begin", "find"}
              /\ hand'[c] = [at |-> "attach", upload |-> Of(c), mp |-> id]
      <4>1. HandMoves(c, hand'[c])
          BY <2>3, HandMoved
      <4> QED BY <4>1 DEF HandMoves
    <3>2. Of(c) \in Uploads
        BY <2>1, <3>1 DEF Caller, Idle, Of
    <3>3. s3[Of(c)].live \subseteq 1 .. s3[Of(c)].begun
        BY <3>2 DEF AllocInv, Allocated
    <3>4. /\ s3'[Of(c)].begun \in Nat /\ s3[Of(c)].begun \in Nat
          /\ s3'[Of(c)].begun >= s3[Of(c)].begun
        BY <1>1, <3>2, TypeStep DEF TypeOK, Store
    <3>5. hand'[c].upload = Of(c) /\ hand'[c].mp = id /\ id \in 1 .. s3[Of(c)].begun
        BY <3>1, <3>3
    <3> QED BY <3>4, <3>5
  <2> QED BY <2>2, <2>3
<1> QED BY <1>2, <1>3 DEF AllocInv

LEMMA BoundStep ==
    ASSUME TypeOK, BoundInv, [Next]_vars
    PROVE  BoundInv'
<1>1. ASSUME NEW c \in Callers, hand[c].at \in Recording \cup {"bind"}
      PROVE  hand[c].command # NoCommand
    BY <1>1 DEF TypeOK, Caller, Idle, Recording
<1>2. ASSUME NEW u \in Uploads PROVE Bound(u)'
  <2> SUFFICES ASSUME row'[u].status \in {"verifying", "ready"}
               PROVE  row'[u].run = row'[u].command /\ row'[u].run # NoCommand
      BY DEF Bound
  <2>1. CASE row[u].status \in {"verifying", "ready"}
    <3>1. row[u].run = row[u].command /\ row[u].run # NoCommand
        BY <2>1 DEF BoundInv, Bound
    <3> QED BY <2>1, <3>1, CommandFields DEF Bindable
  <2>2. CASE row[u].status \notin {"verifying", "ready"}
    <3>1. PICK c \in Callers : /\ hand[c].at = "record" /\ Of(c) = u
                               /\ row'[u].run = hand[c].command
                               /\ row'[u].command = row[u].command
        BY <2>2, StatusFields
    <3> QED BY <1>1, <3>1 DEF BoundInv, Binding, Recording
  <2> QED BY <2>1, <2>2
<1>3. ASSUME NEW c \in Callers PROVE Binding(c)'
  <2> SUFFICES ASSUME hand'[c].at \in Recording
               PROVE  row'[hand'[c].upload].command = hand'[c].command
      BY DEF Binding, Of
  <2>1. HandBecomes(c, hand'[c]) /\ hand[c] \in Caller
      BY HandStep DEF TypeOK
  <2>2. ASSUME hand[c].at \in Recording
        PROVE  row'[Of(c)].command = hand[c].command
    <3>1. Of(c) \in Uploads /\ row[Of(c)].command = hand[c].command
        BY <2>1, <2>2 DEF BoundInv, Binding, Of, Caller, Idle, Recording
    <3>2. hand[c].command # NoCommand
        BY <1>1, <2>2
    <3> QED BY <3>1, <3>2, CommandFields DEF Bindable
  <2>3. CASE hand'[c] = hand[c]
      BY <2>2, <2>3 DEF Of
  <2>4. CASE hand'[c] # hand[c]
    <3>1. HandMoves(c, hand'[c])
        BY <2>4, HandMoved
    <3>2. CASE hand[c].at = "bind"
      <4>1. /\ row'[Of(c)].command = hand[c].command
            /\ hand'[c] = [at |-> "stat", upload |-> Of(c), command |-> hand[c].command]
          BY <3>1, <3>2 DEF HandMoves
      <4> QED BY <4>1
    <3>3. CASE hand[c].at \in {"stat", "merge", "size"}
      <4>1. PICK pc \in {"merge", "size", "void", "record"} :
                hand'[c] = [at |-> pc, upload |-> Of(c), command |-> hand[c].command]
          BY <3>1, <3>3 DEF HandMoves
      <4>2. row'[Of(c)].command = hand[c].command
          BY <2>2, <3>3 DEF Recording
      <4> QED BY <4>1, <4>2
    <3>4. CASE hand[c].at = "start"
      <4>1. hand'[c] = [at |-> "begin", upload |-> Of(c)]
          BY <3>1, <3>4 DEF HandMoves
      <4> QED BY <4>1 DEF Recording
    <3>5. CASE hand[c].at \in {"begin", "find"}
      <4>1. /\ hand[c].at # "start" /\ hand[c].at # "bind"
            /\ hand[c].at \notin {"stat", "merge", "size"}
          BY <3>5
      <4>2. \/ hand'[c] = [at |-> "lost", upload |-> Of(c)]
            \/ \E id \in (1 .. s3[Of(c)].begun) \cup s3[Of(c)].live :
                  hand'[c] = [at |-> "attach", upload |-> Of(c), mp |-> id]
          BY <3>1, <4>1, Zenon DEF HandMoves
      <4>3. hand'[c].at = "lost" \/ hand'[c].at = "attach"
        <5>1. ASSUME NEW id, hand'[c] = [at |-> "attach", upload |-> Of(c), mp |-> id]
              PROVE  hand'[c].at = "attach"
            BY <5>1
        <5>2. CASE hand'[c] = [at |-> "lost", upload |-> Of(c)]
            BY <5>2
        <5> QED BY <4>2, <5>1, <5>2, Zenon
      <4> QED BY <4>3 DEF Recording
    <3> QED BY <3>1, <3>2, <3>3, <3>4, <3>5 DEF HandMoves
  <2> QED BY <2>3, <2>4
<1> QED BY <1>2, <1>3 DEF BoundInv

LEMMA SentStep ==
    ASSUME TypeOK, SentInv, [Next]_vars
    PROVE  SentInv'
<1> SUFFICES ASSUME NEW u \in Uploads PROVE Sent(u)'
    BY DEF SentInv
<1>1. Sent(u) /\ event[u] \in Event /\ EventBecomes(u, event'[u])
    BY EventChange DEF SentInv, TypeOK
<1>2. CASE row'[u].status = row[u].status
    BY <1>1, <1>2 DEF Sent, EventBecomes, Event
<1>3. CASE row[u].status = "verifying" /\ row'[u].status = "ready"
  <2>1. event'[u] = [event[u] EXCEPT !.sent = @ + 1, !.state = "pending"]
      BY <1>3, StatusFields DEF Open
  <2>2. /\ event'[u].sent = event[u].sent + 1
        /\ event'[u].state = "pending" /\ event'[u].ref = event[u].ref
      BY <1>1, <2>1 DEF Event
  <2> QED BY <1>1, <1>3, <2>2 DEF Sent
<1>4. CASE row[u].status # "ready" /\ row'[u].status # "ready"
    BY <1>1, <1>4 DEF Sent, EventBecomes, Event
<1> QED BY <1>2, <1>3, <1>4, StatusFields DEF Open

(* A request works on one upload from its start to its end.                *)
LEMMA SameUpload ==
    ASSUME NEW c \in Callers, HandMoves(c, hand'[c])
    PROVE  hand'[c].upload = Of(c)
<1>1. ASSUME NEW pc, hand'[c] = [at |-> pc, upload |-> Of(c)]
      PROVE  hand'[c].upload = Of(c)
    BY <1>1
<1>2. ASSUME NEW id, hand'[c] = [at |-> "attach", upload |-> Of(c), mp |-> id]
      PROVE  hand'[c].upload = Of(c)
    BY <1>2
<1>3. ASSUME NEW pc, NEW k, hand'[c] = [at |-> pc, upload |-> Of(c), command |-> k]
      PROVE  hand'[c].upload = Of(c)
    BY <1>3
<1> QED BY <1>1, <1>2, <1>3, Zenon DEF HandMoves

LEMMA OverStays ==
    ASSUME TypeOK, [Next]_vars, NEW u \in Uploads, Over(u)
    PROVE  Over(u)'
<1>1. row[u].status \in Ended /\ row[u].overdue /\ row[u].alloc \in {"pending", "ready"}
    BY DEF Over
<1>2. row'[u].status = row[u].status
    BY <1>1, StatusFields DEF Open, Ended
<1>3. row'[u].overdue
    BY <1>1, ReclaimFields
<1>4. row'[u].alloc \in {"pending", "ready"}
    BY <1>1, AllocFields DEF MayStart, Unknowable, Ended
<1>5. ASSUME row'[u].status = "ready" PROVE event'[u].state = "settled"
  <2>1. event[u].state = "settled"
      BY <1>2, <1>5 DEF Over
  <2>2. event'[u] = event[u]
      BY <1>2, <1>5, <2>1, EventChange DEF EventBecomes
  <2> QED BY <2>1, <2>2
<1>6. ASSUME NEW c \in Callers PROVE Quiet(c, u)'
  <2> SUFFICES ASSUME hand'[c] # Idle, hand'[c].upload = u
               PROVE  hand'[c].at = "bind" /\ ~hand'[c].open /\ row'[u].status = "ready"
      BY DEF Quiet, Of
  <2>1. HandBecomes(c, hand'[c]) /\ Quiet(c, u)
      BY HandStep DEF Over
  <2>2. CASE hand'[c] = hand[c]
      BY <1>2, <2>1, <2>2 DEF Quiet, Of
  <2>3. CASE HandStarts(c, hand'[c])
    <3>1. ASSUME NEW x \in Uploads, NEW pc \in {"start", "find"},
                 row[x].status \in {"absent", "created"}, hand'[c] = [at |-> pc, upload |-> x]
          PROVE  FALSE
      <4>1. x = u /\ row[u].status \notin {"absent", "created"}
          BY <1>1, <3>1 DEF Ended
      <4> QED BY <3>1, <4>1
    <3>2. ASSUME NEW x \in Uploads, NEW k \in Commands,
                 row[x].status \in {"created", "verifying", "ready"},
                 hand'[c] = [at |-> "bind", upload |-> x, command |-> k,
                             open |-> row[x].status = "created"]
          PROVE  hand'[c].at = "bind" /\ ~hand'[c].open /\ row'[u].status = "ready"
      <4>1. x = u /\ row[x].status # "created" /\ row'[u].status = "ready"
        <5>1. x = u
            BY <3>2
        <5> QED BY <1>1, <1>2, <3>2, <5>1 DEF Ended
      <4>2. hand'[c].at = "bind"
          BY <3>2
      <4>3. ~hand'[c].open
        <5>1. (row[x].status = "created") = FALSE
            BY <4>1
        <5>2. hand'[c] = [at |-> "bind", upload |-> x, command |-> k, open |-> FALSE]
            BY <3>2, <5>1, Zenon
        <5> QED BY <5>2
      <4> QED BY <4>1, <4>2, <4>3
    <3> QED BY <2>3, <3>1, <3>2, Zenon DEF HandStarts
  <2>4. CASE HandMoves(c, hand'[c])
    <3>1. hand'[c].upload = Of(c)
        BY <2>4, SameUpload
    <3>2. hand[c] # Idle
      <4>1. hand[c].at \in {"start", "begin", "find", "bind", "stat", "merge", "size"}
          BY <2>4, Zenon DEF HandMoves
      <4>2. Idle.at = "idle"
          BY DEF Idle
      <4> QED BY <4>1, <4>2
    <3>3. hand[c].at = "bind" /\ ~hand[c].open
        BY <2>1, <3>1, <3>2 DEF Quiet
    <3> QED BY <2>4, <3>3 DEF HandMoves
  <2> QED BY <2>1, <2>2, <2>3, <2>4 DEF HandBecomes
<1> QED BY <1>1, <1>2, <1>3, <1>4, <1>5, <1>6 DEF Over

(* When a session is over no multipart of it is still being created.       *)
LEMMA NothingUnderWay ==
    ASSUME NEW u \in Uploads, Over(u), Allocated(u), s3[u] \in Store, row[u] \in Row
    PROVE  s3[u].creating = 0
<1>1. CASE row[u].alloc = "pending"
    BY <1>1 DEF Allocated
<1>2. CASE row[u].alloc = "ready"
  <2>1. /\ s3[u].begun \in Nat /\ s3[u].creating \in Nat /\ row[u].mp \in Nat
        /\ row[u].mp # 0 /\ row[u].mp <= s3[u].begun /\ s3[u].begun + s3[u].creating <= 1
      BY <1>2 DEF Allocated, Store, Row
  <2> QED BY <2>1
<1> QED BY <1>1, <1>2 DEF Over

LEMMA EmptyStays ==
    ASSUME TypeOK, AllocInv, [Next]_vars, NEW u \in Uploads, Over(u)
    PROVE  /\ s3[u].object = "none" => s3'[u].object = "none"
           /\ s3[u].live = {} => s3'[u].live = {}
<1>1. s3[u].creating = 0
    BY NothingUnderWay DEF AllocInv, TypeOK
<1>2. ASSUME NEW c \in Callers PROVE ~(hand[c].at = "merge" /\ Of(c) = u)
    BY DEF Over, Quiet, Idle
<1>3. s3[u].object = "none" => s3'[u].object = "none"
    BY <1>2, StoreFields
<1>4. s3[u].live = {} => s3'[u].live = {}
    BY <1>1, StoreFields
<1> QED BY <1>3, <1>4

LEMMA KeepInvStep ==
    ASSUME TypeOK, AllocInv, KeepInv, [Next]_vars
    PROVE  KeepInv'
<1>1. ASSUME NEW u \in Uploads, Reclaimable(u) PROVE Over(u)
    BY <1>1 DEF Reclaimable, Eligible, GraceOver, Over, Ended, Quiet
<1>2. ASSUME NEW k \in Keepers PROVE Keeping(k)'
  <2> DEFINE u == keep[k].upload
  <2> SUFFICES ASSUME keep'[k].at \in {"ask", "abort", "done", "refused"}
               PROVE  \E x \in Uploads :
                         /\ keep'[k].upload = x /\ Over(x)'
                         /\ keep'[k].at \in {"abort", "done"} => s3'[x].object = "none"
                         /\ keep'[k].at = "done" => s3'[x].live = {}
      BY DEF Keeping, Over, Quiet, Of
  <2>1. KeepBecomes(k, keep'[k]) /\ keep[k] \in Keeper
      BY KeepStep DEF TypeOK
  <2>2. ASSUME keep[k].at \in {"ask", "abort", "done", "refused"}
        PROVE  /\ u \in Uploads /\ Over(u)
               /\ keep[k].at \in {"abort", "done"} => s3[u].object = "none"
               /\ keep[k].at = "done" => s3[u].live = {}
      BY <2>1, <2>2 DEF KeepInv, Keeping, Keeper
  <2>3. CASE keep'[k] = keep[k]
    <3>1. u \in Uploads /\ Over(u) /\ Over(u)'
        BY <2>2, <2>3, OverStays
    <3> QED BY <2>2, <2>3, <3>1, EmptyStays
  <2>4. CASE \E x \in Uploads : Reclaimable(x) /\ keep'[k] = [at |-> "ask", upload |-> x]
    <3>1. PICK x \in Uploads : Reclaimable(x) /\ keep'[k] = [at |-> "ask", upload |-> x]
        BY <2>4
    <3>2. Over(x)'
        BY <1>1, <3>1, OverStays
    <3> QED BY <3>1, <3>2
  <2>5. CASE /\ keep[k].at \in {"ask", "abort"}
             /\ keep'[k] = [at |-> "refused", upload |-> keep[k].upload]
    <3>1. u \in Uploads /\ Over(u) /\ Over(u)'
        BY <2>2, <2>5, OverStays
    <3> QED BY <2>5, <3>1
  <2>6. CASE /\ keep[k].at = "ask" /\ s3'[keep[k].upload].object = "none"
             /\ keep'[k] = [at |-> "abort", upload |-> keep[k].upload]
    <3>1. u \in Uploads /\ Over(u) /\ Over(u)'
        BY <2>2, <2>6, OverStays
    <3> QED BY <2>6, <3>1
  <2>7. CASE /\ keep[k].at = "abort" /\ s3'[keep[k].upload].live = {}
             /\ s3'[keep[k].upload].object = s3[keep[k].upload].object
             /\ keep'[k] = [at |-> "done", upload |-> keep[k].upload]
    <3>1. u \in Uploads /\ Over(u) /\ Over(u)' /\ s3[u].object = "none"
        BY <2>2, <2>7, OverStays
    <3> QED BY <2>7, <3>1
  <2>8. keep'[k] \notin [at : {"idle", "sweep"}]
      OBVIOUS
  <2> QED BY <2>1, <2>3, <2>4, <2>5, <2>6, <2>7, <2>8 DEF KeepBecomes
<1>3. ASSUME NEW u \in Uploads PROVE Reclaimed(u)'
  <2>1. ASSUME Over(u) PROVE Over(u)'
      BY <2>1, OverStays
  <2>2. ASSUME NEW k \in Keepers, keep[k].upload = u, keep[k].at \in {"done", "refused"}
        PROVE  /\ Over(u)
               /\ keep[k].at = "done" => s3[u].object = "none" /\ s3[u].live = {}
      BY <2>2 DEF KeepInv, Keeping
  <2>3. /\ row[u].claimant # NoKeeper \/ row[u].reclaimed => Over(u)
        /\ row[u].reclaimed => s3[u].object = "none" /\ s3[u].live = {}
      BY DEF KeepInv, Reclaimed
  <2>4. row'[u].claimant # NoKeeper \/ row'[u].reclaimed => Over(u)
      BY <1>1, <2>2, <2>3, ReclaimFields, Zenon
  <2>5. row'[u].reclaimed => s3[u].object = "none" /\ s3[u].live = {}
      BY <2>2, <2>3, ReclaimFields, Zenon
  <2> QED BY <2>1, <2>4, <2>5, EmptyStays DEF Reclaimed
<1> QED BY <1>2, <1>3 DEF KeepInv

(* An object goes away only when its delivery had no use for it, or when a *)
(* keeper may reclaim its session.                                         *)
LEMMA ObjectGoes ==
    ASSUME TypeOK, SentInv, KeepInv, StoreInv, [Next]_vars, NEW u \in Uploads,
           s3[u].object # "none", s3'[u].object = "none"
    PROVE  /\ row' = row /\ check' = check
           /\ row[u].status \in Ended
           /\ ~event'[u].ref /\ event'[u].state \notin {"pending", "rejected"}
<1>1. ASSUME NEW c \in Callers PROVE ~(hand[c].at = "merge" /\ Of(c) = u /\ s3[u].parts = "none")
    BY DEF StoreInv, Merging
<1>2. /\ row' = row /\ check' = check
      /\ \/ /\ event[u].state = "pending" /\ event'[u].state = "registered"
            /\ event'[u].ref = event[u].ref
         \/ /\ event' = event /\ ~event[u].ref
            /\ \E k \in Keepers : keep[k].at = "ask" /\ keep[k].upload = u
    BY <1>1, StoreFields
<1>3. Sent(u)
    BY DEF SentInv
<1>4. CASE /\ event[u].state = "pending"
           /\ event'[u].state = "registered" /\ event'[u].ref = event[u].ref
    BY <1>2, <1>3, <1>4 DEF Sent, Ended
<1>5. CASE /\ event' = event /\ ~event[u].ref
           /\ \E k \in Keepers : keep[k].at = "ask" /\ keep[k].upload = u
  <2>1. Over(u)
      BY <1>5 DEF KeepInv, Keeping
  <2>2. row[u].status \in Ended /\ (row[u].status = "ready" => event[u].state = "settled")
      BY <2>1 DEF Over
  <2>3. event[u].state \notin {"pending", "rejected"}
      BY <1>3, <2>2 DEF Sent
  <2> QED BY <1>2, <1>5, <2>2, <2>3
<1> QED BY <1>2, <1>4, <1>5

LEMMA StoreInvStep ==
    ASSUME TypeOK, SentInv, KeepInv, StoreInv, [Next]_vars
    PROVE  StoreInv'
<1>1. ASSUME NEW u \in Uploads, event'[u].ref \/ event'[u].state \in {"pending", "rejected"}
      PROVE  s3'[u].object # "none"
  <2>1. EventBecomes(u, event'[u]) /\ event[u] \in Event /\ Sent(u) /\ Stored(u)
      BY EventChange DEF TypeOK, SentInv, StoreInv
  <2>2. s3[u].object # "none"
    <3>1. CASE event'[u] = event[u]
        BY <1>1, <2>1, <3>1 DEF Stored
    <3>2. CASE row[u].status = "verifying" /\ \E v \in Verifiers :
                  check[v].verdict.is = "good" /\ check[v].verdict.claim.upload = u
        BY <2>1, <3>2 DEF Stored, Ended
    <3>3. CASE event[u].state \in {"pending", "rejected"}
        BY <2>1, <3>3 DEF Stored
    <3> QED BY <2>1, <3>1, <3>2, <3>3 DEF EventBecomes
  <2> QED BY <1>1, <2>2, ObjectGoes
<1>2. ASSUME NEW u \in Uploads, NEW v \in Verifiers, check'[v].verdict.is = "good",
             check'[v].verdict.claim.upload = u, row'[u].status \notin Ended
      PROVE  s3'[u].object # "none"
  <2>1. CheckBecomes(v, check'[v]) /\ check[v] \in Verifier
      BY CheckStep DEF TypeOK
  <2>2. row[u].status \notin Ended
      BY <1>2, StatusFields DEF Open, Ended
  <2>3. CASE check'[v].verdict = check[v].verdict
    <3>1. s3[u].object # "none"
        BY <1>2, <2>2, <2>3 DEF StoreInv, Stored
    <3> QED BY <2>2, <3>1, ObjectGoes
  <2>4. CASE \E q \in check[v].todo, is \in {"good", "bad"} :
                /\ s3[q.upload].object # "none" /\ s3' = s3
                /\ check'[v] = [check[v] EXCEPT !.todo = @ \ {q},
                                                !.verdict = [is |-> is, claim |-> q]]
    <3>1. PICK q \in check[v].todo, is \in {"good", "bad"} :
              /\ s3[q.upload].object # "none" /\ s3' = s3
              /\ check'[v] = [check[v] EXCEPT !.todo = @ \ {q},
                                              !.verdict = [is |-> is, claim |-> q]]
        BY <2>4
    <3>2. check'[v].verdict = [is |-> is, claim |-> q]
        BY <2>1, <3>1 DEF Verifier
    <3> QED BY <1>2, <3>1, <3>2
  <2>5. CASE check'[v].verdict = NoVerdict
      BY <1>2, <2>5 DEF NoVerdict
  <2>6. ASSUME NEW q, check'[v] = [check[v] EXCEPT !.todo = @ \ {q}]
        PROVE  check'[v].verdict = check[v].verdict
      BY <2>1, <2>6 DEF Verifier
  <2>7. ASSUME check'[v] = [check[v] EXCEPT !.verdict = NoVerdict]
        PROVE  check'[v].verdict = NoVerdict
      BY <2>1, <2>7 DEF Verifier
  <2>8. ASSUME NEW S, check'[v] = [busy |-> TRUE, verdict |-> NoVerdict, todo |-> S]
        PROVE  check'[v].verdict = NoVerdict
      BY <2>8
  <2>9. Resting.verdict = NoVerdict
      BY DEF Resting
  <2> QED BY <2>1, <2>3, <2>4, <2>5, <2>6, <2>7, <2>8, <2>9, Zenon DEF CheckBecomes
<1>3. ASSUME NEW c \in Callers PROVE Merging(c)'
  <2> SUFFICES ASSUME hand'[c].at = "merge" PROVE s3'[hand'[c].upload].parts # "none"
      BY DEF Merging, Of
  <2>1. hand[c] \in Caller
      BY DEF TypeOK
  <2>2. CASE hand'[c] = hand[c]
    <3>1. Of(c) \in Uploads /\ s3[Of(c)].parts # "none" /\ hand'[c].upload = Of(c)
        BY <2>1, <2>2 DEF StoreInv, Merging, Of, Caller, Idle
    <3> QED BY <3>1, StoreFields
  <2>3. CASE hand'[c] # hand[c]
    <3>1. HandMoves(c, hand'[c])
        BY <2>3, HandMoved DEF Recording
    <3>2. hand[c].at \in {"stat", "merge", "size"}
      <4>1. ASSUME NEW pc, hand'[c] = [at |-> pc, upload |-> Of(c)], pc \in {"begin", "lost"}
            PROVE  FALSE
          BY <4>1
      <4>2. ASSUME NEW id, hand'[c] = [at |-> "attach", upload |-> Of(c), mp |-> id]
            PROVE  FALSE
          BY <4>2
      <4>3. ASSUME hand'[c] = [at |-> "stat", upload |-> Of(c), command |-> hand[c].command]
            PROVE  FALSE
          BY <4>3
      <4> QED BY <3>1, <4>1, <4>2, <4>3, Zenon DEF HandMoves
    <3>3. PICK pc \in {"merge", "size", "void", "record"} :
              /\ pc = "merge" => s3[Of(c)].parts \in {"good", "bad"} /\ s3' = s3
              /\ hand'[c] = [at |-> pc, upload |-> Of(c), command |-> hand[c].command]
        BY <3>1, <3>2 DEF HandMoves
    <3>4. pc = "merge" /\ hand'[c].upload = Of(c)
        BY <3>3
    <3> QED BY <3>3, <3>4
  <2> QED BY <2>2, <2>3
<1>4. ASSUME NEW u \in Uploads PROVE Stored(u)'
    BY <1>1, <1>2 DEF Stored
<1> QED BY <1>3, <1>4 DEF StoreInv

-----------------------------------------------------------------------------

LEMMA InitInv == ASSUME Init PROVE IInv
<1>1. TypeOK
  <2>1. row \in [Uploads -> Row]
      BY DEF Init, Row
  <2>2. s3 \in [Uploads -> Store]
      BY DEF Init, Store, Content
  <2>3. event \in [Uploads -> Event] /\ hand \in [Callers -> Caller]
      BY DEF Init, Event, Caller
  <2>4. check \in [Verifiers -> Verifier]
    <3>1. Resting \in Verifier
      <4>1. ASSUME NEW V, NoVerdict \in V
            PROVE  [busy |-> FALSE, todo |-> {}, verdict |-> NoVerdict]
                       \in [busy : BOOLEAN, todo : SUBSET Claim, verdict : V]
          BY <4>1
      <4>2. NoVerdict \in {NoVerdict} \cup [is : {"good", "bad"}, claim : Claim]
          OBVIOUS
      <4> QED BY <4>1, <4>2, Zenon DEF Resting, Verifier
    <3> QED BY <3>1, Zenon DEF Init
  <2>5. keep \in [Keepers -> Keeper]
      BY DEF Init, Keeper
  <2>6. faults \in 0 .. MaxFaults
      BY DEF Init
  <2> QED BY <2>1, <2>2, <2>3, <2>4, <2>5, <2>6 DEF TypeOK
<1>2. AllocInv
    BY DEF Init, AllocInv, Allocated, Attaching, Idle
<1>3. BoundInv
    BY DEF Init, BoundInv, Bound, Binding, Recording, Idle
<1>4. SentInv
    BY DEF Init, SentInv, Sent
<1>5. KeepInv
    BY DEF Init, KeepInv, Keeping, Reclaimed
<1>6. StoreInv
    BY DEF Init, StoreInv, Stored, Merging, Resting, NoVerdict, Idle
<1> QED BY <1>1, <1>2, <1>3, <1>4, <1>5, <1>6 DEF IInv

LEMMA StepInv == ASSUME IInv, [Next]_vars PROVE IInv'
BY TypeStep, AllocStep, BoundStep, SentStep, KeepInvStep, StoreInvStep DEF IInv

LEMMA Invariant == Spec => []IInv
<1>1. Init => IInv
    BY InitInv
<1>2. IInv /\ [Next]_vars => IInv'
    BY StepInv
<1> QED BY <1>1, <1>2, PTL DEF Spec

-----------------------------------------------------------------------------

(* Every variable keeps its type.                                          *)
THEOREM UploadTypes == Spec => []TypeOK
<1>1. IInv => TypeOK
    BY DEF IInv
<1> QED BY <1>1, Invariant, PTL

(* startAllocation() has at most one multipart begun for an upload, for    *)
(* any number of repeated creates and lost answers.                        *)
THEOREM OneMultipartEver == Spec => []OneMultipart
<1>1. IInv => OneMultipart
    BY DEF IInv, AllocInv, Allocated, OneMultipart
<1> QED BY <1>1, Invariant, PTL

(* BindUploadFinalize() decides, before anything is merged, with which     *)
(* command an upload is verified and submitted.                            *)
THEOREM BoundCommandIsRun == Spec => []BoundCommandRuns
<1>1. IInv => BoundCommandRuns
    BY DEF IInv, BoundInv, Bound, BoundCommandRuns
<1> QED BY <1>1, Invariant, PTL

(* MarkUploadVerified() writes the one event of an upload, with any number *)
(* of verifiers digesting its object.                                      *)
THEOREM SubmittedExactlyOnce == Spec => []SubmittedOnce
<1>1. IInv => SubmittedOnce
    BY DEF IInv, SentInv, Sent, SubmittedOnce
<1> QED BY <1>1, Invariant, PTL

(* FinishReclaim() records a reclamation only of a session whose object    *)
(* and multiparts are gone and cannot come back.                           *)
THEOREM ReclaimedIsEmpty == Spec => []ReclaimedLeavesNothing
<1>1. ASSUME IInv, NEW u \in Uploads, row[u].reclaimed
      PROVE  s3[u].object = "none" /\ s3[u].live = {} /\ s3[u].creating = 0
  <2>1. Over(u) /\ s3[u].object = "none" /\ s3[u].live = {}
      BY <1>1 DEF IInv, KeepInv, Reclaimed
  <2>2. Allocated(u) /\ s3[u] \in Store /\ row[u] \in Row
      BY <1>1 DEF IInv, AllocInv, TypeOK
  <2> QED BY <2>1, <2>2, NothingUnderWay
<1>2. IInv => ReclaimedLeavesNothing
    BY <1>1 DEF ReclaimedLeavesNothing
<1> QED BY <1>2, Invariant, PTL

(* Neither a delivery nor a reclamation takes the object of a document     *)
(* away, whatever the order of deliveries, rejections and cleanups.        *)
THEOREM ReferencedBytesStay == Spec => []ReferencedIsKept
<1>1. IInv => ReferencedIsKept
    BY DEF IInv, StoreInv, Stored, ReferencedIsKept
<1> QED BY <1>1, Invariant, PTL

(* An attached multipart stays the one of its upload.                      *)
THEOREM ReceiptIsFinal == Spec => ReceiptStays
<1>1. ASSUME IInv, [Next]_vars, NEW u \in Uploads, row[u].alloc = "ready"
      PROVE  row'[u].alloc = "ready" /\ row'[u].mp = row[u].mp
  <2>1. TypeOK /\ row[u].mp # 0
      BY <1>1 DEF IInv, AllocInv, Allocated
  <2> QED BY <1>1, <2>1, AllocFields DEF MayStart, Unknowable
<1>2. IInv /\ [Next]_vars =>
          [\A u \in Uploads : row[u].alloc = "ready" =>
              row'[u].alloc = "ready" /\ row'[u].mp = row[u].mp]_vars
    BY <1>1
<1> QED BY <1>2, Invariant, PTL DEF Spec, ReceiptStays

(* No transition leaves ready, failed or expired, and none touches the row *)
(* of a reclaimed session.                                                 *)
THEOREM EndedIsFinal == Spec => EndedStaysEnded
<1>1. ASSUME IInv, [Next]_vars, NEW u \in Uploads
      PROVE  /\ row[u].status \in Ended => row'[u].status = row[u].status
             /\ row[u].reclaimed => row'[u] = row[u]
  <2>1. TypeOK
      BY <1>1 DEF IInv
  <2>2. row[u].status \in Ended => row'[u].status = row[u].status
      BY <1>1, <2>1, StatusFields DEF Open, Ended
  <2>3. ASSUME row[u].reclaimed PROVE row'[u] = row[u]
    <3>1. Over(u)
        BY <1>1, <2>3 DEF IInv, KeepInv, Reclaimed
    <3>2. row[u].status \in Ended /\ row[u].overdue
        BY <3>1 DEF Over
    <3>3. ASSUME NEW c \in Callers, RowByCaller(u, c, row'[u]) PROVE row'[u] = row[u]
      <4>1. hand[c].at = "bind" /\ row[u].status = "ready"
          BY <3>1, <3>3 DEF Over, Quiet, RowByCaller
      <4>2. /\ Bindable(u, hand[c].command)
            /\ row'[u] = [row[u] EXCEPT !.command = hand[c].command]
          BY <3>3, <4>1 DEF RowByCaller
      <4>3. row[u].command # NoCommand
          BY <1>1, <4>1 DEF IInv, BoundInv, Bound
      <4>4. row[u].command = hand[c].command /\ row[u] \in Row
          BY <2>1, <4>2, <4>3 DEF Bindable, TypeOK
      <4> QED BY <4>2, <4>4 DEF Row
    <3>4. ASSUME NEW k \in Keepers PROVE ~RowByKeeper(u, k, row'[u])
        BY <2>3 DEF RowByKeeper, Reclaimable
    <3> QED BY <1>1, <2>1, <2>3, <3>2, <3>3, <3>4, RowStep
            DEF RowBecomes, Open, Ended, Fenced, Verifiable
  <2> QED BY <2>2, <2>3
<1>2. IInv /\ [Next]_vars =>
          [\A u \in Uploads :
              /\ row[u].status \in Ended => row'[u].status = row[u].status
              /\ row[u].reclaimed => row'[u] = row[u]]_vars
    BY <1>1
<1> QED BY <1>2, Invariant, PTL DEF Spec, EndedStaysEnded

-----------------------------------------------------------------------------
(* UploadSessions implements EventOutbox: the session that becomes ready   *)
(* submits, and the corpus at the other end takes the event or refuses it. *)

Taken(e) == IF e.state = "registered" \/ e.ref THEN 1 ELSE 0

(* The kinds of status, without the order of the CASE.                     *)
LEMMA StatusIs ==
    ASSUME NEW e \in Event
    PROVE  /\ e.state = "none" => EventStatus(e) = "none"
           /\ e.state = "pending" => EventStatus(e) = "open"
           /\ e.state = "registered" => EventStatus(e) = "delivered"
           /\ e.state \in {"rejected", "settled"} => EventStatus(e) = "dead"
BY DEF EventStatus

(* What becomes of the event is one of the four steps of the outbox, or    *)
(* nothing that the outbox can see.                                        *)
LEMMA EventMoves ==
    ASSUME TypeOK, SentInv, NEW u \in Uploads, NEW n, EventBecomes(u, n)
    PROVE  LET old == EventStatus(event[u])
               new == EventStatus(n) IN
           \/ new = old /\ Taken(n) = Taken(event[u])
           \/ old = "none" /\ new = "open" /\ Taken(n) = Taken(event[u])
           \/ /\ old # "none" /\ Taken(event[u]) = 0 /\ Taken(n) = 1
              /\ new = old \/ new = "delivered"
           \/ old = "open" /\ new = "dead" /\ Taken(n) = Taken(event[u])
<1>1. event[u] \in Event /\ Sent(u) BY DEF TypeOK, SentInv
<1>2. CASE n = event[u] BY <1>2
<1>3. CASE /\ row[u].status = "verifying"
           /\ n = [event[u] EXCEPT !.sent = event[u].sent + 1, !.state = "pending"]
  <2>1. event[u].state = "none" /\ ~event[u].ref BY <1>1, <1>3 DEF Sent
  <2>2. n \in Event /\ n.state = "pending" /\ n.ref = event[u].ref
    <3> DEFINE m == event[u].sent + 1
    <3>1. m \in Nat BY <1>1 DEF Event
    <3>2. n = [event[u] EXCEPT !.sent = m, !.state = "pending"] BY <1>3
    <3> HIDE DEF m
    <3> QED BY <1>1, <3>1, <3>2 DEF Event
  <2>3. EventStatus(event[u]) = "none" /\ EventStatus(n) = "open" BY <1>1, <2>1, <2>2, StatusIs
  <2>4. Taken(n) = Taken(event[u]) BY <2>1, <2>2 DEF Taken
  <2> QED BY <2>3, <2>4
<1>4. CASE /\ event[u].state = "pending"
           /\ \/ n = [event[u] EXCEPT !.state = "registered", !.ref = TRUE]
              \/ n = [event[u] EXCEPT !.state = "registered"]
  <2>1. ~event[u].ref BY <1>1, <1>4 DEF Sent
  <2>2. n \in Event /\ n.state = "registered" BY <1>1, <1>4 DEF Event
  <2>3. EventStatus(event[u]) = "open" /\ EventStatus(n) = "delivered"
      BY <1>1, <1>4, <2>2, StatusIs
  <2>4. Taken(event[u]) = 0 /\ Taken(n) = 1 BY <1>4, <2>1, <2>2 DEF Taken
  <2> QED BY <2>3, <2>4
<1>5. CASE /\ event[u].state = "pending"
           /\ n = [event[u] EXCEPT !.state = "rejected"]
  <2>1. n \in Event /\ n.state = "rejected" /\ n.ref = event[u].ref BY <1>1, <1>5 DEF Event
  <2>2. EventStatus(event[u]) = "open" /\ EventStatus(n) = "dead" BY <1>1, <1>5, <2>1, StatusIs
  <2>3. Taken(n) = Taken(event[u]) BY <1>5, <2>1 DEF Taken
  <2> QED BY <2>2, <2>3
<1>6. CASE event[u].state = "rejected" /\ n = [event[u] EXCEPT !.ref = TRUE]
  <2>1. n \in Event /\ n.state = "rejected" /\ n.ref BY <1>1, <1>6 DEF Event
  <2>2. EventStatus(event[u]) = "dead" /\ EventStatus(n) = "dead" BY <1>1, <1>6, <2>1, StatusIs
  <2>3. Taken(n) = 1 /\ Taken(event[u]) \in {0, 1} BY <2>1 DEF Taken
  <2> QED BY <2>2, <2>3
<1>7. CASE event[u].state = "rejected" /\ n = [event[u] EXCEPT !.state = "settled"]
  <2>1. n \in Event /\ n.state = "settled" /\ n.ref = event[u].ref BY <1>1, <1>7 DEF Event
  <2>2. EventStatus(event[u]) = "dead" /\ EventStatus(n) = "dead" BY <1>1, <1>7, <2>1, StatusIs
  <2>3. Taken(n) = Taken(event[u]) BY <1>7, <2>1 DEF Taken
  <2> QED BY <2>2, <2>3
<1> QED BY <1>2, <1>3, <1>4, <1>5, <1>6, <1>7 DEF EventBecomes

LEMMA EventInitRefines == Init => Outbox!Init
<1> SUFFICES ASSUME Init PROVE Outbox!Init OBVIOUS
<1>1. \A u \in Uploads : event[u] \in Event /\ event[u].state = "none" /\ ~event[u].ref
    BY DEF Init, Event
<1>2. \A u \in Uploads : EventStatus(event[u]) = "none" BY <1>1, StatusIs
<1> QED BY <1>1, <1>2 DEF Outbox!Init

LEMMA EventStepRefines == IInv /\ [Next]_vars => [Outbox!Next]_(Outbox!outboxVars)
<1> SUFFICES ASSUME IInv, [Next]_vars PROVE [Outbox!Next]_(Outbox!outboxVars)
    OBVIOUS
<1> DEFINE status  == [u \in Uploads |-> EventStatus(event[u])]
           effects == [u \in Uploads |-> Taken(event[u])]
<1>0. effects = [u \in Uploads |-> IF event[u].state = "registered" \/ event[u].ref
                                   THEN 1 ELSE 0]
    BY DEF Taken
<1>00. effects' = [u \in Uploads |-> IF event'[u].state = "registered" \/ event'[u].ref
                                     THEN 1 ELSE 0]
    BY DEF Taken
<1>1. CASE event' = event BY <1>1 DEF Outbox!outboxVars
<1>2. ASSUME NEW u \in Uploads, NEW n, event' = [event EXCEPT ![u] = n], EventBecomes(u, n)
      PROVE  [Outbox!Next]_(Outbox!outboxVars)
  <2>1. event \in [Uploads -> Event] BY DEF IInv, TypeOK
  <2>2. event'[u] = n /\ \A x \in Uploads \ {u} : event'[x] = event[x] BY <1>2, <2>1
  <2>3. status' = [status EXCEPT ![u] = EventStatus(n)] BY <2>2, Zenon
  <2>4. effects' = [effects EXCEPT ![u] = Taken(n)] BY <2>2, Zenon
  <2>5. status[u] = EventStatus(event[u]) /\ effects[u] = Taken(event[u]) BY Zenon
  <2>6. /\ status = [status EXCEPT ![u] = EventStatus(event[u])]
        /\ effects = [effects EXCEPT ![u] = Taken(event[u])]
      BY Zenon
  <2> HIDE DEF status, effects
  <2>7. CASE EventStatus(n) = EventStatus(event[u]) /\ Taken(n) = Taken(event[u])
    <3>1. status' = status /\ effects' = effects BY <2>3, <2>4, <2>6, <2>7
    <3> QED BY <1>0, <1>00, <3>1 DEF Outbox!outboxVars, status
  <2>8. CASE /\ EventStatus(event[u]) = "none" /\ EventStatus(n) = "open"
             /\ Taken(n) = Taken(event[u])
    <3>1. /\ effects' = effects /\ status[u] = "none"
          /\ status' = [status EXCEPT ![u] = "open"]
        BY <2>3, <2>4, <2>5, <2>6, <2>8
    <3>2. Outbox!Submit(u) BY <1>0, <1>00, <3>1 DEF Outbox!Submit, status
    <3> QED BY <3>2 DEF Outbox!Next
  <2>9. CASE /\ EventStatus(event[u]) # "none" /\ Taken(event[u]) = 0 /\ Taken(n) = 1
             /\ EventStatus(n) = EventStatus(event[u]) \/ EventStatus(n) = "delivered"
    <3>1. /\ status[u] # "none" /\ effects[u] = 0 /\ effects' = [effects EXCEPT ![u] = 1]
          /\ status' \in {status, [status EXCEPT ![u] = "delivered"]}
        BY <2>3, <2>4, <2>5, <2>6, <2>9
    <3>2. Outbox!TakeEffect(u) BY <1>0, <1>00, <3>1 DEF Outbox!TakeEffect, status
    <3> QED BY <3>2 DEF Outbox!Next
  <2>10. CASE /\ EventStatus(event[u]) = "open" /\ EventStatus(n) = "dead"
              /\ Taken(n) = Taken(event[u])
    <3>1. /\ effects' = effects /\ status[u] = "open"
          /\ status' = [status EXCEPT ![u] = "dead"]
        BY <2>3, <2>4, <2>5, <2>6, <2>10
    <3>2. Outbox!GiveUp(u) BY <1>0, <1>00, <3>1 DEF Outbox!GiveUp, status
    <3> QED BY <3>2 DEF Outbox!Next
  <2>11. TypeOK /\ SentInv BY DEF IInv
  <2> QED BY <1>2, <2>7, <2>8, <2>9, <2>10, <2>11, EventMoves
<1>3. EventWritten BY OneIsWritten DEF IInv
<1> QED BY <1>1, <1>2, <1>3 DEF EventWritten

(* With any number of verifiers digesting the same object, and a refusal   *)
(* overtaken by a delivery, the event of an upload is submitted once and   *)
(* registers at most one document (MarkUploadVerified()).                  *)
THEOREM SessionsImplementOutbox == Spec => EventsKeepOutbox
BY Invariant, EventInitRefines, EventStepRefines, PTL DEF Spec, EventsKeepOutbox, Outbox!Spec
=============================================================================
