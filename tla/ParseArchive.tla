---------------------------- MODULE ParseArchive ----------------------------
(***************************************************************************)
(* The life of a parse job: submission to the model gateway (ingest.py,    *)
(* routers/documents.py), the completion callback (routers/internal.py),   *)
(* status polls by users, reconciliation (reconcile.py) and the archive of *)
(* the result (archive.py), which schedules the index of IndexFence.       *)
(*                                                                         *)
(* A session is a request, or a reconciliation pass busy with one job.  It *)
(* reads the row and asks the gateway, and writes what follows from that   *)
(* in a later step: the row objects are not read again in between, and     *)
(* only the archive claim is a conditional UPDATE.  A write of the value   *)
(* the session read is no write (SQLAlchemy emits none).                   *)
(***************************************************************************)
EXTENDS IndexFence, Sequences

CONSTANTS
    Requests,      \* HTTP requests in flight
    Reconcilers,   \* reconciliation passes
    MaxRetries     \* bound on the resubmissions of failed jobs

ASSUME ParseArchiveAssumption == MaxRetries \in Nat

VARIABLES
    job,       \* the parse_jobs rows; task is the gateway task recorded, 0 for none
    gateway,   \* per job: what the gateway says of each of its tasks
    sess,      \* per session: what it is about to do
    bills,     \* per job: usage events of kind parse
    retries    \* resubmissions so far

pvars == <<job, gateway, sess, bills, retries>>
vars  == <<ivars, pvars>>

Sessions == Requests \cup Reconcilers
Active   == {"pending", "running", "archiving"}

JobRow  == [status : Active \cup {"absent", "succeeded", "failed"}, task : Nat,
            fresh : BOOLEAN,   \* updated_at lies within STALE_ARCHIVING_SECONDS
            old : BOOLEAN]     \* created_at lies more than result_ttl back
TaskState == {"running", "succeeded", "failed", "gone"}

Idle    == [at |-> "idle"]
Session == {Idle} \cup
    [at : {"retry", "submit", "post", "expire", "fail", "run", "archive", "fetch"}, job : Jobs]
        \cup [at : {"record"}, job : Jobs, task : Nat]

Init ==
    /\ IndexInit
    /\ job = [j \in Jobs |-> [status |-> "absent", task |-> 0, fresh |-> TRUE, old |-> FALSE]]
    /\ gateway = [j \in Jobs |-> <<>>]
    /\ sess = [s \in Sessions |-> Idle]
    /\ bills = [j \in Jobs |-> 0]
    /\ retries = 0

Goto(s, pc, j) == sess' = [sess EXCEPT ![s] = [at |-> pc, job |-> j]]

End(s) == sess' = [sess EXCEPT ![s] = Idle]

-----------------------------------------------------------------------------
(* Submission.                                                             *)

(* A new upload: its resource, its job, and the document back to life.     *)
NewJob(s, j) ==
    /\ sess[s] = Idle
    /\ job[j].status = "absent"
    /\ job' = [job EXCEPT ![j].status = "pending"]
    /\ arrived' = arrived \cup {j}
    /\ live' = live \cup {j}
    /\ deleted' = FALSE
    /\ Goto(s, "submit", j)
    /\ UNCHANGED <<index, chunks, build, collector, rebuilds, faults,
                   gateway, bills, retries>>

(* A request that finds the job failed, and makes it pending again.        *)
RetryRead(s, j) ==
    /\ sess[s] = Idle
    /\ job[j].status = "failed"
    /\ j \in live
    /\ retries < MaxRetries
    /\ retries' = retries + 1
    /\ Goto(s, "retry", j)
    /\ UNCHANGED <<ivars, job, gateway, bills>>

RetryCommit(s) ==
    /\ sess[s].at = "retry"
    /\ job' = [job EXCEPT ![sess[s].job].status = "pending"]
    /\ Goto(s, "submit", sess[s].job)
    /\ UNCHANGED <<ivars, gateway, bills, retries>>

(* submit_parse() has got the file URL and commits a new created_at.       *)
Stamped(row) == [row EXCEPT !.old = FALSE]

Stamp(s) ==
    /\ sess[s].at = "submit"
    /\ job' = [job EXCEPT ![sess[s].job] = Stamped(@)]
    /\ Goto(s, "post", sess[s].job)
    /\ UNCHANGED <<ivars, gateway, bills, retries>>

(* The gateway answers for a document it has a task for with that task,    *)
(* unless the task failed or is gone.                                      *)
Reusable(tasks) == tasks # <<>> /\ tasks[Len(tasks)] \in {"running", "succeeded"}

PostAccepted(s) ==
    /\ sess[s].at = "post"
    /\ LET j == sess[s].job IN
          /\ gateway' = [gateway EXCEPT ![j] = IF Reusable(@) THEN @ ELSE Append(@, "running")]
          /\ sess' = [sess EXCEPT ![s] =
                         [at |-> "record", job |-> j, task |-> Len(gateway'[j])]]
    /\ UNCHANGED <<ivars, job, bills, retries>>

PostRejected(s) ==
    /\ sess[s].at = "post"
    /\ Fault
    /\ job' = [job EXCEPT ![sess[s].job].status = "failed"]
    /\ End(s)
    /\ UNCHANGED <<deleted, live, index, chunks, build, arrived, collector, rebuilds,
                   gateway, bills, retries>>

(* status = 'pending' is what the session read, so the row keeps whatever  *)
(* was written meanwhile.                                                  *)
Record(s) ==
    /\ sess[s].at = "record"
    /\ job' = [job EXCEPT ![sess[s].job].task = sess[s].task]
    /\ End(s)
    /\ UNCHANGED <<ivars, gateway, bills, retries>>

-----------------------------------------------------------------------------
(* Reading the row and asking the gateway.                                 *)

Asked(j) == job[j].task > 0
Answer(j) == IF Asked(j) THEN gateway[j][job[j].task] ELSE "unknown"

Expired_Never(j) == FALSE

Expired(j) == job[j].old

Reconcile(s, j) ==
    /\ sess[s] = Idle
    /\ job[j].status \in Active
    /\ \/ Expired(j) /\ Goto(s, "expire", j)
       \/ /\ ~Expired(j)
          /\ Asked(j)
          /\ \/ Answer(j) = "failed" /\ Goto(s, "fail", j)
             \/ Answer(j) = "succeeded" /\ Goto(s, "archive", j)
             \/ Answer(j) = "running" /\ job[j].status = "pending" /\ Goto(s, "run", j)
    /\ UNCHANGED <<ivars, job, gateway, bills, retries>>

(* GET /documents/{id} of a user.                                          *)
Poll(s, j) ==
    /\ sess[s] = Idle
    /\ job[j].status \in Active
    /\ Asked(j)
    /\ \/ Answer(j) = "failed" /\ Goto(s, "fail", j)
       \/ Answer(j) = "running" /\ job[j].status = "pending" /\ Goto(s, "run", j)
    /\ UNCHANGED <<ivars, job, gateway, bills, retries>>

(* The gateway calls back at any time after the end, or never, or twice.   *)
Callback(s, j) ==
    /\ sess[s] = Idle
    /\ Asked(j)
    /\ \/ Answer(j) = "failed" /\ job[j].status # "failed" /\ Goto(s, "fail", j)
       \/ Answer(j) = "succeeded" /\ Goto(s, "archive", j)
    /\ UNCHANGED <<ivars, job, gateway, bills, retries>>

-----------------------------------------------------------------------------
(* Writing what follows.                                                   *)

FailJob(s) ==
    /\ sess[s].at \in {"expire", "fail"}
    /\ job' = [job EXCEPT ![sess[s].job].status = "failed"]
    /\ End(s)
    /\ UNCHANGED <<ivars, gateway, bills, retries>>

WriteRunning(s) ==
    /\ sess[s].at = "run"
    /\ job' = [job EXCEPT ![sess[s].job].status = "running"]
    /\ End(s)
    /\ UNCHANGED <<ivars, gateway, bills, retries>>

ClaimableJob_NoTakeover(j) == job[j].status \in {"pending", "running"}

ClaimableJob(j) ==
    \/ job[j].status \in {"pending", "running"}
    \/ job[j].status = "archiving" /\ ~job[j].fresh

ClaimArchive(s) ==
    /\ sess[s].at = "archive"
    /\ LET j == sess[s].job IN
       IF ClaimableJob(j)
       THEN /\ job' = [job EXCEPT ![j].status = "archiving", ![j].fresh = TRUE]
            /\ Goto(s, "fetch", j)
       ELSE UNCHANGED job /\ End(s)
    /\ UNCHANGED <<ivars, gateway, bills, retries>>

(* The result is stored and everything written in one transaction, the     *)
(* document read again under its lock.                                     *)
Schedule_Never(j) == UNCHANGED index

Schedule(j) == IF deleted THEN UNCHANGED index ELSE MarkIndexPending(j)

Billed(j) == [bills EXCEPT ![j] = @ + 1]

FinishArchive(s) ==
    /\ sess[s].at = "fetch"
    /\ LET j == sess[s].job IN
          /\ Answer(j) = "succeeded"
          /\ job' = [job EXCEPT ![j].status = "succeeded"]
          /\ bills' = Billed(j)
          /\ Schedule(j)
    /\ End(s)
    /\ UNCHANGED <<deleted, live, chunks, build, arrived, collector, rebuilds, faults,
                   gateway, retries>>

(* No result, or an error on the way to it: back to running.               *)
ReleaseJob(s) ==
    /\ sess[s].at = "fetch"
    /\ IF Answer(sess[s].job) = "succeeded" THEN Fault ELSE UNCHANGED faults
    /\ job' = [job EXCEPT ![sess[s].job].status = "running"]
    /\ End(s)
    /\ UNCHANGED <<deleted, live, index, chunks, build, arrived, collector, rebuilds,
                   gateway, bills, retries>>

SessionEnds(s) ==
    /\ sess[s] # Idle
    /\ Fault
    /\ End(s)
    /\ UNCHANGED <<deleted, live, index, chunks, build, arrived, collector, rebuilds,
                   job, gateway, bills, retries>>

-----------------------------------------------------------------------------
(* The gateway and time.                                                   *)

GatewayEnds(j) ==
    \E i \in DOMAIN gateway[j], outcome \in {"succeeded", "failed"} :
        /\ gateway[j][i] = "running"
        /\ gateway' = [gateway EXCEPT ![j][i] = outcome]
        /\ UNCHANGED <<ivars, job, sess, bills, retries>>

GatewayForgets(j) ==
    \E i \in DOMAIN gateway[j] :
        /\ gateway[j][i] # "gone"
        /\ gateway' = [gateway EXCEPT ![j][i] = "gone"]
        /\ UNCHANGED <<ivars, job, sess, bills, retries>>

(* No session lasts a day.                                                 *)
DayPasses(j) ==
    /\ job[j].status # "absent"
    /\ ~job[j].old
    /\ \A s \in Sessions : sess[s] # Idle => sess[s].job # j
    /\ job' = [job EXCEPT ![j].old = TRUE]
    /\ UNCHANGED <<ivars, gateway, sess, bills, retries>>

ArchivingGoesStale(j) ==
    /\ job[j].status = "archiving"
    /\ job[j].fresh
    /\ IF \E s \in Sessions : sess[s] = [at |-> "fetch", job |-> j]
       THEN Fault                 \* the download takes longer than the limit
       ELSE UNCHANGED faults
    /\ job' = [job EXCEPT ![j].fresh = FALSE]
    /\ UNCHANGED <<deleted, live, index, chunks, build, arrived, collector, rebuilds,
                   gateway, sess, bills, retries>>

-----------------------------------------------------------------------------

Progress(s) ==
    \/ RetryCommit(s) \/ Stamp(s) \/ PostAccepted(s) \/ Record(s)
    \/ FailJob(s) \/ WriteRunning(s) \/ ClaimArchive(s) \/ FinishArchive(s) \/ ReleaseJob(s)

Next ==
    \/ \E s \in Requests, j \in Jobs :
          NewJob(s, j) \/ RetryRead(s, j) \/ Poll(s, j) \/ Callback(s, j)
    \/ \E s \in Reconcilers, j \in Jobs : Reconcile(s, j)
    \/ \E s \in Sessions : Progress(s) \/ PostRejected(s) \/ SessionEnds(s)
    \/ \E j \in Jobs : \/ GatewayEnds(j) \/ GatewayForgets(j)
                       \/ DayPasses(j) \/ ArchivingGoesStale(j)
    \/ IndexStep /\ UNCHANGED pvars

Spec == Init /\ [][Next]_vars

(* The reconciliation loop ticks, sessions come to an end, and the         *)
(* archiving claim of a session that is gone becomes stale.                *)
Fairness ==
    /\ \A j \in Jobs :
          /\ WF_vars(\E s \in Reconcilers : Reconcile(s, j))
          /\ WF_vars(ArchivingGoesStale(j) /\ faults' = faults)
    /\ \A s \in Sessions : WF_vars(Progress(s))

FairSpec == Spec /\ Fairness

(* What a pass could archive without any callback.                         *)
Recoverable(j) == job[j].status \in Active /\ Asked(j) /\ Answer(j) = "succeeded"

(* ... and days end; but not to the rescue of a job that can be archived.  *)
TimedSpec == FairSpec /\ \A j \in Jobs : WF_vars(DayPasses(j) /\ ~Recoverable(j))

-----------------------------------------------------------------------------
(* The types of the rows and the sessions.                                 *)
TypeOK ==
    /\ IndexTypeOK
    /\ job \in [Jobs -> JobRow]
    /\ gateway \in [Jobs -> Seq(TaskState)]
    /\ sess \in [Sessions -> Session]
    /\ bills \in [Jobs -> Nat]
    /\ retries \in Nat
    /\ \A j \in Jobs : job[j].task <= Len(gateway[j])

(* Archiving is one transaction: a job that reads succeeded has its usage  *)
(* recorded, and unless it has been deleted its index was scheduled.       *)
ArchivedIsAccounted ==
    \A j \in Jobs : job[j].status = "succeeded" =>
        bills[j] > 0 /\ (j \in live => index[j].status # "none")

(* Whatever is lost, late or killed, every job ends up succeeded or failed *)
(* for good: nothing hangs in archiving, and the stale writes of polls and *)
(* passes die out.                                                         *)
EveryJobEnds ==
    \A j \in Jobs : <>[](job[j].status \notin Active)

(* A parse that the gateway has finished while the job waits for it is     *)
(* archived without any callback, unless the job was failed meanwhile or   *)
(* the result is gone.                                                     *)
LostCallbackIsRecovered ==
    \A j \in Jobs :
        Recoverable(j) ~> (job[j].status \in {"succeeded", "failed"} \/ Answer(j) = "gone")

(* archive.py:5 and test_archive_is_idempotent say that a callback and a   *)
(* reconciliation pass for one job never both do the work or record usage. *)
BilledOnce == \A j \in Jobs : bills[j] <= 1

=============================================================================
