----------------------------- MODULE MCLeases -----------------------------
(***************************************************************************)
(* Three systems that give out leases, side by side: the task queue with   *)
(* two workers, one upload session, and the parses of a local workspace    *)
(* (which this module extends).  They share nothing; a behaviour moves the *)
(* one in "focus" and leaves the others as they were at the start.         *)
(***************************************************************************)
EXTENDS LocalParse

CONSTANTS t1, k1, w1, w2, NoKey, u1, a, c1, v1, g1, NoCommand, NoKeeper, p1, p2

TwoLoops == {p1, p2}

VARIABLES
    rows, runs, mainLoop, swept, restarts,
    row, s3, event, hand, check, keep, faults,
    focus

Queue == INSTANCE CorpusWorker WITH
    Tasks <- {t1}, Keys <- {k1}, Workers <- {w1, w2},
    MaxAttempts <- 2, Concurrency <- 1, MaxRestarts <- 2, loop <- mainLoop

Sessions == INSTANCE UploadSessions WITH
    Uploads <- {u1}, Commands <- {a}, Callers <- {c1}, Verifiers <- {v1}, Keepers <- {g1},
    BatchLimit <- 1, MaxVerifyAttempts <- 1, MaxFaults <- 2

queueVars   == <<rows, runs, mainLoop, swept, restarts>>
sessionVars == <<row, s3, event, hand, check, keep, faults>>
leaseVars   == <<queueVars, sessionVars, parseVars, focus>>

LeasesInit ==
    /\ Queue!QueueInit /\ Sessions!Init /\ LocalParseInit
    /\ focus \in {"queue", "sessions", "parses"}

LeasesNext ==
    /\ UNCHANGED focus
    /\ \/ focus = "queue"    /\ Queue!QueueNext      /\ UNCHANGED <<sessionVars, parseVars>>
       \/ focus = "sessions" /\ Sessions!Next   /\ UNCHANGED <<queueVars, parseVars>>
       \/ focus = "parses"   /\ LocalParseNext  /\ UNCHANGED <<queueVars, sessionVars>>

(* Each system has its own fairness.  The loops of the queue's workers and *)
(* of the keepers have something to do from the start, so of them it is    *)
(* asked in focus alone.                                                   *)
QueueFairness ==
    /\ \A w \in {w1, w2} : WF_queueVars(focus = "queue" /\ Queue!Round(w))
    /\ \A n \in 1 .. 2 : WF_queueVars(Queue!Progress(t1, n))
    /\ WF_queueVars(Queue!Due(t1)) /\ WF_queueVars(Queue!ExpireUnrenewed(t1))

SessionFairness ==
    /\ WF_sessionVars(focus = "sessions" /\ Sessions!KeeperProgress(g1))
    /\ WF_sessionVars(Sessions!CallerProgress(c1)) /\ WF_sessionVars(Sessions!ClaimReclaim(g1, u1))
    /\ WF_sessionVars(Sessions!Overdue(u1)) /\ WF_sessionVars(faults' = faults /\ Sessions!Cooled(u1))

FairLeasesSpec ==
    /\ LeasesInit /\ [][LeasesNext]_leaseVars
    /\ QueueFairness /\ SessionFairness /\ ParseFairness

(* A task ends whatever its workers do.                                    *)
EveryTaskEnds == Queue!EveryTaskEnds

(* An upload session ends, and gives its storage back unless it is ready.  *)
EverySessionEnds == Sessions!EverySessionEnds
=============================================================================
