------------------------------ MODULE MCClaims ------------------------------
(***************************************************************************)
(* Two tables that are worked off by whoever claims a row, side by side:   *)
(* the task queue with a worker that runs two tasks of one key, and an     *)
(* upload session with two requests, verifiers and keepers.  They share    *)
(* nothing; a behaviour moves the one in "focus".                          *)
(***************************************************************************)
EXTENDS CorpusWorker, UploadSessions, TLC

CONSTANTS u1, a, b, c1, c2, v1, v2, k1, k2, key, w1

OneUpload    == {u1}
TwoCommands  == {a, b}
TwoCallers   == {c1, c2}
TwoVerifiers == {v1, v2}
TwoKeepers   == {k1, k2}

(* Tasks have the names of the commands, lest TLC permute them apart.      *)
TwoTasks  == TwoCommands
OneKey    == {key}
OneWorker == {w1}

VARIABLE focus

ClaimsInit == Init /\ QueueInit /\ focus \in {"sessions", "queue"}

ClaimsNext ==
    /\ UNCHANGED focus
    /\ \/ focus = "sessions" /\ Next      /\ UNCHANGED queueVars
       \/ focus = "queue"    /\ QueueNext /\ UNCHANGED vars

ClaimsSpec == ClaimsInit /\ [][ClaimsNext]_<<vars, queueVars, focus>>

(* Requests, commands, tasks and replicas are interchangeable.             *)
Alike == Permutations(TwoCallers) \cup Permutations(TwoCommands)
            \cup Permutations(TwoVerifiers) \cup Permutations(TwoKeepers)
=============================================================================
