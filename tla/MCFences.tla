------------------------------ MODULE MCFences ------------------------------
(***************************************************************************)
(* Two kinds of rows of corpus-api that fence late writers off by a        *)
(* generation of their own, side by side: the search index of a document   *)
(* with two jobs and two builders, and a federated execution with its      *)
(* queue tasks and two resumes that may overlap.  They share nothing; a    *)
(* behaviour moves the one in "focus".                                     *)
(***************************************************************************)
EXTENDS FederationExecution, IndexFence

CONSTANTS j1, j2, b1, b2, x1, c1, c2

OneExecution    == {x1}
TwoCoordinators == {c1, c2}
TwoJobs         == {j1, j2}
TwoBuilders     == {b1, b2}

VARIABLE focus

FencesInit == ExecInit /\ IndexInit /\ focus \in {"executions", "index"}

FencesNext ==
    /\ UNCHANGED focus
    /\ \/ focus = "executions" /\ ExecNext  /\ UNCHANGED ivars
       \/ focus = "index"      /\ IndexNext /\ UNCHANGED execVars

FairFencesSpec ==
    /\ FencesInit /\ [][FencesNext]_<<execVars, ivars, focus>>
    /\ ExecFairness /\ IndexFairness
=============================================================================
