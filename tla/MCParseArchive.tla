--------------------------- MODULE MCParseArchive ---------------------------
(* Instances of ParseArchive for TLC.                                      *)
EXTENDS ParseArchive

CONSTANTS j1, b1, r1, r2, c1

OneJob        == {j1}
OneBuilder    == {b1}
OneRequest    == {r1}
TwoRequests   == {r1, r2}
OneReconciler == {c1}
=============================================================================
