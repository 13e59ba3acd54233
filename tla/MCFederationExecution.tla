----------------------- MODULE MCFederationExecution -----------------------
(* Instances of FederationExecution for TLC.                               *)
EXTENDS FederationExecution

CONSTANTS x1, c1, c2

OneExecution    == {x1}
TwoCoordinators == {c1, c2}
=============================================================================
