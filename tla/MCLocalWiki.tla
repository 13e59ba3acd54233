---------------------------- MODULE MCLocalWiki ----------------------------
(* Instances of LocalWiki for TLC.                                         *)
EXTENDS LocalWiki

CONSTANT c1

OneChat == {c1}
=============================================================================
