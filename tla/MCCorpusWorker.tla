--------------------------- MODULE MCCorpusWorker ---------------------------
(* Instances of CorpusWorker for TLC.                                      *)
EXTENDS CorpusWorker

CONSTANTS t1, k1, w1, w2

OneTask    == {t1}
OneKey     == {k1}
TwoWorkers == {w1, w2}
=============================================================================
