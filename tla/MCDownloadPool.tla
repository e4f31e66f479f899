--------------------------- MODULE MCDownloadPool ---------------------------
(* Instances of DownloadPool for TLC. *)
EXTENDS DownloadPool, TLC

CONSTANTS t1, t2, w1, w2

MCTasks == {t1, t2}
MCWorkers == {w1, w2}
\* t1 downloads files, t2 segments.
MCSegmented == {t2}
=============================================================================
