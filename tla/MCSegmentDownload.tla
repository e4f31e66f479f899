-------------------------- MODULE MCSegmentDownload --------------------------
(* Instances of SegmentDownload for TLC. *)
EXTENDS SegmentDownload, TLC

CONSTANTS w1, w2

MCWorkers == {w1, w2}
MCSymmetry == Permutations(MCWorkers)
=============================================================================
