--------------------------- MODULE MCChapterFiles ---------------------------
(* Instances of ChapterFiles for TLC. *)
EXTENDS ChapterFiles, TLC

CONSTANTS p1, p2, p3

MCSymmetry == Permutations({p1, p2, p3})
=============================================================================
