---------------------------- MODULE MCSyncClient ----------------------------
(***************************************************************************)
(* Row 2 belongs to row 1, or no row to any.                               *)
(***************************************************************************)
EXTENDS SyncClient, TLC

MCParent == [r \in Rows \cap {2} |-> 1]
MCNoParent == [r \in {} |-> r]

MCEntity == [r \in Rows |-> IF r \in DOMAIN Parent THEN "chapter" ELSE "manga"]

MCSymmetry == Permutations(Slots)
=============================================================================
