--------------------------- MODULE MCSegmentIndex ---------------------------
(* Model values and symmetry for the runs of SegmentIndex. *)
EXTENDS SegmentIndex, TLC

Symmetry == Permutations(Path) \cup Permutations(Content) \cup Permutations(Readers)
=============================================================================
