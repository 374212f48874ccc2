--------------------------- MODULE MCSectionSync ---------------------------
(* SectionSync for TLC: clients are interchangeable, and so are updates    *)
(* that fit a frame.                                                       *)
EXTENDS SectionSync, TLC

CONSTANT large   \* the one update too large for a frame

NoLargeIds  == {}
OneLargeId == {large}

Symmetry ==
  Permutations(Clients) \union Permutations(Edits \ LargeIds)
=============================================================================
