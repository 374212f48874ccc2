-------------------------- MODULE MCSectionHistory --------------------------
(* Model values and symmetry for checking SectionHistory. *)
EXTENDS SectionHistory, TLC

CONSTANTS alice, bob, u1, u2, u3

MCUsers == {alice, bob}
MCReaders == {bob}
MCUpdateIds == {u1, u2, u3}
MCLargeIds == {u3}

Symmetry == Permutations(MCUpdateIds \ MCLargeIds)
=============================================================================
