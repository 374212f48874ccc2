------------------------- MODULE MCEncryptedOutbox -------------------------
(* EncryptedOutbox for TLC: tabs and updates are interchangeable. *)
EXTENDS EncryptedOutbox, TLC

Symmetry == Permutations(Tabs) \union Permutations(Updates)
=============================================================================
