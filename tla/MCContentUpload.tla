-------------------------- MODULE MCContentUpload --------------------------
(* ContentUpload for TLC: everything belongs to one note, and storage keys *)
(* are interchangeable.                                                    *)
EXTENDS ContentUpload, TLC

CONSTANT n1

OneNote == [x \in Uploads \union Attachments |-> n1]

Symmetry == Permutations(Keys)
=============================================================================
