------------------------- MODULE MCContentTransfer --------------------------
(* ContentTransfer for TLC. *)
EXTENDS ContentTransfer
MCTransfers == 1..2
MCChunks == 1..2
OneRotating == {1}
=============================================================================
