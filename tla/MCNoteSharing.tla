--------------------------- MODULE MCNoteSharing ---------------------------
(* The instance of NoteSharing that TLC checks. *)
EXTENDS NoteSharing
=============================================================================
