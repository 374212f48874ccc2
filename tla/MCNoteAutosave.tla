--------------------------- MODULE MCNoteAutosave ---------------------------
(* NoteAutosave for TLC: a folder inside another.                          *)
EXTENDS NoteAutosave, TLC

CONSTANTS inner, outer

Nesting == inner :> outer @@ outer :> NoFolder
=============================================================================
