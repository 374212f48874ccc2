-------------------------- MODULE MCNoteSections ---------------------------
(* The instance of NoteSections that TLC checks. *)
EXTENDS NoteSections

CONSTANTS s1, s2, s3

ThreeSections == <<s1, s2, s3>>
=============================================================================
