------------------------- MODULE MCAccountSessions -------------------------
(* The instance of AccountSessions that TLC checks. *)
EXTENDS AccountSessions
=============================================================================
