----------------------------- MODULE MCRealtime -----------------------------
(* What one client keeps up to date over its connection, for TLC: the list *)
(* of notes (EventReplay), who views a note (NotePresence), the search     *)
(* index (SearchIndex).  They share no state, so their interleavings would *)
(* show nothing: `part` says which of them a behaviour is about, and the   *)
(* others stay as they are at first.                                       *)
EXTENDS EventReplay, NotePresence, SearchIndex, TLC

CONSTANTS ann, bob, n1, n2, s1, s2

Owners == n1 :> ann @@ n2 :> bob
Sharing == n1 :> {ann} @@ n2 :> {ann, bob}
OneEach == ann :> ann @@ bob :> bob
ByName == s1 :> 1 @@ s2 :> 2

VARIABLE part

mcVars == <<eventVars, presenceVars, searchVars, part>>

MCInit ==
  /\ part \in {"events", "presence", "search"}
  /\ EventsInit /\ PresenceInit /\ SearchInit

EventsOnly(A) == part = "events" /\ A /\ UNCHANGED <<presenceVars, searchVars, part>>
PresenceOnly(A) == part = "presence" /\ A /\ UNCHANGED <<eventVars, searchVars, part>>
SearchOnly(A) == part = "search" /\ A /\ UNCHANGED <<eventVars, presenceVars, part>>

MCNext == EventsOnly(EventsNext) \/ PresenceOnly(PresenceNext) \/ SearchOnly(SearchNext)

(* Each part is as fair as its module says, while it is the one that moves. *)
Progress ==
  EventsOnly(Running) \/ PresenceOnly(HubSteps) \/ SearchOnly(Background)

MCSpec == MCInit /\ [][MCNext]_mcVars /\ WF_mcVars(Progress)
=============================================================================
