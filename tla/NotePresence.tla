---------------------------- MODULE NotePresence ----------------------------
(***************************************************************************)
(* Who has a note open.  A client reports it on its connection; the hub    *)
(* keeps an entry for the connection, and after every change sends the     *)
(* list of users to the note's members.  Reports of one connection are     *)
(* worked off one by one, broadcasts of all notes one by one, and both     *)
(* wait for the database: in between a connection can close, a member can  *)
(* be revoked, another report can come.  An entry that is not reported     *)
(* again in time is swept.                                                 *)
(*                                                                         *)
(* One note; "idle" and "editing" are one kind of report; sessions are     *)
(* AccountSessions' (one that ends is here a connection that closes);      *)
(* broadcasts that wait are one, and a report does not wait for its own.   *)
(***************************************************************************)
EXTENDS Integers, FiniteSets, Sequences

CONSTANTS
  Devices,
  UserOf,      \* the user of each device
  Viewers,     \* devices with the note open at first
  Revocable,   \* members the owner may revoke
  MaxConns,    \* bound on the connections of a device
  MaxMoves,    \* bound on opening and leaving the note and on later reports
  MaxBreaks,   \* bound on lost connections
  Punctual     \* does a report follow another before the entry is stale?

ASSUME PresenceAssumption ==
  /\ Viewers \subseteq Devices
  /\ MaxConns \in Nat \ {0} /\ MaxMoves \in Nat /\ MaxBreaks \in Nat

People == {UserOf[d] : d \in Devices}
Conns == Devices \X (1..MaxConns)
Person(c) == UserOf[c[1]]

VARIABLES
  sharers,   \* users with access to the note
  closing,   \* revoked, and their connections not yet closed
  conn,      \* the number of each device's last connection
  online,    \* devices whose connection is open on their side
  viewing,   \* devices with the note selected
  shown,     \* the list each device was sent last
  clients,   \* connections of the hub
  reports,     \* reports that wait on each connection
  allowed,   \* connections whose report was found allowed and not yet entered
  entries,   \* presenceByNote
  stale,     \* entries not reported again within presenceTtlMs
  queued,    \* is a broadcast queued?
  cast,      \* the broadcast under way
  moves, breaks

hubVars == <<clients, reports, allowed, entries, stale, queued, cast>>
deviceVars == <<conn, online, viewing, shown, moves, breaks>>
presenceVars == <<sharers, closing, deviceVars, hubVars>>

(* A list, with the users who had no access when it was composed.          *)
ListsOfUsers == [users : SUBSET People, outsiders : SUBSET People]
NoUsers == [users |-> {}, outsiders |-> {}]
NoCast == [list |-> NoUsers, to |-> {}, sending |-> FALSE]

PresenceTypeOK ==
  /\ sharers \subseteq People /\ closing \subseteq People \ sharers
  /\ conn \in [Devices -> 0..MaxConns]
  /\ online \subseteq Devices /\ viewing \subseteq Devices
  /\ shown \in [Devices -> ListsOfUsers]
  /\ clients \subseteq Conns
  /\ reports \in [Conns -> Seq({"idle", "left"})]
  /\ allowed \subseteq {c \in Conns : reports[c] # <<>>}
  /\ entries \subseteq Conns /\ stale \subseteq entries
  /\ queued \in BOOLEAN
  /\ cast.list \in ListsOfUsers /\ cast.to \subseteq Conns
  /\ cast.sending \in BOOLEAN
  /\ moves \in 0..MaxMoves /\ breaks \in 0..MaxBreaks

PresenceInit ==
  /\ sharers = People /\ closing = {}
  /\ conn = [d \in Devices |-> 1] /\ online = Devices
  /\ viewing = Viewers
  /\ shown = [d \in Devices |->
                [users |-> {UserOf[e] : e \in Viewers}, outsiders |-> {}]]
  /\ clients = {<<d, 1>> : d \in Devices} /\ reports = [c \in Conns |-> <<>>] /\ allowed = {}
  /\ entries = {<<d, 1>> : d \in Viewers} /\ stale = {}
  /\ queued = FALSE /\ cast = NoCast
  /\ moves = 0 /\ breaks = 0

-----------------------------------------------------------------------------
(* Devices. *)

Current(d) == <<d, conn[d]>>

Report(d, state) ==
  reports' = IF d \in online
           THEN [reports EXCEPT ![Current(d)] = Append(@, state)] ELSE reports

Move(d) == moves < MaxMoves /\ moves' = moves + 1

View(d) ==
  /\ d \notin viewing /\ Move(d)
  /\ viewing' = viewing \union {d}
  /\ Report(d, "idle")
  /\ UNCHANGED <<sharers, closing, conn, online, shown, breaks, clients,
                 allowed, entries, stale, queued, cast>>

Leave(d) ==
  /\ d \in viewing /\ Move(d)
  /\ viewing' = viewing \ {d}
  /\ Report(d, "left")
  /\ UNCHANGED <<sharers, closing, conn, online, shown, breaks, clients,
                 allowed, entries, stale, queued, cast>>

(* Every PRESENCE_HEARTBEAT_MS.                                            *)
Heartbeat(d) ==
  /\ d \in viewing \intersect online /\ reports[Current(d)] = <<>> /\ Move(d)
  /\ Report(d, "idle")
  /\ UNCHANGED <<sharers, closing, conn, online, viewing, shown, breaks,
                 clients, allowed, entries, stale, queued, cast>>

(* A connection that opens reports the selected note.                      *)
OpenConnection(d) ==
  LET c == <<d, conn[d] + 1>> IN
  /\ d \notin online /\ conn[d] < MaxConns
  /\ conn' = [conn EXCEPT ![d] = @ + 1]
  /\ online' = online \union {d}
  /\ clients' = clients \union {c}
  /\ reports' = [reports EXCEPT ![c] = IF d \in viewing THEN <<"idle">> ELSE <<>>]
  /\ UNCHANGED <<sharers, closing, viewing, shown, moves, breaks, allowed, entries,
                 stale, queued, cast>>

(* The device loses its connection, with the reports under way or after    *)
(* they arrived; the hub learns of it later.                               *)
Break(d) ==
  /\ d \in online /\ breaks < MaxBreaks
  /\ breaks' = breaks + 1
  /\ online' = online \ {d}
  /\ \/ reports' = [reports EXCEPT ![Current(d)] =
                    IF Current(d) \in allowed THEN <<Head(@)>> ELSE <<>>]
     \/ UNCHANGED reports
  /\ UNCHANGED <<sharers, closing, conn, viewing, shown, moves, clients,
                 allowed, entries, stale, queued, cast>>

-----------------------------------------------------------------------------
(* The hub. *)

(* Faulty: the members are not told.                                       *)
ClearQuietly(C) ==
  entries' = entries \ C /\ stale' = stale \ C /\ UNCHANGED queued

(* A changed list is broadcast; a broadcast queued already will do.        *)
Clear(C) ==
  /\ entries' = entries \ C
  /\ stale' = stale \ C
  /\ queued' = (queued \/ entries \intersect C # {})

(* The socket's close event.                                               *)
HangUp(c) ==
  /\ c \in clients /\ (c[1] \notin online \/ c # Current(c[1]))
  /\ clients' = clients \ {c}
  /\ Clear({c})
  /\ UNCHANGED <<sharers, closing, deviceVars, reports, allowed, cast>>

(* A report is taken up: leaving needs no access, viewing does.            *)
TakeUp(c) ==
  /\ reports[c] # <<>> /\ c \notin allowed
  /\ IF Head(reports[c]) = "idle" /\ Person(c) \in sharers
     THEN /\ allowed' = allowed \union {c}
          /\ UNCHANGED <<reports, entries, stale, queued>>
     ELSE /\ reports' = [reports EXCEPT ![c] = Tail(@)]
          /\ IF Head(reports[c]) = "left" THEN Clear({c})
             ELSE UNCHANGED <<entries, stale, queued>>
          /\ UNCHANGED allowed
  /\ UNCHANGED <<sharers, closing, deviceVars, clients, cast>>

(* And entered, whatever has become of the connection and of the access.   *)
Enter(c) ==
  /\ c \in allowed
  /\ allowed' = allowed \ {c}
  /\ reports' = [reports EXCEPT ![c] = Tail(@)]
  /\ entries' = entries \union {c}
  /\ stale' = stale \ {c}
  /\ queued' = TRUE
  /\ UNCHANGED <<sharers, closing, deviceVars, clients, cast>>

(* The list, and the connections it goes to: the sessions of all are       *)
(* checked first, and a connection made meanwhile reports on its own.      *)
ComposeList ==
  /\ queued /\ cast = NoCast
  /\ queued' = FALSE
  /\ cast' = [list |-> [users |-> {Person(c) : c \in entries},
                        outsiders |-> People \ sharers],
              to |-> clients, sending |-> TRUE]
  /\ UNCHANGED <<sharers, closing, deviceVars, clients, reports, allowed,
                 entries, stale>>

(* Faulty: the access is not looked up again.                              *)
EveryoneReceives(c) == TRUE

Receives(c) == Person(c) \in sharers

(* Each user's access is looked up before his connections are sent to.     *)
SendList(u) ==
  LET his == {c \in cast.to : Person(c) = u} IN
  /\ cast.sending /\ his # {}
  /\ cast' = [cast EXCEPT !.to = @ \ his]
  /\ shown' = [d \in Devices |->
       IF d \in online /\ Current(d) \in his \intersect clients
          /\ Receives(Current(d))
       THEN cast.list ELSE shown[d]]
  /\ UNCHANGED <<sharers, closing, conn, online, viewing, moves, breaks,
                 clients, reports, allowed, entries, stale, queued>>

EndCast ==
  /\ cast.sending /\ cast.to = {}
  /\ cast' = NoCast
  /\ UNCHANGED <<sharers, closing, deviceVars, clients, reports, allowed,
                 entries, stale, queued>>

(* An entry is out of date when no report has renewed it for               *)
(* presenceTtlMs, three times the interval of the reports.                 *)
GrowStale(c) ==
  /\ c \in entries \ stale
  /\ ~(Punctual /\ c[1] \in online \intersect viewing /\ c = Current(c[1]))
  /\ stale' = stale \union {c}
  /\ UNCHANGED <<sharers, closing, deviceVars, clients, reports, allowed,
                 entries, queued, cast>>

Sweep ==
  /\ stale # {}
  /\ Clear(stale)
  /\ UNCHANGED <<sharers, closing, deviceVars, clients, reports, allowed, cast>>

-----------------------------------------------------------------------------
(* Revocation: the transaction, then the closing of the connections, whose *)
(* reason makes the device drop the note.                                  *)
RevokeMember(u) ==
  /\ u \in Revocable \intersect sharers
  /\ sharers' = sharers \ {u} /\ closing' = closing \union {u}
  /\ UNCHANGED <<deviceVars, hubVars>>

CloseNoteAccess(u) ==
  LET his == {c \in clients : Person(c) = u}
      told == {d \in online : Current(d) \in his} IN
  /\ u \in closing
  /\ closing' = closing \ {u}
  /\ clients' = clients \ his
  /\ Clear(his)
  /\ online' = online \ told
  /\ viewing' = viewing \ told
  /\ shown' = [d \in Devices |-> IF d \in told THEN NoUsers ELSE shown[d]]
  /\ UNCHANGED <<sharers, conn, moves, breaks, reports, allowed, cast>>

-----------------------------------------------------------------------------
DeviceStep(d) ==
  View(d) \/ Leave(d) \/ Heartbeat(d) \/ OpenConnection(d) \/ Break(d)

HubSteps ==
  \/ \E c \in clients : HangUp(c)
  \/ \E u \in closing : CloseNoteAccess(u)
  \/ \E c \in Conns : TakeUp(c) \/ Enter(c)
  \/ ComposeList \/ EndCast \/ \E u \in People : SendList(u)
  \/ Sweep \/ \E c \in entries : GrowStale(c)

PresenceNext ==
  \/ \E d \in Devices : DeviceStep(d)
  \/ \E u \in Revocable : RevokeMember(u)
  \/ HubSteps

(* Queries end, close events arrive and the sweep runs; a device need not  *)
(* connect, and its regular reports are what Punctual says of them.        *)
PresenceSpec == PresenceInit /\ [][PresenceNext]_presenceVars /\ WF_presenceVars(HubSteps)

-----------------------------------------------------------------------------
(* Nobody is sent a list composed after his access had ended: the lookup   *)
(* that broadcastPresence makes for each user comes after the list, and    *)
(* what was sent before is dropped with the note.                          *)
RevokedNotTold ==
  /\ PresenceTypeOK
  /\ \A d \in Devices : UserOf[d] \notin shown[d].outsiders

(* In the end every member who views the note sees exactly the members     *)
(* who do: nobody who came is missed, and nobody who left, lost the        *)
(* connection or the access, or reported too late for either, stays.       *)
Present == {d \in online \intersect viewing : UserOf[d] \in sharers}

PresenceSettles ==
  <>[](\A d \in Present : shown[d].users = {UserOf[e] : e \in Present})
=============================================================================
