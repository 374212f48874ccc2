---------------------------- MODULE EventReplay ----------------------------
(***************************************************************************)
(* The log of note events: every change of a note or of its members writes *)
(* one in its transaction, under the next cursor.  The hub publishes it to *)
(* the connections of the users it concerns; a client that connects asks   *)
(* for what follows its own cursor.  A client works its batches of events  *)
(* off one by one: it drops the notes it was revoked from, loads the list  *)
(* of notes again, and acknowledges; the server then prunes events that    *)
(* everybody has acknowledged.                                             *)
(*                                                                         *)
(* Clients meet only at the server, so one client is followed; the others  *)
(* change notes and acknowledge whenever they like.                        *)
(***************************************************************************)
EXTENDS Integers, FiniteSets, Sequences

CONSTANTS
  Notes, Accounts,
  User,           \* the user of the client followed
  OwnerOf,        \* the owner of each note
  InitialMembers, \* its members at first
  MaxEvents,      \* bound on cursors
  ReplayLimit,    \* events sent on connection
  Alone,          \* is it the user's only client?
  InOrder,        \* are events committed and published in cursor order?
  ReplayFirst,    \* is the replay sent before any event published meanwhile?
  Reinvites,      \* may a revoked user be invited again?
  SlowLoads,      \* may events be applied while a list's answer is decrypted?
  FailingLoads,   \* the loads that may fail
  MaxFaults       \* bound on lost connections, restarts, failed or other loads

ASSUME MembersAssumption ==
  /\ User \in Accounts
  /\ OwnerOf \in [Notes -> Accounts]
  /\ InitialMembers \in [Notes -> SUBSET Accounts]
  /\ \A n \in Notes : OwnerOf[n] \in InitialMembers[n]
ASSUME EventsBounds ==
  /\ MaxEvents \in Nat /\ ReplayLimit \in Nat \ {0} /\ MaxFaults \in Nat
  /\ {Alone, InOrder, ReplayFirst, Reinvites, SlowLoads} \subseteq BOOLEAN
  /\ FailingLoads \subseteq {"events", "other"}

VARIABLES
  members,      \* note_memberships: active users of each note
  former,       \* and those whose membership was revoked
  used,         \* cursors of committed events, pruned ones included
  log,          \* note_events
  cursors,      \* event_cursors, by user
  told,         \* event_acknowledgements, by user and note
  changed,      \* cursor of the last change of a note by the client, by others
  unpublished,  \* committed events the hub has yet to publish
  link,         \* the client's connection at the hub: off, asked, on, ending
  revokedNote,  \* the notes named by the reason of a connection ending
  inbox,        \* batches under way on it
  position,     \* eventCursor
  batches,      \* pendingBatches
  stage,        \* what the client does with the first
  loads,        \* its loads of the list of notes, by what asked for them
  newest,       \* the one begun last
  view,         \* its list: the last change it shows of each note
  faults

serverVars == <<members, former, used, log, cursors, told, changed, unpublished>>
linkVars == <<link, revokedNote, inbox>>
clientVars == <<position, batches, stage, loads, newest, view>>
eventVars == <<serverVars, linkVars, clientVars, faults>>

Cursors == 0..MaxEvents
Absent == -1        \* a note the list does not hold
Lists == [Notes -> Cursors \union {Absent}]

(* payload_metadata: the client instance, and the member an event is about *)
(* or, of a deletion, all who saw the note.                                *)
Events ==
  [cursor : 1..MaxEvents, note : Notes, mine : BOOLEAN,
   kind : {"updated", "added", "revoked", "deleted"}, whom : SUBSET Accounts]

CursorsOf(E) == {e.cursor : e \in E}
MaxOf(S) == CHOOSE x \in S : \A y \in S : y <= x
MinOf(S) == CHOOSE x \in S : \A y \in S : x <= y

Loads == [state : {"none", "asked", "answered"}, list : Lists]
NothingListed == [n \in Notes |-> Absent]
NoLoad == [state |-> "none", list |-> NothingListed]
Asked == [state |-> "asked", list |-> NothingListed]

EventsTypeOK ==
  /\ members \in [Notes -> SUBSET Accounts] /\ former \in [Notes -> SUBSET Accounts]
  /\ \A n \in Notes : members[n] \intersect former[n] = {}
  /\ used \subseteq 1..MaxEvents
  /\ log \subseteq Events /\ CursorsOf(log) \subseteq used
  /\ cursors \in [Accounts -> Cursors]
  /\ told \in [Accounts -> [Notes -> Cursors]]
  /\ changed \in [Notes -> [mine : Cursors, others : Cursors]]
  /\ unpublished \subseteq used
  /\ link \in {"off", "asked", "on", "ending"}
  /\ revokedNote \subseteq Notes /\ (revokedNote # {} <=> link = "ending")
  /\ inbox \in Seq(SUBSET Events) /\ (link = "off" => inbox = <<>>)
  /\ position \in Cursors
  /\ batches \in Seq(SUBSET Events)
  /\ stage \in {"idle", "loading", "failed", "acking"}
  /\ stage = "idle" <=> batches = <<>>
  /\ loads \in [{"events", "other"} -> Loads]
  /\ newest \in {"events", "other"}
  /\ view \in Lists
  /\ faults \in 0..MaxFaults

EventsInit ==
  /\ members = InitialMembers /\ former = [n \in Notes |-> {}]
  /\ used = {} /\ log = {}
  /\ cursors = [u \in Accounts |-> 0]
  /\ told = [u \in Accounts |-> [n \in Notes |-> 0]]
  /\ changed = [n \in Notes |-> [mine |-> 0, others |-> 0]]
  /\ unpublished = {}
  /\ link = "on" /\ revokedNote = {} /\ inbox = <<>>
  /\ position = 0
  /\ batches = <<>> /\ stage = "idle"
  /\ loads = [k \in {"events", "other"} |-> NoLoad] /\ newest = "events"
  /\ view = [n \in Notes |-> IF User \in members[n] THEN 0 ELSE Absent]
  /\ faults = 0

-----------------------------------------------------------------------------
(* Changes.  A transaction locks its note, so that the cursors of a note   *)
(* are committed in order; transactions on different notes are committed   *)
(* in any order, whichever took its cursor first.                          *)

Last(n) == MaxOf({changed[n].mine, changed[n].others})

Free(n) ==
  {k \in 1..MaxEvents \ used :
     k > Last(n) /\ (InOrder => \A j \in 1..(k - 1) : j \in used)}

Event(k, n, mine, kind, whom) ==
  [cursor |-> k, note |-> n, mine |-> mine, kind |-> kind, whom |-> whom]

(* The transaction writes its event.  The route then has the hub publish   *)
(* the event, and first close the connections of a user it revoked: the    *)
(* close follows what was sent on them.                                    *)
Record(e, remaining, revoked) ==
  LET closes == User \in revoked /\ link \in {"asked", "on"} IN
  /\ used' = used \union {e.cursor}
  /\ log' = log \union {e}
  /\ members' = [members EXCEPT ![e.note] = remaining]
  /\ former' = [former EXCEPT ![e.note] = (@ \union revoked) \ remaining]
  /\ changed' = IF e.mine
                THEN [changed EXCEPT ![e.note].mine = e.cursor]
                ELSE [changed EXCEPT ![e.note].others = e.cursor]
  /\ unpublished' = unpublished \union {e.cursor}
  /\ link' = IF closes THEN "ending" ELSE link
  /\ revokedNote' = IF closes THEN {e.note} ELSE revokedNote
  /\ UNCHANGED <<cursors, told, inbox, clientVars, faults>>

MayChange(n, mine) == IF mine THEN User \in members[n] ELSE members[n] # {}

Owns(n, mine) ==
  OwnerOf[n] \in members[n] /\ (mine => User = OwnerOf[n])

Update(n, k, mine) ==
  /\ MayChange(n, mine)
  /\ Record(Event(k, n, mine, "updated", {}), members[n], {})

Invite(n, k, mine, u) ==
  /\ Owns(n, mine) /\ u \notin members[n]
  /\ u \in former[n] => Reinvites
  /\ Record(Event(k, n, mine, "added", {u}), members[n] \union {u}, {})

Revoke(n, k, mine, u) ==
  /\ Owns(n, mine) /\ u \in members[n] \ {OwnerOf[n]}
  /\ Record(Event(k, n, mine, "revoked", {u}), members[n] \ {u}, {u})

PermanentlyDelete(n, k, mine) ==
  /\ Owns(n, mine)
  /\ Record(Event(k, n, mine, "deleted", members[n]), {}, {})

(* Users who left a note see of its events the one that removed them,      *)
(* until they have acknowledged it.                                        *)
Removes(u, e) == e.kind \in {"revoked", "deleted"} /\ u \in e.whom

VisibleTo(u, e) ==
  \/ u \in members[e.note]
  \/ Removes(u, e) /\ told[u][e.note] < e.cursor

VisibleAfter(u, after) == {e \in log : e.cursor > after /\ VisibleTo(u, e)}

(* POST /events/ack: record what a user has, then prune.                   *)
EveryMember(e, acknowledged) ==
  \A u \in members[e.note] : acknowledged[u] >= e.cursor

Everyone(e, acknowledged) ==
  /\ \A u \in members[e.note] : acknowledged[u] >= e.cursor
  /\ \A u \in Accounts : Removes(u, e) => acknowledged[u] >= e.cursor

Pruned(through, acknowledged) ==
  {e \in log : e.cursor <= through /\ Everyone(e, acknowledged)}

RecordAcknowledgement(u, through) ==
  LET acknowledged == [cursors EXCEPT ![u] = MaxOf({@, through})]
      kept == log \ Pruned(through, acknowledged)
      removals(w, n, k) ==
        {e \in log : e.note = n /\ e.cursor <= k /\ Removes(w, e)}
      toldNow == [told EXCEPT ![u] =
        [n \in Notes |->
           MaxOf({@[n]} \union CursorsOf(removals(u, n, through)))]]
  IN /\ cursors' = acknowledged
     /\ log' = kept
     /\ told' = [w \in Accounts |-> [n \in Notes |->
          IF removals(w, n, toldNow[w][n]) \intersect kept = {}
          THEN 0 ELSE toldNow[w][n]]]
     /\ UNCHANGED <<members, former, used, changed, unpublished>>

(* Another client acknowledges.                                            *)
AcknowledgeElsewhere(u, k) ==
  /\ u # User \/ ~Alone
  /\ k \in used /\ k > cursors[u]
  /\ RecordAcknowledgement(u, k)
  /\ UNCHANGED <<linkVars, clientVars, faults>>

-----------------------------------------------------------------------------
(* The hub and the connection. *)

Publish(k) ==
  LET event == {e \in VisibleAfter(User, k - 1) : e.cursor = k} IN
  /\ k \in unpublished
  /\ InOrder => k = MinOf(unpublished)
  /\ ReplayFirst => link # "asked"
  /\ unpublished' = unpublished \ {k}
  /\ inbox' = IF link \in {"asked", "on"} /\ event # {}
              THEN Append(inbox, event) ELSE inbox
  /\ UNCHANGED <<members, former, used, log, cursors, told, changed, link,
                 revokedNote, clientVars, faults>>

(* The query behind the replay of a new connection. *)
Replay ==
  LET all == VisibleAfter(User, position)
      first == {e \in all :
                  Cardinality({d \in all : d.cursor <= e.cursor}) <= ReplayLimit}
  IN /\ link = "asked"
     /\ link' = "on"
     /\ inbox' = IF first = {} THEN inbox ELSE Append(inbox, first)
     /\ UNCHANGED <<serverVars, revokedNote, clientVars, faults>>

Drop == link' = "off" /\ revokedNote' = {} /\ inbox' = <<>>

Disconnect ==
  /\ link # "off"
  /\ faults < MaxFaults /\ faults' = faults + 1
  /\ Drop
  /\ UNCHANGED <<serverVars, clientVars>>

(* The reason of the close tells the client which note to drop.            *)
Closed ==
  /\ link = "ending" /\ inbox = <<>>
  /\ Drop
  /\ view' = [n \in Notes |-> IF n \in revokedNote THEN Absent ELSE view[n]]
  /\ UNCHANGED <<serverVars, position, batches, stage, loads, newest, faults>>

Connect ==
  /\ link = "off"
  /\ link' = "asked"
  /\ UNCHANGED <<serverVars, revokedNote, inbox, clientVars, faults>>

(* The vault is opened anew: the list is loaded, and the cursor is the one *)
(* the server has for the user.                                            *)
Restart ==
  /\ faults < MaxFaults /\ faults' = faults + 1
  /\ Drop
  /\ position' = cursors[User]
  /\ batches' = <<>> /\ stage' = "idle"
  /\ loads' = [events |-> NoLoad, other |-> Asked] /\ newest' = "other"
  /\ view' = NothingListed
  /\ UNCHANGED serverVars

-----------------------------------------------------------------------------
(* The client's batches.  Applying one is synchronous; the next is applied *)
(* when the first is acknowledged.                                         *)

OwnRevocation(e) == e.kind = "revoked" /\ User \in e.whom

(* Its own changes the client shows already; its own revocation of another *)
(* user is loaded again, for the new key.                                  *)
ForReload(E) ==
  {e \in E : ~OwnRevocation(e) /\ (~e.mine \/ e.kind = "revoked")}

Ask ==
  /\ stage' = "loading"
  /\ loads' = [loads EXCEPT !["events"] = Asked]
  /\ newest' = "events"

Apply(E) ==
  /\ SlowLoads \/ loads["other"].state # "answered"
  /\ position' = MaxOf({position} \union CursorsOf(E))
  /\ view' = [n \in Notes |->
                IF \E e \in E : OwnRevocation(e) /\ e.note = n
                THEN Absent ELSE view[n]]
  /\ IF ForReload(E) = {}
     THEN stage' = "acking" /\ UNCHANGED <<loads, newest>>
     ELSE Ask

Receive ==
  /\ inbox # <<>>
  /\ inbox' = Tail(inbox)
  /\ batches' = Append(batches, Head(inbox))
  /\ IF batches = <<>>
     THEN Apply(Head(inbox))
     ELSE UNCHANGED <<position, stage, loads, newest, view>>
  /\ UNCHANGED <<serverVars, link, revokedNote, faults>>

(* The list of notes the user may read, as the server has it.              *)
Answer(k) ==
  /\ loads[k].state = "asked"
  /\ loads' = [loads EXCEPT ![k] =
       [state |-> "answered",
        list |-> [n \in Notes |->
                    IF User \in members[n] THEN Last(n) ELSE Absent]]]
  /\ UNCHANGED <<serverVars, linkVars, position, batches, stage, newest, view,
                 faults>>

(* An answer is shown unless a load was begun after this one; what asked   *)
(* for it goes on either way.                                              *)
Show(k) ==
  /\ loads[k].state = "answered"
  /\ loads' = [loads EXCEPT ![k] = NoLoad]
  /\ view' = IF newest = k THEN loads[k].list ELSE view
  /\ stage' = IF k = "events" THEN "acking" ELSE stage
  /\ UNCHANGED <<serverVars, linkVars, position, batches, newest, faults>>

FailLoad(k) ==
  /\ k \in FailingLoads /\ loads[k].state = "asked"
  /\ faults < MaxFaults /\ faults' = faults + 1
  /\ loads' = [loads EXCEPT ![k] = NoLoad]
  /\ stage' = IF k = "events" THEN "failed" ELSE stage
  /\ UNCHANGED <<serverVars, linkVars, position, batches, newest, view>>

Retry ==
  /\ stage = "failed"
  /\ Ask
  /\ UNCHANGED <<serverVars, linkVars, position, batches, view, faults>>

(* Something else loads the list: a conflict, a folder, another view.      *)
LoadList ==
  /\ loads["other"].state = "none"
  /\ faults < MaxFaults /\ faults' = faults + 1
  /\ loads' = [loads EXCEPT !["other"] = Asked]
  /\ newest' = "other"
  /\ UNCHANGED <<serverVars, linkVars, position, batches, stage, view>>

AcknowledgeAndRest ==
  /\ stage = "acking"
  /\ RecordAcknowledgement(User, MaxOf(CursorsOf(Head(batches))))
  /\ batches' = Tail(batches)
  /\ stage' = "idle"
  /\ UNCHANGED <<linkVars, position, loads, newest, view, faults>>

Acknowledge ==
  /\ stage = "acking"
  /\ RecordAcknowledgement(User, MaxOf(CursorsOf(Head(batches))))
  /\ batches' = Tail(batches)
  /\ IF Len(batches) > 1
     THEN Apply(batches[2])
     ELSE stage' = "idle" /\ UNCHANGED <<position, loads, newest, view>>
  /\ UNCHANGED <<linkVars, faults>>

-----------------------------------------------------------------------------
Changes ==
  \E n \in Notes, mine \in BOOLEAN : \E k \in Free(n) :
    \/ Update(n, k, mine)
    \/ \E u \in Accounts : Invite(n, k, mine, u) \/ Revoke(n, k, mine, u)
    \/ PermanentlyDelete(n, k, mine)

Hub == Replay \/ \E k \in unpublished : Publish(k)

Client ==
  \/ Closed \/ Connect \/ Receive \/ Retry \/ Acknowledge
  \/ \E k \in {"events", "other"} : Answer(k) \/ Show(k)

Faults ==
  \/ Disconnect \/ Restart \/ LoadList
  \/ \E k \in {"events", "other"} : FailLoad(k)

EventsNext ==
  \/ Changes
  \/ \E u \in Accounts, k \in used : AcknowledgeElsewhere(u, k)
  \/ Hub \/ Client \/ Faults

EventsSpec == EventsInit /\ [][EventsNext]_eventVars

(* Queries end and queues are worked off, the client reconnects and        *)
(* retries; nobody has to change or acknowledge anything elsewhere.        *)
Running == Hub \/ Client

EventsFairSpec == EventsSpec /\ WF_eventVars(Running)

-----------------------------------------------------------------------------
(* An event is on its way to the client: published but not applied, to be  *)
(* published, or among what a replay will find.                            *)
InBatches(k) ==
  \/ \E i \in 1..Len(inbox) : k \in CursorsOf(inbox[i])
  \/ \E i \in 1..Len(batches) :
       k \in CursorsOf(batches[i]) /\ (i = 1 => stage # "acking")

Coming(k) ==
  \/ InBatches(k)
  \/ link \in {"asked", "on"} /\ k \in unpublished
  \/ /\ link # "on" /\ position < k
     /\ k \in CursorsOf({e \in log : VisibleTo(User, e)})

(* A list is asked for, or will be again. *)
Loading == loads[newest].state = "asked" \/ stage = "failed"
Loaded == IF loads[newest].state = "answered" THEN loads[newest].list ELSE view

Deleted(n) == members[n] = {} /\ changed[n].mine = Last(n)

(* A member who has not acknowledged the last change of a note still finds *)
(* its event in a replay from what he has acknowledged, whoever            *)
(* acknowledged what meanwhile: pruning does not run ahead of anybody.     *)
UnacknowledgedKept ==
  \A n \in Notes : \A u \in members[n] :
    cursors[u] < Last(n) =>
      \E e \in VisibleAfter(u, cursors[u]) : e.note = n /\ e.cursor = Last(n)

(* No change others make to a note passes a member's client by, and no     *)
(* removal a former member's: it is shown, being loaded, or on its way.    *)
(* This is what the log, its replay and its pruning are for.               *)
NothingLost ==
  /\ EventsTypeOK
  /\ UnacknowledgedKept
  /\ \A n \in Notes :
       \/ Loading
       \/ IF User \in members[n]
          THEN Loaded[n] >= changed[n].others \/ Coming(changed[n].others)
          ELSE \/ Loaded[n] = Absent \/ n \in revokedNote \/ Deleted(n)
               \/ \E e \in log :
                    e.note = n /\ Removes(User, e) /\ Coming(e.cursor)

(* In the end the client shows every note as others left it.               *)
UpToDate(n) ==
  IF User \in members[n] THEN view[n] >= changed[n].others
  ELSE view[n] = Absent \/ Deleted(n)

Converges == <>[](\A n \in Notes : UpToDate(n))
=============================================================================
