---------------------------- MODULE NoteSections ----------------------------
(***************************************************************************)
(* The sections of one note: what the server lists, creates, removes and   *)
(* initializes, and how the devices that show the note load the selected   *)
(* section and its neighbours, move between sections and release what they *)
(* leave behind.                                                           *)
(*                                                                         *)
(* A device's loads are React effects: a changed dependency aborts the     *)
(* effect and runs it again, and what an aborted effect already sent goes  *)
(* on.  The root section, which every load of the index waits for, is      *)
(* opened with the note and not followed further.                          *)
(***************************************************************************)
EXTENDS Integers, Sequences, FiniteSets

CONSTANTS
    Clients,    \* devices that show the note
    Writers,    \* those of them whose user may write
    Others,     \* writing devices of which only the requests are followed
    Order,      \* all sections, in the order of the note
    InitiallyLive, \* the sections the note has at first
    Uninitialized, \* those of them that are not initialized
    None,       \* nothing selected, no binding, no target, no manifest
    InOrder,    \* an answer arrives before the events that follow it
    MaxChanges, \* bound: changes of the note, and initializations by others
    MaxEdits,   \* bound: edits typed
    MaxMoves,   \* bound: sections selected, notes closed and opened
    MaxTogether, \* bound: all of these
    MaxRefusals \* bound: writes the device's store refuses

Sections == {Order[i] : i \in 1..Len(Order)}

ASSUME SectionsAssumption ==
    /\ Order \in Seq(Sections)
    /\ Writers \subseteq Clients /\ Clients \cap Others = {}
    /\ InitiallyLive \subseteq Sections /\ InitiallyLive # {} /\ None \notin Sections
    /\ Uninitialized \subseteq InitiallyLive
    /\ InOrder \in BOOLEAN
    /\ {MaxChanges, MaxEdits, MaxMoves, MaxRefusals, MaxTogether} \subseteq Nat

ASSUME NoneAssumption ==
    /\ None \notin Nat
    /\ None \notin [by: Clients \cup Others \cup {None}, section: Sections, epoch: Nat]
    /\ None \notin [epoch: Nat, opens: Nat, synced: BOOLEAN, pending: SUBSET Nat,
                    doc: SUBSET Nat, inherited: BOOLEAN, sending: BOOLEAN]

VARIABLES
    note,       \* notes: root version and epoch
    sect,       \* note_sections: state, epoch it was created in, initialization
    manifests,  \* committed checkpoint manifests made for an initialization
    inits,      \* crdt_initializations
    behind,     \* devices with an event of the note still to handle
    view,       \* the note as each device's list shows it
    shown,      \* whether the note is the selected one
    index,      \* sectionIndexes: status, sections, those initialized
    indexing,   \* the load of the index that is under way
    selected,   \* selectedSectionByNote
    bound,      \* bindings: epoch, openGeneration, synced, pendingBroadcasts,
                \* inheritedEpochState, whether that is being published, and the
                \* edits in the document that the outbox does not keep
    target,     \* loadedTargets: the generation of the lease a load holds
    state,      \* loadedSections: status
    work,       \* what the present load of each section waits for
    next,       \* neighbours opened when the selected section is done
    calls,      \* initializations under way
    releases,   \* releases that wait for pending broadcasts
    edits,      \* edits typed so far
    typed,      \* ghost: edits not yet kept by the outbox
    refused,    \* ghost: what the device's store refused to keep
    dropped,    \* ghost: edits destroyed that were refused or still to publish
    changes,    \* changes and initializations by others so far
    moves,      \* selections, closings and openings so far
    refusals    \* writes refused so far

server == <<note, sect, manifests, inits>>
list == <<behind, view, shown, index, indexing, selected>>
leases == <<bound, target, state, work, next, calls, releases>>
typing == <<edits, typed, refused, dropped>>
counts == <<changes, moves, refusals>>
vars == <<server, list, leases, typing, counts>>

Job(at) == [at |-> at, listed |-> {}, initialized |-> {}]
NoIndex == [ready |-> FALSE, listed |-> {}, initialized |-> {}]

First(s) == [by |-> None, section |-> s, epoch |-> 1]

Init ==
    /\ note = [root |-> 1, epoch |-> 1]
    /\ sect = [s \in Sections |->
                 [state |-> IF s \in InitiallyLive THEN "live" ELSE "none",
                  created |-> 1,
                  init |-> IF s \in InitiallyLive \ Uninitialized THEN First(s) ELSE None]]
    /\ manifests = {First(s) : s \in InitiallyLive \ Uninitialized}
    /\ inits = {[section |-> m.section, epoch |-> 1, manifest |-> m] : m \in manifests}
    /\ behind = {}
    /\ view = [d \in Clients |-> [root |-> 1, epoch |-> 1]]
    /\ shown = [d \in Clients |-> TRUE]
    /\ index = [d \in Clients |-> NoIndex]
    /\ indexing = [d \in Clients |-> Job("root")]
    /\ selected = [d \in Clients |-> None]
    /\ bound = [d \in Clients |-> [s \in Sections |-> None]]
    /\ target = [d \in Clients |-> [s \in Sections |-> None]]
    /\ state = [d \in Clients |-> [s \in Sections |-> "none"]]
    /\ work = [d \in Clients |-> [s \in Sections |-> "idle"]]
    /\ next = [d \in Clients |-> {}]
    /\ calls = {} /\ releases = {}
    /\ edits = 0 /\ typed = {} /\ refused = {} /\ dropped = {}
    /\ changes = 0 /\ moves = 0 /\ refusals = 0

---------------------------------------------------------------------------
(* The server *)

Live == {s \in Sections : sect[s].state = "live"}

(* A writing request is taken for the epoch and root version the note has. *)
Taken(d) ==
    \/ d \in Others
    \/ d \in Writers /\ note.epoch = view[d].epoch /\ note.root = view[d].root

Within == changes + edits + moves < MaxTogether

Counted == Within /\ changes < MaxChanges /\ changes' = changes + 1

(* Every device gets an event of the change.                               *)
Notify == behind' = Clients /\ UNCHANGED <<view, shown, index, indexing, selected>>

Advance == Counted /\ Notify /\ note' = [note EXCEPT !.root = @ + 1]

(* Any change of the note's protected part, as a title.                    *)
Save(d) ==
    /\ Taken(d) /\ Advance
    /\ UNCHANGED <<sect, manifests, inits, leases, typing, moves, refusals>>

Create(d, s) ==
    /\ sect[s].state = "none"
    /\ Taken(d) /\ Advance
    /\ sect' = [sect EXCEPT ![s] = [state |-> "live", created |-> note.epoch, init |-> None]]
    /\ UNCHANGED <<manifests, inits, leases, typing, moves, refusals>>

NotLastUncounted == TRUE

NotLast == Cardinality(Live) > 1

Tombstone(d, s) ==
    /\ s \in Live /\ NotLast
    /\ Taken(d) /\ Advance
    /\ sect' = [sect EXCEPT ![s].state = "deleted"]
    /\ UNCHANGED <<manifests, inits, leases, typing, moves, refusals>>

(* The rotation sets and clears its fence in one transaction.               *)
Rotate ==
    /\ Counted /\ Notify
    /\ note' = [root |-> note.root + 1, epoch |-> note.epoch + 1]
    /\ UNCHANGED <<sect, manifests, inits, leases, typing, moves, refusals>>

---------------------------------------------------------------------------
(* Opening and releasing *)

Fresh(d) == [epoch |-> view'[d].epoch, opens |-> 1, synced |-> FALSE, pending |-> {},
             doc |-> {}, inherited |-> FALSE, sending |-> FALSE]

(* The binding of a later epoch has the document of the one it replaces,   *)
(* and nothing of what that one had still to broadcast.  A document whose  *)
(* edits are all kept is published again too, which changes nothing here.  *)
Heir(d, s) == [Fresh(d) EXCEPT !.doc = bound[d][s].doc, !.inherited = bound[d][s].doc # {}]

Current(d, s) == bound[d][s] # None /\ bound[d][s].epoch = view'[d].epoch

(* A generation that no release of the section remembers: generations are  *)
(* only compared with those, so they need not grow.                        *)
NewGeneration(d, s, rs) ==
    LET known == {r.opens : r \in {x \in rs : x.client = d /\ x.section = s}}
    IN  CHOOSE n \in 1..(Cardinality(known) + 1) : n \notin known /\ (1..(n - 1)) \subseteq known

(* The lease of a section opened at the epoch of the list: one more of the *)
(* binding there is, or the first of a new one.  A binding of an earlier   *)
(* epoch is replaced, and the releases that wait for it have nothing left  *)
(* to do.                                                                  *)
OpenAfter(d, ss, rs) ==
    LET opened == [s \in ss |-> IF Current(d, s)
                                THEN [bound[d][s] EXCEPT !.opens = NewGeneration(d, s, rs)]
                                ELSE IF bound[d][s] # None THEN Heir(d, s) ELSE Fresh(d)]
    IN  /\ bound' = [bound EXCEPT ![d] = [s \in Sections |->
                        IF s \in ss THEN opened[s] ELSE @[s]]]
        /\ target' = [target EXCEPT ![d] = [s \in Sections |->
                        IF s \in ss THEN opened[s].opens ELSE @[s]]]
        /\ releases' = {r \in rs : r.client = d /\ r.section \in ss => Current(d, r.section)}

(* releaseTarget for each of the sections that has a target.               *)
Begun(d, ss) ==
    {[client |-> d, section |-> s, opens |-> target[d][s], awaits |-> bound[d][s].pending]
       : s \in {x \in ss : target[d][x] # None}}

Leaving(d, ss) == [s \in Sections |->
    IF s \in ss /\ state[d][s] # "none" THEN "releasing" ELSE state[d][s]]

(* What an aborted load already sent goes on without it.                   *)
Aborted(d, cs) == {IF c.client = d THEN [c EXCEPT !.live = FALSE] ELSE c : c \in cs}

Stop(d, cs) ==
    /\ work' = [work EXCEPT ![d] = [s \in Sections |-> "idle"]]
    /\ next' = [next EXCEPT ![d] = {}]
    /\ calls' = Aborted(d, cs)

Place == [s \in Sections |-> CHOOSE i \in 1..Len(Order) : Order[i] = s]

Between(x, y, z) ==
    \/ Place[x] < Place[y] /\ Place[y] < Place[z]
    \/ Place[z] < Place[y] /\ Place[y] < Place[x]

(* The requested section and the ones beside it in the order shown.        *)
Targets(listed, s) ==
    IF s \in listed THEN {x \in listed : ~\E y \in listed : Between(x, y, s)} ELSE {}

(* The effect that loads sections: releases the targets that are no longer *)
(* wanted and opens the selected section; its neighbours follow.           *)
Run(d, cs) ==
    LET wanted == Targets(index'[d].listed, selected'[d])
        left == {s \in Sections : target[d][s] # None} \ wanted
        first == wanted \cap {selected'[d]}
    IN  /\ OpenAfter(d, first, releases \cup Begun(d, left))
        /\ state' = [state EXCEPT ![d] = [s \in Sections |->
                       IF s \in first THEN "loading" ELSE Leaving(d, left)[s]]]
        /\ work' = [work EXCEPT ![d] = [s \in Sections |->
                       IF s \in first THEN "sync" ELSE "idle"]]
        /\ next' = [next EXCEPT ![d] = wanted \ first]
        /\ calls' = Aborted(d, cs)

(* The note is opened, or its epoch changed: every lease is released, the  *)
(* selected section is opened once more from the index there was, and the  *)
(* load of the new index stops that.                                       *)
Restart(d) ==
    LET held == {s \in Sections : target[d][s] # None}
        first == IF index[d].ready THEN {selected[d]} \cap index[d].listed ELSE {}
    IN  /\ OpenAfter(d, first, releases \cup Begun(d, held))
        /\ state' = [state EXCEPT ![d] = [s \in Sections |->
                       IF s \in first THEN "loading" ELSE Leaving(d, held)[s]]]
        /\ Stop(d, calls)
        /\ index' = [index EXCEPT ![d] = NoIndex]
        /\ indexing' = [indexing EXCEPT ![d] = Job("root")]

(* The root version changed: only the index is loaded again.               *)
Reindex(d, cs) ==
    /\ Stop(d, cs)
    /\ index' = [index EXCEPT ![d] = NoIndex]
    /\ indexing' = [indexing EXCEPT ![d] = Job("root")]
    /\ UNCHANGED <<bound, target, state, releases>>

---------------------------------------------------------------------------
(* What a device does *)

(* An event makes the device load the note again.                          *)
Reload(d) ==
    /\ d \in behind
    /\ behind' = behind \ {d}
    /\ InOrder => \A c \in calls : c.client = d => c.at # "answered"
    /\ view' = [view EXCEPT ![d] = [root |-> note.root, epoch |-> note.epoch]]
    /\ CASE ~shown[d] \/ view'[d] = view[d] -> UNCHANGED <<index, indexing, leases>>
         [] shown[d] /\ view[d].epoch # note.epoch -> Restart(d)
         [] shown[d] /\ view[d].epoch = note.epoch /\ view[d].root # note.root -> Reindex(d, calls)
    /\ UNCHANGED <<server, shown, selected, typing, counts>>

(* The root section is synchronized and the server answers the list.       *)
List(d) ==
    /\ indexing[d].at = "root"
    /\ indexing' = [indexing EXCEPT ![d] = [at |-> "listed", listed |-> Live,
                      initialized |-> {s \in Live : sect[s].init # None}]]
    /\ UNCHANGED <<server, behind, view, shown, index, selected, leases, typing, counts>>

FirstOf(listed) == CHOOSE s \in listed : \A x \in listed : Place[s] <= Place[x]

Listed(d) ==
    LET answer == indexing[d].listed IN
    /\ indexing[d].at = "listed"
    /\ indexing' = [indexing EXCEPT ![d] = Job("none")]
    /\ index' = [index EXCEPT ![d] = [ready |-> TRUE, listed |-> answer,
                                      initialized |-> indexing[d].initialized]]
    /\ selected' = [selected EXCEPT ![d] =
                      IF @ \in answer THEN @ ELSE IF answer = {} THEN None ELSE FirstOf(answer)]
    /\ view' = view
    /\ Run(d, calls)
    /\ UNCHANGED <<server, behind, shown, typing, counts>>

(* The user goes to another section.                                       *)
Select(d, s) ==
    /\ Within /\ moves < MaxMoves
    /\ shown[d] /\ index[d].ready /\ s \in index[d].listed \ {selected[d]}
    /\ selected' = [selected EXCEPT ![d] = s]
    /\ UNCHANGED <<view, index>>
    /\ Run(d, calls)
    /\ moves' = moves + 1
    /\ UNCHANGED <<server, behind, shown, indexing, typing, changes, refusals>>

(* Another note is shown: every target is released and all loads stop.     *)
Close(d) ==
    LET held == {s \in Sections : target[d][s] # None} IN
    /\ Within /\ moves < MaxMoves
    /\ shown[d]
    /\ shown' = [shown EXCEPT ![d] = FALSE]
    /\ releases' = releases \cup Begun(d, held)
    /\ state' = [state EXCEPT ![d] = Leaving(d, held)]
    /\ Stop(d, calls)
    /\ indexing' = [indexing EXCEPT ![d] = Job("none")]
    /\ moves' = moves + 1
    /\ UNCHANGED <<server, behind, view, index, selected, bound, target, typing, changes, refusals>>

Reopen(d) ==
    /\ ~shown[d]
    /\ shown' = [shown EXCEPT ![d] = TRUE]
    /\ view' = view
    /\ Restart(d)
    /\ UNCHANGED <<server, behind, selected, typing, counts>>

(* The load of a section is over; after the selected one come the others.  *)
Done(d, s, status) ==
    /\ state' = [state EXCEPT ![d] = [x \in Sections |->
                   IF x = s THEN status ELSE IF x \in next[d] THEN "loading" ELSE @[x]]]
    /\ work' = [work EXCEPT ![d] = [x \in Sections |->
                   IF x = s THEN "idle" ELSE IF x \in next[d] THEN "sync" ELSE @[x]]]
    /\ OpenAfter(d, next[d], releases)
    /\ next' = [next EXCEPT ![d] = {}]

(* The history of an open section can arrive.                              *)
Synchronizes(d, s) == s \in Live /\ bound[d][s].epoch = note.epoch

Arrived(b, d) ==
    [b EXCEPT !.synced = TRUE, !.inherited = FALSE, !.sending = @ \/ (b.inherited /\ d \in Writers)]

(* It arrives.  A writer then publishes the document of the epoch before,  *)
(* which nobody waits for.                                                 *)
Arrives(d, s) ==
    /\ bound[d][s] # None /\ ~bound[d][s].synced /\ Synchronizes(d, s)
    /\ bound' = [bound EXCEPT ![d][s] = Arrived(@, d)]
    /\ UNCHANGED <<server, list, target, state, work, next, calls, releases, typing, counts>>

Ready(d, s) ==
    /\ work[d][s] = "sync"
    /\ bound[d][s].synced
    /\ view' = view
    /\ IF s \in index[d].initialized \/ d \notin Writers
       THEN Done(d, s, "ready") /\ calls' = calls
       ELSE /\ work' = [work EXCEPT ![d][s] = "init"]
            /\ calls' = calls \cup {[client |-> d, section |-> s, at |-> "prepare",
                                     epoch |-> view[d].epoch, root |-> view[d].root, live |-> TRUE]}
            /\ UNCHANGED <<bound, target, state, next, releases>>
    /\ UNCHANGED <<server, behind, shown, index, indexing, selected, typing, counts>>

---------------------------------------------------------------------------
(* Initializing a section *)

Proceeds(c, at) == calls' = (calls \ {c}) \cup {[c EXCEPT !.at = at]}

Manifest(c) == [by |-> c.client, section |-> c.section, epoch |-> c.epoch]

(* The checkpoint of the section is encrypted; its upload is a pending     *)
(* broadcast of the binding until it is kept.                              *)
Upload == 0

Pending(b, e) == [b EXCEPT !.pending = @ \cup {e}]

Prepare(c) ==
    LET d == c.client
        s == c.section
    IN
    /\ c.at = "prepare" /\ bound[d][s] # None
    /\ bound' = [bound EXCEPT ![d][s] = Pending(@, Upload)]
    /\ Proceeds(c, "upload")
    /\ UNCHANGED <<server, list, target, state, work, next, releases, typing, counts>>

(* What is uploaded is committed.                                          *)
Commit(c) ==
    LET b == bound[c.client][c.section] IN
    /\ c.at = "upload"
    /\ b # None => Upload \notin b.pending
    /\ c.epoch = note.epoch /\ c.section \in Live
    /\ manifests' = manifests \cup {Manifest(c)}
    /\ Proceeds(c, "request")
    /\ UNCHANGED <<note, sect, inits, list, bound, target, state, work, next, releases,
                   typing, counts>>

(* Another device initializes a section that it finds not initialized.     *)
Elsewhere(d, s) ==
    /\ s \in Live /\ sect[s].init = None
    /\ \A c \in calls : c.client # d
    /\ Counted
    /\ LET c == [client |-> d, section |-> s, at |-> "request", epoch |-> note.epoch,
                 root |-> note.root, live |-> FALSE]
       IN  manifests' = manifests \cup {Manifest(c)} /\ calls' = calls \cup {c}
    /\ UNCHANGED <<note, sect, inits, list, bound, target, state, work, next, releases,
                   typing, moves, refusals>>

Existing(c) == {i \in inits : i.section = c.section /\ i.epoch = c.epoch}

Acceptable(c) ==
    /\ c.epoch = note.epoch
    /\ c.section \in Live /\ sect[c.section].created <= c.epoch

Installable(c) ==
    /\ note.root = c.root
    /\ sect[c.section].init = None
    /\ Manifest(c) \in manifests

(* Calls whose answer is followed.                                         *)
Heard == {c \in calls : c.client \in Clients}

(* The request at the server: installed, already there, or refused.        *)
Initialize(c) ==
    /\ c.at = "request"
    /\ LET answer(at) == calls' = (calls \ {c}) \cup
               {[x EXCEPT !.at = at, !.root = note.root] : x \in {c} \cap Heard}
       IN  \/ /\ Acceptable(c) /\ Existing(c) # {}
              /\ answer("answered")
              /\ UNCHANGED <<sect, inits, list>>
           \/ /\ Acceptable(c) /\ Existing(c) = {} /\ Installable(c)
              /\ inits' = inits \cup {[section |-> c.section, epoch |-> c.epoch,
                                       manifest |-> Manifest(c)]}
              /\ Notify
              /\ sect' = [sect EXCEPT ![c.section].init = Manifest(c)]
              /\ answer("answered")
           \/ /\ ~(Acceptable(c) /\ (Existing(c) # {} \/ Installable(c)))
              /\ answer("refused")
              /\ UNCHANGED <<sect, inits, list>>
    /\ UNCHANGED <<note, manifests, bound, target, state, work, next, releases,
                   typing, counts>>

AnsweredKeepsIndex(c) ==
    /\ c.at = "answered"
    /\ calls' = calls \ {c}
    /\ UNCHANGED <<server, list, bound, target, state, work, next, releases, typing, counts>>

(* The answer marks the section initialized and sets the root version of   *)
(* the list to the one answered, whatever it was.                          *)
Answered(c) ==
    LET d == c.client
        listed == [index[d] EXCEPT !.initialized = @ \cup ({c.section} \cap index[d].listed)]
    IN
    /\ c.at = "answered"
    /\ view' = [view EXCEPT ![d].root = IF @ # c.root /\ view[d].epoch = c.epoch THEN c.root ELSE @]
    /\ IF shown[d] /\ view'[d].root # view[d].root
       THEN Reindex(d, calls \ {c})
       ELSE /\ index' = [index EXCEPT ![d] = listed]
            /\ IF shown[d] /\ index[d].ready
               THEN selected' = selected /\ Run(d, calls \ {c})
               ELSE /\ calls' = calls \ {c}
                    /\ UNCHANGED <<selected, bound, target, state, work, next, releases>>
            /\ indexing' = indexing
    /\ UNCHANGED <<server, behind, shown, selected, typing, counts>>

(* A section that could not be initialized is shown with the error, unless *)
(* the load that wanted it has been stopped.                               *)
Failed(c) ==
    /\ \/ c.at = "refused"
       \/ c.at = "prepare" /\ bound[c.client][c.section] = None
       \/ c.at = "upload" /\ (c.epoch # note.epoch \/ c.section \notin Live)
    /\ calls' = calls \ {c}
    /\ view' = view
    /\ IF c.live THEN Done(c.client, c.section, "error")
       ELSE UNCHANGED <<bound, target, state, work, next, releases>>
    /\ UNCHANGED <<server, behind, shown, index, indexing, selected, typing, counts>>

---------------------------------------------------------------------------
(* Typing and releasing *)

Edited(b, e) == [b EXCEPT !.pending = @ \cup {e}, !.doc = @ \cup {e}]

Type(d, s) ==
    /\ d \in Writers /\ Within /\ edits < MaxEdits
    /\ shown[d] /\ selected[d] = s /\ state[d][s] = "ready" /\ bound[d][s] # None
    /\ edits' = edits + 1
    /\ typed' = typed \cup {edits'}
    /\ bound' = [bound EXCEPT ![d][s] = Edited(@, edits')]
    /\ UNCHANGED <<server, list, target, state, work, next, calls, releases, refused, dropped,
                   counts>>

Unkept(b, e) == [b EXCEPT !.pending = @ \ {e}]

Kept(b, e) == [b EXCEPT !.pending = @ \ {e}, !.doc = @ \ {e}]

(* A pending broadcast is kept by the outbox.                              *)
Seal(d, s, e) ==
    /\ bound[d][s] # None /\ e \in bound[d][s].pending
    /\ bound' = [bound EXCEPT ![d][s] = Kept(@, e)]
    /\ releases' = {IF r.client = d /\ r.section = s THEN [r EXCEPT !.awaits = @ \ {e}] ELSE r
                      : r \in releases}
    /\ typed' = typed \ {e}
    /\ UNCHANGED <<server, list, target, state, work, next, calls, edits, refused, dropped,
                   counts>>

Mine(r) == target[r.client][r.section] = r.opens

RefusedOnce ==
    refusals < MaxRefusals /\ refusals' = refusals + 1 /\ UNCHANGED <<changes, moves>>

(* The device's store refuses a pending broadcast.  It is pending no more, *)
(* its edit stays in the document alone, and every release that waits for  *)
(* it ends at once; an initialization whose upload it is fails.            *)
Refuse(d, s, e) ==
    LET ended == {r \in releases : r.client = d /\ r.section = s /\ e \in r.awaits}
        failed == {c \in calls : c.client = d /\ c.section = s /\ c.at = "upload" /\ e = Upload}
    IN
    /\ bound[d][s] # None /\ e \in bound[d][s].pending
    /\ RefusedOnce
    /\ bound' = [bound EXCEPT ![d][s] = Unkept(@, e)]
    /\ releases' = releases \ ended
    /\ state' = [state EXCEPT ![d][s] =
                    IF @ # "none" /\ \E r \in ended : Mine(r) THEN "error" ELSE @]
    /\ calls' = (calls \ failed) \cup {[c EXCEPT !.at = "refused"] : c \in failed}
    /\ refused' = refused \cup {e}
    /\ UNCHANGED <<server, list, target, work, next, edits, typed, dropped>>

Published(b, doc) == [b EXCEPT !.sending = FALSE, !.doc = doc]

(* The document of the epoch before is kept by the outbox.                 *)
Republish(d, s) ==
    LET b == bound[d][s] IN
    /\ b # None /\ b.sending
    /\ bound' = [bound EXCEPT ![d][s] = Published(b, {})]
    /\ typed' = typed \ b.doc
    /\ UNCHANGED <<server, list, target, state, work, next, calls, releases, edits, refused,
                   dropped, counts>>

(* Its publication fails, which nobody hears of.                           *)
RepublishFails(d, s) ==
    LET b == bound[d][s] IN
    /\ b # None /\ b.sending
    /\ RefusedOnce
    /\ bound' = [bound EXCEPT ![d][s] = Published(b, b.doc)]
    /\ refused' = refused \cup b.doc
    /\ UNCHANGED <<server, list, target, state, work, next, calls, releases, edits, typed, dropped>>

SameLeaseUnchecked(r) == TRUE

(* A release finds its binding not opened again.                           *)
SameLease(r) == bound[r.client][r.section].opens = r.opens

Destroy(r) ==
    LET d == r.client
        s == r.section
        b == bound[d][s]
    IN
    /\ bound' = [bound EXCEPT ![d][s] = None]
    /\ target' = [target EXCEPT ![d][s] = IF Mine(r) THEN None ELSE @]
    /\ state' = [state EXCEPT ![d][s] = IF Mine(r) THEN "none" ELSE @]
    /\ releases' = {o \in releases : o.client = d => o.section # s}
    /\ dropped' = dropped \cup {e \in b.doc : e \in refused \/ b.inherited \/ b.sending}
    /\ UNCHANGED <<server, list, work, next, calls, edits, typed, refused, counts>>

(* Ends without destroying the binding; a target it could not release is   *)
(* shown with the error.                                                   *)
Keep(r) ==
    /\ releases' = releases \ {r}
    /\ state' = [state EXCEPT ![r.client][r.section] =
                    IF SameLease(r) /\ Mine(r) /\ @ # "none" THEN "error" ELSE @]
    /\ UNCHANGED <<server, list, bound, target, work, next, calls, typing, counts>>

ReleaseAtOnce(r) == IF SameLease(r) THEN Destroy(r) ELSE Keep(r)

(* The broadcasts it waited for are kept: the binding is destroyed, unless *)
(* it was opened again, or has new ones.  One refused before the release   *)
(* is not among those it waits for.                                        *)
Release(r) ==
    /\ r.awaits = {}
    /\ \/ ~SameLease(r) /\ Keep(r)
       \/ SameLease(r) /\ bound[r.client][r.section].pending # {} /\ Keep(r)
       \/ SameLease(r) /\ bound[r.client][r.section].pending = {} /\ Destroy(r)

---------------------------------------------------------------------------
CallStep(c) == Prepare(c) \/ Commit(c) \/ Answered(c) \/ Failed(c)

ServerStep(d) == \E c \in calls : c.client = d /\ Initialize(c)

(* What happens on a device without its user, once it can.                 *)
ClientStep(d) ==
    \/ Reload(d) \/ List(d) \/ Listed(d)
    \/ \E s \in Sections : Arrives(d, s) \/ Ready(d, s) \/ Republish(d, s)
    \/ \E s \in Sections, e \in Upload..MaxEdits : Seal(d, s, e)
    \/ \E c \in calls : c.client = d /\ CallStep(c)
    \/ \E r \in releases : r.client = d /\ Release(r)

(* The device's store is full.                                             *)
StoreStep(d) ==
    \/ \E s \in Sections, e \in Upload..MaxEdits : Refuse(d, s, e)
    \/ \E s \in Sections : RepublishFails(d, s)

UserStep(d) ==
    \/ Close(d) \/ Reopen(d)
    \/ \E s \in Sections : Select(d, s) \/ Type(d, s)

WriterStep(d) ==
    \/ Save(d)
    \/ \E s \in Sections : Create(d, s) \/ Tombstone(d, s)

Next ==
    \/ Rotate
    \/ \E d \in Clients : ClientStep(d) \/ UserStep(d) \/ StoreStep(d)
    \/ \E d \in Writers \cup Others : WriterStep(d)
    \/ \E d \in Others, s \in Sections : Elsewhere(d, s)
    \/ \E d \in Clients \cup Others : ServerStep(d)

(* Events, histories and answers arrive; broadcasts are kept.              *)
Fairness == \A d \in Clients : WF_vars(ClientStep(d) \/ ServerStep(d))

Spec == Init /\ [][Next]_vars /\ Fairness

---------------------------------------------------------------------------
(* Properties *)

(* Every variable has the shape the code gives it.                         *)
TypeOK ==
    /\ note \in [root: Nat, epoch: Nat]
    /\ \A s \in Sections : /\ sect[s].state \in {"none", "live", "deleted"}
                          /\ sect[s].created \in Nat
                          /\ sect[s].init \in manifests \cup {None}
    /\ view \in [Clients -> [root: Nat, epoch: Nat]]
    /\ behind \subseteq Clients /\ shown \in [Clients -> BOOLEAN]
    /\ \A d \in Clients :
           /\ index[d].initialized \subseteq index[d].listed /\ index[d].listed \subseteq Sections
           /\ indexing[d].at \in {"none", "root", "listed"}
           /\ selected[d] \in Sections \cup {None}
           /\ next[d] \subseteq Sections
           /\ \A s \in Sections :
                 /\ state[d][s] \in {"none", "loading", "ready", "releasing", "error"}
                 /\ work[d][s] \in {"idle", "sync", "init"}
                 /\ (bound[d][s] = None) = (target[d][s] = None)

(* A note keeps a section, and a section is initialized once: by a         *)
(* checkpoint committed for it, whatever devices and epochs ask again      *)
(* (notes/postgresSectionRepository.ts).                                   *)
InitializedOnce ==
    /\ TypeOK
    /\ Live # {}
    /\ \A i \in inits : /\ i.manifest \in manifests /\ i.manifest.section = i.section
                       /\ i.manifest.epoch = i.epoch
                       /\ sect[i.section].init = i.manifest
    /\ \A s \in Sections : sect[s].init # None =>
           \E i \in inits : i.section = s /\ i.manifest = sect[s].init

(* What a section is shown with as loading or ready is open, with the      *)
(* lease of the last load, however late an earlier release ends            *)
(* (hooks/useSectionData.ts, realtime/crdt/sectionLifecycle.ts).           *)
ShownIsOpen ==
    \A d \in Clients, s \in Sections : state[d][s] \in {"loading", "ready"} =>
        bound[d][s] # None /\ target[d][s] = bound[d][s].opens

(* An edit that the outbox does not keep is in the document of an open     *)
(* section, unless that was released after the device's store had refused  *)
(* the edit, or before what a change of epoch left in it was published; and *)
(* an edit in a document is one that a release waits for, one refused, or   *)
(* one of those still to be published (realtime/crdt/sectionLifecycle.ts,   *)
(* state.ts, synchronization.ts).                                          *)
EditsKept ==
    /\ \A e \in typed : \/ e \in dropped
                       \/ \E d \in Clients, s \in Sections :
                              bound[d][s] # None /\ e \in bound[d][s].doc
    /\ \A d \in Clients, s \in Sections :
           \/ bound[d][s] = None \/ bound[d][s].inherited \/ bound[d][s].sending
           \/ bound[d][s].doc \subseteq bound[d][s].pending \cup refused

(* What a user expects of the release: no edit is destroyed that the       *)
(* outbox does not keep.  The code does not promise it; it tells the user  *)
(* to keep the tab open (realtime/client.ts).                              *)
NothingDropped == dropped = {}

(* Whatever is saved, created, removed, initialized and rotated meanwhile, *)
(* every device that shows the note comes to list its sections and to show *)
(* the selected one, or that it could not be initialized for want of local *)
(* space (hooks/useSectionData.ts).                                        *)
SectionsShown ==
    []<>(\A d \in Clients : shown[d] =>
            /\ index[d].ready /\ index[d].listed = Live
            /\ selected[d] \in Live
            /\ state[d][selected[d]] \in
                  {"ready"} \cup IF Upload \in refused THEN {"error"} ELSE {})

=============================================================================
