---------------------------- MODULE NoteAutosave ----------------------------
(***************************************************************************)
(* A client's list of notes and the saves of what its user changes in it.  *)
(* Changes wait half a second and are saved one note at a time, each save  *)
(* carrying the version the list had when it began; a refused save loads   *)
(* the list again and puts the user's draft back over it.  Meanwhile other *)
(* clients of the same user change, trash and file the same notes, and     *)
(* events make this client load the list again.                            *)
(*                                                                         *)
(* What is saved of a note is here its folder: titles go through the same  *)
(* requests, but are kept from overlapping loads by the note's document.   *)
(***************************************************************************)
EXTENDS Integers, FiniteSets, Sequences, SequencesExt

CONSTANTS
  Notes,
  InitialNotes,  \* those that exist at first
  Folders,
  ParentOf,      \* the folder each is in, or NoFolder
  NoFolder,      \* a note in no folder
  Unfiles,       \* may the user take a note out of its folder?
  MaxElsewhere,  \* bound on what other clients do
  MaxEdits,      \* bound on what the user does
  MaxReloads     \* bound on loads that events ask for

Places == Folders \union {NoFolder}

ASSUME NotesAssumption ==
  /\ InitialNotes \subseteq Notes /\ Notes # {}
  /\ ParentOf \in [Folders -> Places] /\ NoFolder \notin Folders
  /\ "settled" \notin Places
ASSUME BoundsAssumption ==
  /\ MaxElsewhere \in Nat /\ MaxEdits \in Nat /\ MaxReloads \in Nat
  /\ Unfiles \in BOOLEAN

VARIABLES
  folders,  \* the server's folders
  row,      \* its notes, trashed ones included
  list,     \* the client's list: the notes in it
  pending,  \* notes to save, first come first
  timer,    \* is the half second running?
  save,     \* inFlightNoteId and how far its save is
  issues,   \* notes with a conflict or a failure the user is told of
  action,   \* a move, a trashing or a creation under way
  loads,    \* loads of the list: after a conflict, and for events
  newest,   \* the one begun last
  wish,     \* where the user last put a note, until that is settled
  disturbed,\* notes a load was shown over while they had a wish
  foreign,  \* the version others last saved of a note
  seen,     \* and the last such version the list showed
  edits, elsewhere, reloads

serverVars == <<folders, row, foreign, elsewhere>>
loadVars == <<loads, newest, reloads>>
ghosts == <<wish, disturbed, seen>>
vars == <<folders, row, list, pending, timer, save, issues, action, loads,
          newest, wish, disturbed, foreign, seen, edits,
          elsewhere, reloads>>

Rows == [folder : Places, version : Nat, trashed : BOOLEAN]

(* version is the one of the last load; rootVersion is advanced by the     *)
(* answers to the client's own saves as well.                              *)
Entries == [folder : Places, version : Nat, rootVersion : Nat]
IsList(l) == DOMAIN l \subseteq Notes /\ l \in [DOMAIN l -> Entries]
NoEntry == [folder |-> NoFolder, version |-> 0, rootVersion |-> 0]

Idle == [note |-> CHOOSE n \in Notes : TRUE, stage |-> "idle", copy |-> NoEntry,
         drafts |-> << >>]
NoAction == [kind |-> "none", note |-> CHOOSE n \in Notes : TRUE,
             previous |-> NoFolder]
NoLoad == [state |-> "none", initial |-> {}, answer |-> << >>]

Stages == {"idle", "missing", "encrypting", "sent", "saved", "refused", "failed",
           "resolving"}
Kinds == {"none", "move", "trash", "deleting", "deleted", "create", "created"}
LoadKinds == {"conflict", "events"}

(* The note is to be saved, or is being.                                   *)
Awaited(n) == Contains(pending, n) \/ (save.note = n /\ save # Idle)

TypeOK ==
  /\ folders \subseteq Folders
  /\ DOMAIN row \subseteq Notes /\ row \in [DOMAIN row -> Rows]
  /\ IsList(list)
  /\ pending \in Seq(Notes) /\ IsInjective(pending)
  /\ timer => pending # << >> /\ save = Idle
  /\ save.note \in Notes /\ save.stage \in Stages /\ save.copy \in Entries
  /\ save.stage = "idle" => pending = << >> \/ timer
  /\ DOMAIN save.drafts \subseteq Notes
  /\ issues \subseteq Notes
  /\ action.kind \in Kinds /\ action.previous \in Places
  /\ action.kind \in {"move", "trash"} =>
       Awaited(action.note)
  /\ \A k \in LoadKinds : /\ loads[k].state \in {"none", "asked", "answered"}
                          /\ loads[k].initial \subseteq Notes
                          /\ IsList(loads[k].answer)
  /\ save.stage = "resolving" <=> loads["conflict"].state # "none"
  /\ newest \in LoadKinds
  /\ wish \in [Notes -> Places \union {"settled"}]
  /\ disturbed \subseteq Notes
  /\ foreign \in [Notes -> Nat] /\ seen \in [Notes -> Nat]
  /\ edits \in 0..MaxEdits /\ elsewhere \in 0..MaxElsewhere
  /\ reloads \in 0..MaxReloads

Init ==
  /\ folders = Folders
  /\ row = [n \in InitialNotes |->
              [folder |-> NoFolder, version |-> 1, trashed |-> FALSE]]
  /\ list = [n \in InitialNotes |->
               [folder |-> row[n].folder, version |-> 1, rootVersion |-> 1]]
  /\ pending = << >> /\ timer = FALSE /\ save = Idle /\ issues = {}
  /\ action = NoAction
  /\ loads = [k \in LoadKinds |-> NoLoad] /\ newest = "events"
  /\ wish = [n \in Notes |-> "settled"] /\ disturbed = {}
  /\ foreign = [n \in Notes |-> 0] /\ seen = [n \in Notes |-> 0]
  /\ edits = 0 /\ elsewhere = 0 /\ reloads = 0

With(l, n, e) == [m \in DOMAIN l \union {n} |-> IF m = n THEN e ELSE l[m]]
Without(l, n) == [m \in DOMAIN l \ {n} |-> l[m]]
Put(l, n, p) == [l EXCEPT ![n].folder = p]

-----------------------------------------------------------------------------
(* The server.  A save must carry the note's version; no folder means the  *)
(* folder it has.                                                          *)

AcceptsAnyVersion(n, copy) == n \in DOMAIN row /\ ~row[n].trashed

Accepts(n, copy) ==
  n \in DOMAIN row /\ ~row[n].trashed /\ row[n].version = copy.rootVersion

FolderAfter(n, copy) ==
  IF copy.folder = NoFolder THEN row[n].folder ELSE copy.folder

Stored(n, copy) ==
  [row EXCEPT ![n].folder = FolderAfter(n, copy), ![n].version = @ + 1]

ActsElsewhere == elsewhere < MaxElsewhere /\ elsewhere' = elsewhere + 1

SaveElsewhere(n, p) ==
  /\ ActsElsewhere
  /\ n \in DOMAIN row /\ ~row[n].trashed
  /\ p \in folders
  /\ row' = Stored(n, [folder |-> p, rootVersion |-> row[n].version])
  /\ foreign' = [foreign EXCEPT ![n] = row[n].version + 1]
  /\ UNCHANGED <<folders, list, pending, timer, save, issues, action, loadVars,
                 ghosts, edits>>

TrashElsewhere(n) ==
  /\ ActsElsewhere
  /\ n \in DOMAIN row /\ ~row[n].trashed
  /\ row' = [row EXCEPT ![n].trashed = TRUE]
  /\ UNCHANGED <<folders, list, pending, timer, save, issues, action, loadVars,
                 ghosts, foreign, edits>>

(* Notes in a deleted folder move to its parent, their versions unchanged. *)
DeleteFolderElsewhere(f) ==
  /\ ActsElsewhere
  /\ f \in folders
  /\ folders' = folders \ {f}
  /\ row' = [n \in DOMAIN row |->
       [row[n] EXCEPT !.folder = IF @ = f THEN ParentOf[f] ELSE @]]
  /\ UNCHANGED <<list, pending, timer, save, issues, action, loadVars, ghosts,
                 foreign, edits>>

-----------------------------------------------------------------------------
(* The queue of saves.  A flush takes the first note that waits and copies *)
(* its entry of the list l.                                                *)

Flush(queue, l, told) ==
  IF queue = << >>
  THEN pending' = queue /\ save' = Idle /\ issues' = told
  ELSE LET n == Head(queue) IN
       /\ pending' = Tail(queue)
       /\ save' = [note |-> n, drafts |-> << >>,
                   stage |-> IF n \in DOMAIN l THEN "encrypting" ELSE "missing",
                   copy |-> IF n \in DOMAIN l THEN l[n] ELSE NoEntry]
       /\ issues' = IF n \in DOMAIN l THEN told \ {n} ELSE told

Queued(n) == IF Contains(pending, n) THEN pending ELSE Append(pending, n)

Schedule(n) ==
  /\ pending' = Queued(n)
  /\ timer' = (save = Idle)
  /\ UNCHANGED <<save, issues>>

(* While a conflict is resolved, what the user changes is not in a draft.  *)
Wished(n, p) ==
  /\ wish' = [wish EXCEPT ![n] = p]
  /\ disturbed' = IF save.stage = "resolving" THEN disturbed \union {n}
                  ELSE disturbed
  /\ UNCHANGED seen

Acts == edits < MaxEdits /\ edits' = edits + 1

(* updateSelectedNote: another folder, or another title.                   *)
Edit(n, p) ==
  /\ n \in DOMAIN list /\ p \in Folders \union (IF Unfiles THEN {NoFolder} ELSE {})
  /\ p # list[n].folder
  /\ Acts
  /\ list' = Put(list, n, p)
  /\ Schedule(n)
  /\ Wished(n, p)
  /\ UNCHANGED <<serverVars, action, loadVars>>

Retitle(n) ==
  /\ n \in DOMAIN list
  /\ Acts
  /\ Schedule(n)
  /\ UNCHANGED <<serverVars, list, action, loadVars, ghosts>>

(* drainAutosave: save what waits at once.                                 *)
Drain(queue, l) ==
  /\ timer' = FALSE
  /\ IF save = Idle THEN Flush(queue, l, issues)
     ELSE pending' = queue /\ UNCHANGED <<save, issues>>

Move(n, p) ==
  /\ action = NoAction /\ n \in DOMAIN list
  /\ p \in Folders \union (IF Unfiles THEN {NoFolder} ELSE {})
  /\ p # list[n].folder
  /\ Acts
  /\ list' = Put(list, n, p)
  /\ Drain(Queued(n), list')
  /\ action' = [kind |-> "move", note |-> n, previous |-> list[n].folder]
  /\ Wished(n, p)
  /\ UNCHANGED <<serverVars, loadVars>>

Trash(n) ==
  /\ action = NoAction /\ n \in DOMAIN list
  /\ Acts
  /\ Drain(pending, list)
  /\ action' = IF Awaited(n)'
               THEN [NoAction EXCEPT !.kind = "trash", !.note = n]
               ELSE IF n \in issues' THEN NoAction
               ELSE [NoAction EXCEPT !.kind = "deleting", !.note = n]
  /\ UNCHANGED <<serverVars, list, loadVars, ghosts>>

TimerFires ==
  /\ timer /\ timer' = FALSE
  /\ Flush(pending, list, issues)
  /\ UNCHANGED <<serverVars, list, action, loadVars, ghosts, edits>>

(* What an action that waited for a save does with its result.             *)
AfterSave(result, l) ==
  /\ action' = IF action.kind = "trash" /\ result = "saved"
               THEN [action EXCEPT !.kind = "deleting"] ELSE NoAction
  /\ list' = IF /\ action.kind = "move" /\ result \in {"conflict", "failed"}
                /\ action.note \in DOMAIN l
             THEN Put(l, action.note, action.previous) ELSE l

Remaining(result) ==
  IF result = "conflict" THEN RemoveFirst(pending, save.note) ELSE pending

FinishAlone(result, l, told) ==
  LET n == save.note
      queue == Remaining(result)
  IN /\ IF /\ action.kind \in {"move", "trash"} /\ action.note = n
           /\ ~Contains(queue, n)
        THEN AfterSave(result, l)
        ELSE list' = l /\ UNCHANGED action
     /\ pending' = queue /\ save' = Idle /\ issues' = told
     /\ timer' = FALSE

(* The end of flushAutosave.                                               *)
Finish(result, l, told) ==
  LET n == save.note
      queue == Remaining(result)
  IN /\ IF /\ action.kind \in {"move", "trash"} /\ action.note = n
           /\ ~Contains(queue, n)
        THEN AfterSave(result, l)
        ELSE list' = l /\ UNCHANGED action
     /\ Flush(queue, list', told)
     /\ timer' = FALSE

(* isCurrentNoteOperation *)
Current ==
  LET n == save.note IN
  /\ n \in DOMAIN list
  /\ list[n].version = save.copy.version
  /\ list[n].rootVersion = save.copy.rootVersion

Skip ==
  /\ \/ save.stage = "missing"
     \/ save.stage \in {"encrypting", "saved", "refused", "failed"} /\ ~Current
  /\ Finish("skipped", list, issues)
  /\ UNCHANGED <<serverVars, loadVars, ghosts, edits>>

Send ==
  /\ save.stage = "encrypting" /\ Current
  /\ save' = [save EXCEPT !.stage = "sent"]
  /\ UNCHANGED <<serverVars, list, pending, timer, issues, action, loadVars,
                 ghosts, edits>>

Settled(n, p) == IF wish[n] = p THEN [wish EXCEPT ![n] = "settled"] ELSE wish

(* updateProtected *)
Store ==
  LET n == save.note IN
  /\ save.stage = "sent"
  /\ IF Accepts(n, save.copy)
     THEN IF save.copy.folder \in folders \union {NoFolder}
          THEN /\ row' = Stored(n, save.copy)
               /\ wish' = Settled(n, row'[n].folder)
               /\ save' = [save EXCEPT !.stage = "saved"]
          ELSE save' = [save EXCEPT !.stage = "failed"] /\ UNCHANGED <<row, wish>>
     ELSE save' = [save EXCEPT !.stage = "refused"] /\ UNCHANGED <<row, wish>>
  /\ UNCHANGED <<folders, foreign, elsewhere, list, pending, timer, issues, action, loadVars,
                 disturbed, seen, edits>>

(* The request or its answer is lost.                                      *)
Lose ==
  /\ save.stage \in {"sent", "saved"}
  /\ save' = [save EXCEPT !.stage = "failed"]
  /\ UNCHANGED <<serverVars, list, pending, timer, issues, action, loadVars,
                 ghosts, edits>>

Saved ==
  /\ save.stage = "saved" /\ Current
  /\ Finish("saved",
            [list EXCEPT ![save.note].rootVersion = save.copy.rootVersion + 1],
            issues \ {save.note})
  /\ UNCHANGED <<serverVars, loadVars, ghosts, edits>>

Told(n) == wish' = [wish EXCEPT ![n] = "settled"]

Fail ==
  /\ save.stage = "failed" /\ Current
  /\ Finish("failed", list, issues \union {save.note})
  /\ Told(save.note)
  /\ UNCHANGED <<serverVars, loadVars, disturbed, seen, edits>>

-----------------------------------------------------------------------------
(* Loads of the list. *)

BeginLoad(k) ==
  /\ loads' = [loads EXCEPT ![k] =
       [state |-> "asked", initial |-> DOMAIN list, answer |-> << >>]]
  /\ newest' = k

Answer(k) ==
  LET listed == {n \in DOMAIN row : ~row[n].trashed} IN
  /\ loads[k].state = "asked"
  /\ loads' = [loads EXCEPT ![k].state = "answered",
       ![k].answer = [n \in listed |->
         [folder |-> row[n].folder, version |-> row[n].version,
          rootVersion |-> row[n].version]]]
  /\ UNCHANGED <<serverVars, list, pending, timer, save, issues, action, newest,
                 reloads, ghosts, edits>>

(* A load begun later makes this one void; notes added since it began stay. *)
Loaded(k) ==
  LET answer == loads[k].answer
      added == DOMAIN list \ (loads[k].initial \union DOMAIN answer)
  IN IF newest # k THEN list
     ELSE [n \in DOMAIN answer \union added |->
             IF n \in added THEN list[n] ELSE answer[n]]

Noticed(k) ==
  seen' = [n \in Notes |->
             IF newest = k /\ n \in DOMAIN loads[k].answer
                /\ loads[k].answer[n].version >= foreign[n]
             THEN foreign[n] ELSE seen[n]]

Gone(l) == {n \in Notes : n \in DOMAIN list /\ n \notin DOMAIN l}

Reload ==
  /\ loads["events"].state = "none" /\ reloads < MaxReloads
  /\ reloads' = reloads + 1
  /\ BeginLoad("events")
  /\ UNCHANGED <<serverVars, list, pending, timer, save, issues, action, ghosts,
                 edits>>

ShowReload ==
  /\ loads["events"].state = "answered"
  /\ list' = Loaded("events")
  /\ Noticed("events")
  /\ disturbed' = disturbed \union {n \in Notes : wish[n] # "settled"}
  /\ wish' = [n \in Notes |-> IF n \in Gone(list') THEN "settled" ELSE wish[n]]
  /\ loads' = [loads EXCEPT !["events"] = NoLoad]
  /\ UNCHANGED <<serverVars, pending, timer, save, issues, action, newest,
                 reloads, edits>>

(* A folder was deleted elsewhere: the event takes notes out of it.        *)
DropFolder(f) ==
  /\ f \notin folders /\ \E n \in DOMAIN list : list[n].folder = f
  /\ list' = [n \in DOMAIN list |->
       IF list[n].folder = f THEN [list[n] EXCEPT !.folder = NoFolder] ELSE list[n]]
  /\ wish' = [n \in Notes |-> IF wish[n] = f THEN "settled" ELSE wish[n]]
  /\ UNCHANGED <<serverVars, pending, timer, save, issues, action, loadVars,
                 disturbed, seen, edits>>

ResolveOwnDraft ==
  /\ save.stage = "refused" /\ Current
  /\ save' = [save EXCEPT !.stage = "resolving",
       !.drafts = [n \in {save.note} |-> list[n].folder]]
  /\ BeginLoad("conflict")
  /\ UNCHANGED <<serverVars, list, pending, timer, issues, action, reloads,
                 ghosts, edits>>

(* preserveDraftAfterSaveConflict: keep the drafts, load, put them back.   *)
(* When the note itself is gone, the other drafts are not put back.        *)
Resolve ==
  /\ save.stage = "refused" /\ Current
  /\ save' = [save EXCEPT !.stage = "resolving",
       !.drafts = [n \in {save.note} \union (ToSet(pending) \intersect DOMAIN list)
                     |-> list[n].folder]]
  /\ BeginLoad("conflict")
  /\ UNCHANGED <<serverVars, list, pending, timer, issues, action, reloads,
                 ghosts, edits>>

Redrafted(l) ==
  [n \in DOMAIN l |->
     IF n \in DOMAIN save.drafts /\ save.note \in DOMAIN l
     THEN [l[n] EXCEPT !.folder = save.drafts[n]] ELSE l[n]]

Conflict ==
  /\ loads["conflict"].state = "answered"
  /\ Finish("conflict", Redrafted(Loaded("conflict")), issues \union {save.note})
  /\ Noticed("conflict")
  /\ wish' = [n \in Notes |->
       IF n = save.note \/ n \in Gone(list') THEN "settled" ELSE wish[n]]
  /\ disturbed' = IF save.note \in DOMAIN Loaded("conflict") THEN disturbed
                  ELSE disturbed \union DOMAIN save.drafts
  /\ loads' = [loads EXCEPT !["conflict"] = NoLoad]
  /\ UNCHANGED <<serverVars, newest, reloads, edits>>

FailToLoad(k) ==
  /\ loads[k].state = "asked"
  /\ loads' = [loads EXCEPT ![k] = NoLoad]
  /\ IF k = "conflict"
     THEN Finish("failed", list, issues \union {save.note}) /\ Told(save.note)
     ELSE UNCHANGED <<list, pending, timer, save, issues, action, wish>>
  /\ UNCHANGED <<serverVars, newest, reloads, disturbed, seen, edits>>

-----------------------------------------------------------------------------
(* Trashing and creating. *)

DeleteNote ==
  LET n == action.note IN
  /\ action.kind = "deleting"
  /\ IF n \in DOMAIN row
     THEN row' = [row EXCEPT ![n].trashed = TRUE]
     ELSE UNCHANGED row
  /\ action' = [action EXCEPT !.kind = "deleted"]
  /\ UNCHANGED <<folders, foreign, elsewhere, list, pending, timer, save, issues, loadVars,
                 ghosts, edits>>

Trashed ==
  /\ action.kind = "deleted"
  /\ list' = Without(list, action.note)
  /\ wish' = [wish EXCEPT ![action.note] = "settled"]
  /\ action' = NoAction
  /\ UNCHANGED <<serverVars, pending, timer, save, issues, loadVars, disturbed,
                 seen, edits>>

(* In the folder that is open: here, in none.                              *)
CreateNote(n) ==
  /\ action = NoAction /\ n \notin DOMAIN row
  /\ Acts
  /\ row' = With(row, n, [folder |-> NoFolder, version |-> 1, trashed |-> FALSE])
  /\ action' = [NoAction EXCEPT !.kind = "created", !.note = n]
  /\ UNCHANGED <<folders, foreign, elsewhere, list, pending, timer, save, issues, loadVars,
                 ghosts>>

(* The answer: a new load makes those under way void.                      *)
Created ==
  LET n == action.note IN
  /\ action.kind = "created"
  /\ BeginLoad("events")
  /\ list' = With(list, n, [folder |-> NoFolder, version |-> 1, rootVersion |-> 1])
  /\ disturbed' = IF wish[n] = "settled" THEN disturbed ELSE disturbed \union {n}
  /\ action' = NoAction
  /\ UNCHANGED <<serverVars, pending, timer, save, issues, reloads, wish, seen,
                 edits>>
-----------------------------------------------------------------------------
Others ==
  \/ \E n \in Notes, p \in Folders : SaveElsewhere(n, p)
  \/ \E n \in Notes : TrashElsewhere(n)
  \/ \E f \in Folders : DeleteFolderElsewhere(f)

User ==
  \/ \E n \in Notes, p \in Places : Edit(n, p) \/ Move(n, p)
  \/ \E n \in Notes : Retitle(n) \/ Trash(n) \/ CreateNote(n)

Saving ==
  \/ TimerFires \/ Skip \/ Send \/ Store \/ Saved \/ Fail \/ Resolve \/ Conflict
  \/ FailToLoad("conflict") \/ Answer("conflict")

Listing == Answer("events") \/ ShowReload \/ \E f \in Folders : DropFolder(f)

Acting == DeleteNote \/ Trashed \/ Created

Next ==
  \/ Others \/ User \/ Saving \/ Listing \/ Acting
  \/ Reload \/ FailToLoad("events") \/ Lose

Spec == Init /\ [][Next]_vars

(* Timers fire and requests are answered or fail.                          *)
FairSpec == Spec /\ WF_vars(Saving) /\ WF_vars(Listing) /\ WF_vars(Acting)

-----------------------------------------------------------------------------
(* A save of this client is stored only over versions of others its list   *)
(* has shown: nobody's change is overwritten unseen, whatever loads, saves *)
(* and conflicts overlap.                                                  *)
StoresOverSeen ==
  [][\A n \in Notes :
       n \in DOMAIN row /\ save.stage = "sent" /\ save.note = n
       /\ save'.stage = "saved" => foreign[n] <= seen[n]]_vars

(* Where the user put a note stays on the list and is going to be saved,   *)
(* or is being, until it is stored or the user is told; except when a load *)
(* of the list was shown over it.                                          *)
WishesKept ==
  /\ TypeOK
  /\ \A n \in Notes \ disturbed :
       wish[n] # "settled" =>
         n \in DOMAIN list /\ list[n].folder = wish[n] /\ Awaited(n)

(* A conflict of one note leaves the drafts of notes that wait behind it.  *)
QueuedDraftsKept ==
  [][save.stage = "resolving" /\ save'.stage # "resolving" =>
       \A n \in DOMAIN save.drafts \intersect DOMAIN list' :
         n # save.note => list'[n].folder = save.drafts[n]]_vars

(* In the end everything is saved, refused or given up, and no action      *)
(* waits for a save for ever.                                              *)
SavesSettle == <>[](pending = << >> /\ save = Idle /\ action = NoAction)
=============================================================================
