--------------------------- MODULE SectionHistory ---------------------------
(***************************************************************************)
(* The server's encrypted history of one section of one note: the table    *)
(* section_updates, the section's sequence counter, and the four           *)
(* transactions that touch them (persist, list, manifest commit, and the   *)
(* note-level changes of access, epoch and deletion that fence them).      *)
(* Each action is one PostgreSQL transaction; the row locks the code takes *)
(* (note and membership FOR UPDATE, then the section) serialise them.      *)
(*                                                                         *)
(* An update is a model value and its ciphertext is the set of edits it    *)
(* carries: an ordinary update carries itself, a checkpoint carries the    *)
(* document its author encoded.  A header stays in the author's outbox, so *)
(* it may be sent any number of times, early, late, or after a lost        *)
(* acknowledgement.  A rejected request changes nothing and is no step.    *)
(* Sessions may be invalid at any time; a request without one is rejected. *)
(***************************************************************************)
EXTENDS Integers, FiniteSets

CONSTANTS
  Users,        \* accounts
  Owner,        \* the note's owner
  Readers,      \* the accounts with a client that reads the section
  UpdateIds,    \* identifiers of updates and checkpoints
  LargeIds,     \* those too large for a realtime frame: content uploads
  None,         \* "no header composed yet"
  MaxEpoch,     \* bound on key rotations
  MaxSequence,  \* bound on accepted rows
  MaxItems      \* historyPageMaxItems

ASSUME OwnerAssumption == Owner \in Users
ASSUME ReadersAssumption == Readers \subseteq Users
ASSUME BoundsAssumption ==
  /\ MaxEpoch \in Nat \ {0}
  /\ MaxSequence \in Nat
  /\ MaxItems \in Nat \ {0}

VARIABLES
  access,      \* [Users -> Roles]: role of the active membership, or "none"
  note,        \* [keyEpoch, isDeleted]
  section,     \* [currentSequence, isDeleted]
  header,      \* [UpdateIds -> Headers or None]: what the outboxes hold
  rows,        \* section_updates
  manifests,   \* updates with a committed content manifest
  accepted,    \* history variable: every row ever inserted
  reader       \* [Readers -> position and content of a paging client]

vars ==
  <<access, note, section, header, rows, manifests, accepted, reader>>

noteVars == <<access, note>>
logVars  == <<section, rows, manifests, accepted>>

Roles    == {"none", "viewer", "editor", "owner"}
Epochs   == 1..MaxEpoch

(* CrdtBinaryHeader plus the edits inside the ciphertext.  An update that  *)
(* is not a checkpoint has no cutoff in the code and 0 here: both delete   *)
(* nothing.                                                                *)
Headers ==
  [user : Users, epoch : Epochs, cutoff : 0..MaxSequence,
   content : SUBSET UpdateIds]

Rows ==
  [updateId : UpdateIds, sequence : 1..MaxSequence, epoch : Epochs,
   content : SUBSET UpdateIds]

TypeOK ==
  /\ access \in [Users -> Roles]
  /\ note \in [keyEpoch : Epochs, isDeleted : BOOLEAN]
  /\ section \in [currentSequence : 0..MaxSequence, isDeleted : BOOLEAN]
  /\ header \in [UpdateIds -> Headers \union {None}]
  /\ rows \subseteq Rows
  /\ manifests \subseteq UpdateIds
  /\ accepted \subseteq Rows
  /\ reader \in [Readers -> [epoch : 0..MaxEpoch, after : 0..MaxSequence,
                             got : SUBSET UpdateIds, known : SUBSET UpdateIds]]

(* A reader that has read nothing of an epoch; 0 is no epoch at all. *)
Start(epoch) == [epoch |-> epoch, after |-> 0, got |-> {}, known |-> {}]

Init ==
  /\ access = [u \in Users |-> IF u = Owner THEN "owner" ELSE "none"]
  /\ note = [keyEpoch |-> 1, isDeleted |-> FALSE]
  /\ section = [currentSequence |-> 0, isDeleted |-> FALSE]
  /\ header = [u \in UpdateIds |-> None]
  /\ rows = {}
  /\ manifests = {}
  /\ accepted = {}
  /\ reader = [c \in Readers |-> Start(0)]

-----------------------------------------------------------------------------
(* What clients compose.  A client works in the epoch it knows, which may  *)
(* be behind the note's, and with the role it knows, which may be stale.   *)
(* A request composed after its author lost access is like one composed    *)
(* before and sent late, because the author has seen nothing since; one    *)
(* composed after the section is gone can never be stored.                 *)

ContentOf(records) == UNION {r.content : r \in records}

(* The accepted rows of an epoch up to a sequence. *)
AcceptedThrough(epoch, cutoff) ==
  {a \in accepted : a.epoch = epoch /\ a.sequence <= cutoff}

Compose(id, h) ==
  /\ header[id] = None
  /\ access[h.user] # "none"
  /\ ~section.isDeleted
  /\ header' = [header EXCEPT ![id] = h]
  /\ UNCHANGED <<noteVars, logVars, reader>>

(* broadcastUpdate: one edit, encrypted under the epoch of the binding. *)
ComposeUpdate(id, user, epoch) ==
  /\ epoch <= note.keyEpoch
  /\ Compose(id, [user |-> user, epoch |-> epoch, cutoff |-> 0,
                  content |-> {id}])

(* broadcastCheckpoint, by a client that has applied everything up to the  *)
(* cutoff it names.  SectionSync examines when clients meet this contract. *)
ComposeCheckpoint(id, user, epoch, cutoff) ==
  /\ epoch <= note.keyEpoch
  /\ cutoff <= section.currentSequence
  /\ Compose(id, [user |-> user, epoch |-> epoch, cutoff |-> cutoff,
                  content |-> ContentOf(AcceptedThrough(epoch, cutoff))])

-----------------------------------------------------------------------------
(* The server's transactions. *)

(* Faulty: the epoch of the header is not compared with the note's. *)
MayWriteAnyEpoch(h) ==
  /\ access[h.user] \in {"owner", "editor"}
  /\ ~note.isDeleted
  /\ ~section.isDeleted

(* The access and epoch checks shared by persist and commit. *)
MayWrite(h) ==
  /\ access[h.user] \in {"owner", "editor"}
  /\ ~note.isDeleted
  /\ h.epoch = note.keyEpoch
  /\ ~section.isDeleted

(* Faulty: the row after the cutoff is deleted too. *)
CompactedPastCutoff(h) ==
  {r \in rows : r.epoch = h.epoch /\ h.cutoff > 0 /\ r.sequence <= h.cutoff + 1}

(* Faulty: the rows of other epochs are deleted too. *)
CompactedInEveryEpoch(h) == {r \in rows : r.sequence <= h.cutoff}

(* The rows a stored checkpoint deletes. *)
Compacted(h) ==
  {r \in rows : r.epoch = h.epoch /\ r.sequence <= h.cutoff}

(* Insert the row at the next sequence, advance the counter, compact. *)
InsertRow(id, h) ==
  LET row == [updateId |-> id, sequence |-> section.currentSequence + 1,
              epoch |-> h.epoch, content |-> h.content]
  IN  /\ section.currentSequence < MaxSequence
      /\ rows' = (rows \ Compacted(h)) \union {row}
      /\ accepted' = accepted \union {row}
      /\ section' = [section EXCEPT !.currentSequence = @ + 1]

Stored(id) == \E r \in rows : r.updateId = id

(* A binary frame.  An update whose row is present is only acknowledged;   *)
(* one whose row was compacted away is stored again.                       *)
Persist(id) ==
  LET h == header[id]
  IN  /\ h # None
      /\ id \notin LargeIds
      /\ MayWrite(h)
      /\ h.cutoff <= section.currentSequence
      /\ ~Stored(id)
      /\ InsertRow(id, h)
      /\ UNCHANGED <<noteVars, header, manifests, reader>>

(* The commit of a completely uploaded content manifest.  The manifest row *)
(* outlives compaction, so a repeated commit never appends again.          *)
CommitManifest(id) ==
  LET h == header[id]
  IN  /\ h # None
      /\ id \in LargeIds
      /\ MayWrite(h)
      /\ id \notin manifests
      /\ h.cutoff <= section.currentSequence
      /\ ~Stored(id)
      /\ InsertRow(id, h)
      /\ manifests' = manifests \union {id}
      /\ UNCHANGED <<noteVars, header, reader>>

(* Invite, role change and revocation by the owner. *)
ChangeAccess(user, role) ==
  /\ user # Owner
  /\ role \in Roles \ {"owner"}
  /\ access[user] # role
  /\ access' = [access EXCEPT ![user] = role]
  /\ UNCHANGED <<note, logVars, header, reader>>

(* Linked rotation: one member is revoked and the epoch advances. *)
Rotate(user) ==
  /\ ~note.isDeleted
  /\ user # Owner
  /\ access[user] # "none"
  /\ note.keyEpoch < MaxEpoch
  /\ access' = [access EXCEPT ![user] = "none"]
  /\ note' = [note EXCEPT !.keyEpoch = @ + 1]
  /\ UNCHANGED <<logVars, header, reader>>

(* Trash and restore. *)
SetDeleted(deleted) ==
  /\ note.isDeleted # deleted
  /\ note' = [note EXCEPT !.isDeleted = deleted]
  /\ UNCHANGED <<access, logVars, header, reader>>

(* The section is deleted for good; the note keeps at least one other. *)
Tombstone ==
  /\ ~note.isDeleted
  /\ ~section.isDeleted
  /\ section' = [section EXCEPT !.isDeleted = TRUE]
  /\ UNCHANGED <<noteVars, header, rows, manifests, accepted, reader>>

-----------------------------------------------------------------------------
(* Paged reads. *)

CanRead(c) == access[c] # "none"

Visible(epoch, after) ==
  {r \in rows : r.epoch = epoch /\ r.sequence > after}

(* A fresh binding subscribes in the note's epoch after sequence 0. *)
OpenReader(c) ==
  /\ CanRead(c)
  /\ ~section.isDeleted
  /\ reader' = [reader EXCEPT ![c] = Start(note.keyEpoch)]
  /\ UNCHANGED <<noteVars, logVars, header>>

Subscribable(c) ==
  /\ CanRead(c)
  /\ reader[c].epoch = note.keyEpoch
  /\ ~section.isDeleted

(* Faulty: nextSequence is the section's counter. *)
TurnedToCounter(c, visible, last) ==
  LET page == {r \in visible : r.sequence <= last.sequence}
      got == reader[c].got \union ContentOf(page)
  IN  [epoch |-> reader[c].epoch, after |-> section.currentSequence, got |-> got,
       known |-> IF page # visible THEN reader[c].known ELSE got]

(* The reader after a page that ends with the row last. *)
Turned(c, visible, last) ==
  LET page == {r \in visible : r.sequence <= last.sequence}
      hasMore == page # visible
      got == reader[c].got \union ContentOf(page)
  IN  [epoch |-> reader[c].epoch, after |-> last.sequence, got |-> got,
       known |-> IF hasMore THEN reader[c].known ELSE got]

(* A page of entries: the visible rows up to its last one, which becomes   *)
(* nextSequence.  At most MaxItems of them; the byte limit may end a page  *)
(* after any entry but never before the first.  When nothing is visible    *)
(* the page is empty and tells the client only what it already knows.      *)
ReadPage(c) ==
  /\ Subscribable(c)
  /\ LET visible == Visible(reader[c].epoch, reader[c].after)
     IN  \E last \in visible :
           /\ Cardinality({r \in visible : r.sequence <= last.sequence}) <= MaxItems
           /\ reader' = [reader EXCEPT ![c] = Turned(c, visible, last)]
  /\ UNCHANGED <<noteVars, logVars, header>>

-----------------------------------------------------------------------------

Next ==
  \/ \E id \in UpdateIds, user \in Users, epoch \in Epochs :
       \/ ComposeUpdate(id, user, epoch)
       \/ \E cutoff \in 0..MaxSequence :
            ComposeCheckpoint(id, user, epoch, cutoff)
  \/ \E id \in UpdateIds : Persist(id) \/ CommitManifest(id)
  \/ \E user \in Users :
       Rotate(user) \/ \E role \in Roles : ChangeAccess(user, role)
  \/ \E deleted \in BOOLEAN : SetDeleted(deleted)
  \/ Tombstone
  \/ \E c \in Readers : OpenReader(c) \/ ReadPage(c)

Spec == Init /\ [][Next]_vars

-----------------------------------------------------------------------------
(* Properties. *)

(* Sequences never run ahead of the section's counter: no accepted row has *)
(* a number the counter has not reached, and no two share one, although    *)
(* the table's unique index also names the epoch.                          *)
SequencesUnique ==
  /\ \A a \in accepted : a.sequence <= section.currentSequence
  /\ \A a, b \in accepted : a.sequence = b.sequence => a = b

(* Whatever was accepted can still be read: every edit of an accepted row  *)
(* is in a stored row of that epoch at its own or a later sequence.  This  *)
(* is what "commits checkpoints before compacting only through their       *)
(* observed cutoff" has to preserve under retries and racing checkpoints.  *)
AcceptedRetained ==
  \A a \in accepted :
    a.content \subseteq
      ContentOf({r \in rows : r.epoch = a.epoch /\ r.sequence >= a.sequence})

(* A client that pages through the history while others write and compact  *)
(* loses nothing: each accepted edit of its epoch was either on a page it  *)
(* got or is on a row after its position.                                  *)
ReaderMissesNothing ==
  \A c \in Readers : \A a \in accepted :
    a.epoch = reader[c].epoch =>
      a.content \subseteq
        reader[c].got \union ContentOf(Visible(reader[c].epoch, reader[c].after))

(* No request composed before a rotation lands after it: all of an older   *)
(* epoch's rows precede all of a newer one's, however late it is retried.  *)
EpochsInOrder ==
  \A a, b \in accepted : a.epoch < b.epoch => a.sequence < b.sequence

(* The inductive invariant behind these properties: stored rows were       *)
(* accepted as they are, no request or reader is ahead of the counter, a   *)
(* checkpoint in an outbox keeps covering what its cutoff will delete, and *)
(* no reader has content the log does not.                                 *)
RowsAccepted == rows \subseteq accepted

NothingFromTheFuture ==
  /\ \A a \in accepted : a.epoch <= note.keyEpoch
  /\ \A c \in Readers : reader[c].after <= section.currentSequence

CheckpointsCover ==
  \A id \in UpdateIds : header[id] # None =>
    /\ header[id].cutoff <= section.currentSequence
    /\ \A a \in AcceptedThrough(header[id].epoch, header[id].cutoff) :
         a.content \subseteq header[id].content

ReadersKnowStored ==
  \A c \in Readers :
    reader[c].got \subseteq ContentOf({r \in rows : r.epoch = reader[c].epoch})

IInv ==
  /\ TypeOK
  /\ SequencesUnique
  /\ RowsAccepted
  /\ NothingFromTheFuture
  /\ CheckpointsCover
  /\ AcceptedRetained
  /\ ReaderMissesNothing
  /\ ReadersKnowStored
  /\ EpochsInOrder

(* The history implements DurableSection. *)
StoredContent ==
  [e \in Epochs |-> ContentOf({r \in rows : r.epoch = e})]

CaughtUp ==
  [c \in Readers |-> [epoch |-> reader[c].epoch, ids |-> reader[c].known]]

Durable ==
  INSTANCE DurableSection WITH
    content <- StoredContent, epoch <- note.keyEpoch, known <- CaughtUp

ImplementsDurableSection == Durable!Spec
=============================================================================
