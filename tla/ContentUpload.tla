--------------------------- MODULE ContentUpload ---------------------------
(***************************************************************************)
(* Encrypted content and attachments of one owner: uploads in chunks, the  *)
(* manifests they become, the stored objects, and the owner's storage      *)
(* account.  A request that streams a body (a chunk, an attachment) is two *)
(* steps, because the database is free meanwhile; every other step is one  *)
(* transaction.  Objects a transaction has made useless are deleted after  *)
(* it, by the same process, which may crash first.                         *)
(***************************************************************************)
EXTENDS Integers, FiniteSets

CONSTANTS
  Notes,          \* notes of the owner
  Uploads,        \* upload identifiers
  Attachments,    \* attachment identifiers
  NoteOf,         \* the note of an upload or an attachment
  Keys,           \* storage keys; one that occurs nowhere is a new one
  ChunkCount,     \* chunks an upload declares, of one byte each
  AttachmentSize, \* bytes of an attachment
  QuotaBytes,     \* storageQuotaBytes
  MaxCrashes      \* bound on crashes of the server

ASSUME NoteOfAssumption == NoteOf \in [Uploads \union Attachments -> Notes]
ASSUME FiniteUploads == IsFiniteSet(Uploads)
ASSUME SizesAssumption ==
  /\ ChunkCount \in Nat \ {0}
  /\ AttachmentSize \in Nat \ {0}
  /\ QuotaBytes \in Nat
  /\ MaxCrashes \in Nat

VARIABLES
  notes,        \* [Notes -> open, in the trash, or permanently deleted]
  uploads,      \* content_uploads: [Uploads -> status]
  lapsed,       \* uploads whose expiresAt has passed
  stale,        \* uploads of a key epoch their note has left
  chunks,       \* content_chunks
  manifests,    \* content_manifests, by upload
  attachments,  \* attachments rows
  account,      \* storage_accounts: usedBytes, reservedBytes
  objects,      \* attachment_objects
  puts,         \* chunk requests whose body is being stored
  attaching,    \* attachment requests with a reservation, by their rows
  current,      \* those whose note still has the epoch they reserved in
  doomed,       \* objects the server still has to delete
  server,       \* "up", or "starting" after a crash
  crashes

rowVars == <<notes, uploads, lapsed, stale, chunks, manifests, attachments>>
vars ==
  <<rowVars, account, objects, puts, attaching, current, doomed, server,
    crashes>>

Statuses ==
  {"absent", "receiving", "complete", "committed", "aborted", "expired",
   "invalid"}

(* A chunk has the one byte its upload counts on, or two. *)
Chunks == [upload : Uploads, index : 1..ChunkCount, long : BOOLEAN, key : Keys]

AttachmentRows == [attachment : Attachments, key : Keys]

TypeOK ==
  /\ notes \in [Notes -> {"open", "trash", "purged"}]
  /\ uploads \in [Uploads -> Statuses]
  /\ lapsed \subseteq Uploads
  /\ stale \subseteq Uploads
  /\ chunks \subseteq Chunks
  /\ manifests \subseteq Uploads
  /\ attachments \subseteq AttachmentRows
  /\ account \in [used : Nat, reserved : Nat]
  /\ objects \subseteq Keys
  /\ puts \subseteq Chunks
  /\ attaching \subseteq AttachmentRows
  /\ current \subseteq attaching
  /\ doomed \subseteq Keys
  /\ server \in {"up", "starting"}
  /\ crashes \in 0..MaxCrashes

Init ==
  /\ notes = [n \in Notes |-> "open"]
  /\ uploads = [u \in Uploads |-> "absent"]
  /\ lapsed = {}
  /\ stale = {}
  /\ chunks = {}
  /\ manifests = {}
  /\ attachments = {}
  /\ account = [used |-> 0, reserved |-> 0]
  /\ objects = {}
  /\ puts = {}
  /\ attaching = {}
  /\ current = {}
  /\ doomed = {}
  /\ server = "up"
  /\ crashes = 0

-----------------------------------------------------------------------------
(* What the rows hold. *)

KeysOf(rows) == {r.key : r \in rows}

ChunksOf(u) == {c \in chunks : c.upload = u}

BytesOf(rows) == Cardinality(rows) + Cardinality({r \in rows : r.long})

Reserving ==
  {u \in Uploads : uploads[u] \in {"receiving", "complete", "invalid"}}

(* Faulty: an object only a content chunk refers to counts as an orphan.   *)
ReferencedByAttachments == KeysOf(attachments)

Referenced == KeysOf(chunks) \union KeysOf(attachments)

(* A random storage key is none that any row or request holds. *)
Unused(k) ==
  k \notin objects \union doomed \union Referenced
             \union KeysOf(puts \union attaching)

(* The bytes reconcileStorageAccount finds for the owner. *)
Owed ==
  [used |-> ChunkCount * Cardinality(manifests)
              + AttachmentSize * Cardinality(attachments),
   reserved |-> ChunkCount * Cardinality(Reserving)]

Fits(bytes) == account.used + account.reserved + bytes <= QuotaBytes

(* releaseStorage: GREATEST(reservedBytes - bytes, 0). *)
Released(reserved, bytes) == IF reserved >= bytes THEN reserved - bytes ELSE 0

Up == server = "up"

Writable(x) == notes[NoteOf[x]] = "open"

-----------------------------------------------------------------------------
(* Content uploads. *)

(* begin: a new upload, or one that expired or was aborted, reserves its   *)
(* bytes; any other existing upload is returned as it is.                  *)
Begin(u) ==
  /\ Up /\ Writable(u) /\ u \notin stale
  /\ uploads[u] \in {"absent", "expired", "aborted"}
  /\ Fits(ChunkCount)
  /\ uploads' = [uploads EXCEPT ![u] = "receiving"]
  /\ lapsed' = lapsed \ {u}
  /\ account' = [account EXCEPT !.reserved = @ + ChunkCount]
  /\ chunks' = chunks \ ChunksOf(u)
  /\ doomed' = doomed \union KeysOf(ChunksOf(u))
  /\ UNCHANGED <<notes, stale, manifests, attachments, objects, puts,
                 attaching, current, server, crashes>>

Receives(u) ==
  Writable(u) /\ u \notin stale /\ uploads[u] \in {"receiving", "complete"}

(* The route admits a chunk it does not have and starts to store its body. *)
StartPut(u, i, long, k) ==
  /\ Up /\ Receives(u)
  /\ \A c \in ChunksOf(u) : c.index # i
  /\ Unused(k)
  /\ puts' = puts \union {[upload |-> u, index |-> i, long |-> long, key |-> k]}
  /\ objects' = objects \union {k}
  /\ UNCHANGED <<rowVars, account, attaching, current, doomed, server,
                 crashes>>

(* registerChunk when the chunk is stored: too many bytes spoil the upload, *)
(* all chunks with all bytes complete it.                                   *)
RegisterChunk(p) ==
  LET u == p.upload
      received == ChunksOf(u) \union {p}
  IN  /\ p \in puts
      /\ Receives(u)
      /\ \A c \in ChunksOf(u) : c.index # p.index
      /\ chunks' = chunks \union {p}
      /\ puts' = puts \ {p}
      /\ uploads' = [uploads EXCEPT ![u] =
           CASE BytesOf(received) > ChunkCount -> "invalid"
             [] BytesOf(received) = ChunkCount
                  /\ Cardinality(received) = ChunkCount -> "complete"
             [] OTHER -> @]
      /\ doomed' =
           IF uploads'[u] = "invalid" THEN doomed \union {p.key} ELSE doomed
      /\ UNCHANGED <<notes, lapsed, stale, manifests, attachments, account,
                     objects, attaching, current, server, crashes>>

(* The body fails, access is lost, or another request stored the chunk: its *)
(* object is deleted, unless the request ends in an error of the database.  *)
RefusePut(p) ==
  /\ p \in puts
  /\ puts' = puts \ {p}
  /\ doomed' \in {doomed, doomed \union {p.key}}
  /\ UNCHANGED <<rowVars, account, objects, attaching, current, server,
                 crashes>>

(* Faulty: what the upload reserved stays reserved.                        *)
EndedReserved(ending, status) ==
  /\ uploads' = [u \in Uploads |-> IF u \in ending THEN status ELSE uploads[u]]
  /\ chunks' = {c \in chunks : c.upload \notin ending}
  /\ doomed' = doomed \union KeysOf({c \in chunks : c.upload \in ending})
  /\ UNCHANGED <<notes, lapsed, stale, manifests, attachments, account,
                 objects, puts, attaching, current, server, crashes>>

(* Uploads that end without a manifest give back what they reserved.       *)
Ended(ending, status) ==
  /\ uploads' = [u \in Uploads |-> IF u \in ending THEN status ELSE uploads[u]]
  /\ account' = [account EXCEPT !.reserved =
       Released(@, ChunkCount * Cardinality(ending))]
  /\ chunks' = {c \in chunks : c.upload \notin ending}
  /\ doomed' = doomed \union KeysOf({c \in chunks : c.upload \in ending})
  /\ UNCHANGED <<notes, lapsed, stale, manifests, attachments, objects, puts,
                 attaching, current, server, crashes>>

Abort(u) ==
  /\ Up /\ u \in Reserving
  /\ Ended({u}, "aborted")

(* Faulty: only what is still receiving expires.                           *)
ExpireReceiving(page) ==
  /\ page # {}
  /\ page \subseteq {u \in lapsed : uploads[u] = "receiving"}
  /\ Ended(page, "expired")

(* expireUploads pages through what has lapsed, at startup and on a timer; *)
(* status expires the upload it is asked about.                            *)
ExpireUploads(page) ==
  /\ page # {}
  /\ page \subseteq lapsed \intersect Reserving
  /\ Ended(page, "expired")

(* commit of an upload that has no manifest yet. *)
Commit(u) ==
  /\ Up /\ Writable(u) /\ u \notin stale
  /\ u \notin manifests
  /\ uploads[u] = "complete"
  /\ Cardinality(ChunksOf(u)) = ChunkCount
  /\ {c.index : c \in ChunksOf(u)} = 1..ChunkCount
  /\ BytesOf(ChunksOf(u)) = ChunkCount
  /\ account.reserved >= ChunkCount
  /\ manifests' = manifests \union {u}
  /\ uploads' = [uploads EXCEPT ![u] = "committed"]
  /\ account' = [used |-> account.used + ChunkCount,
                 reserved |-> account.reserved - ChunkCount]
  /\ UNCHANGED <<notes, lapsed, stale, chunks, attachments, objects, puts,
                 attaching, current, doomed, server, crashes>>

-----------------------------------------------------------------------------
(* Attachments. *)

Absent(a) == \A r \in attachments : r.attachment # a

(* reserve, and the object whose body is being stored. *)
ReserveAttachment(a, k) ==
  /\ Up /\ Writable(a) /\ Absent(a)
  /\ Fits(AttachmentSize)
  /\ Unused(k)
  /\ account' = [account EXCEPT !.reserved = @ + AttachmentSize]
  /\ attaching' = attaching \union {[attachment |-> a, key |-> k]}
  /\ current' = current \union {[attachment |-> a, key |-> k]}
  /\ objects' = objects \union {k}
  /\ UNCHANGED <<rowVars, puts, doomed, server, crashes>>

(* Faulty: the request forgets that it has committed.                      *)
CommitAttachmentUnmarked(q) ==
  /\ q \in attaching
  /\ q.key \in objects
  /\ Writable(q.attachment) /\ q \in current /\ Absent(q.attachment)
  /\ account.reserved >= AttachmentSize
  /\ attachments' = attachments \union {q}
  /\ account' = [used |-> account.used + AttachmentSize,
                 reserved |-> account.reserved - AttachmentSize]
  /\ UNCHANGED <<notes, uploads, lapsed, stale, chunks, manifests, objects,
                 puts, attaching, current, doomed, server, crashes>>

(* The row's foreign key wants the object to be there. *)
CommitAttachment(q) ==
  /\ q \in attaching
  /\ q.key \in objects
  /\ Writable(q.attachment) /\ q \in current /\ Absent(q.attachment)
  /\ account.reserved >= AttachmentSize
  /\ attaching' = attaching \ {q}
  /\ current' = current \ {q}
  /\ attachments' = attachments \union {q}
  /\ account' = [used |-> account.used + AttachmentSize,
                 reserved |-> account.reserved - AttachmentSize]
  /\ UNCHANGED <<notes, uploads, lapsed, stale, chunks, manifests, objects,
                 puts, doomed, server, crashes>>

(* The body fails, or commit refuses: releaseUpload. *)
ReleaseAttachment(q) ==
  /\ q \in attaching
  /\ attaching' = attaching \ {q}
  /\ current' = current \ {q}
  /\ account' = [account EXCEPT !.reserved = Released(@, AttachmentSize)]
  /\ doomed' = doomed \union {q.key}
  /\ UNCHANGED <<rowVars, objects, puts, server, crashes>>

DeleteAttachment(r) ==
  /\ Up /\ r \in attachments
  /\ attachments' = attachments \ {r}
  /\ account' = [account EXCEPT !.used = Released(@, AttachmentSize)]
  /\ doomed' = doomed \union {r.key}
  /\ UNCHANGED <<notes, uploads, lapsed, stale, chunks, manifests, objects,
                 puts, attaching, current, server, crashes>>

-----------------------------------------------------------------------------
(* The note: trash, key rotation, permanent deletion. *)

SetDeleted(n, deleted) ==
  /\ Up /\ notes[n] # "purged"
  /\ notes' = [notes EXCEPT ![n] = IF deleted THEN "trash" ELSE "open"]
  /\ UNCHANGED <<uploads, lapsed, stale, chunks, manifests, attachments,
                 account, objects, puts, attaching, current, doomed, server,
                 crashes>>

(* What was begun or reserved under the old epoch can no longer commit. *)
Rotate(n) ==
  /\ Up /\ notes[n] = "open"
  /\ stale' = stale \union
       {u \in Uploads : NoteOf[u] = n /\ uploads[u] # "absent"}
  /\ current' = {q \in current : NoteOf[q.attachment] # n}
  /\ UNCHANGED <<notes, uploads, lapsed, chunks, manifests, attachments,
                 account, objects, puts, attaching, doomed, server, crashes>>

(* permanentlyDelete: rows cascade, the account gives back the attachments. *)
Purge(n) ==
  LET lost == {r \in attachments : NoteOf[r.attachment] = n}
  IN  /\ Up /\ notes[n] # "purged"
      /\ notes' = [notes EXCEPT ![n] = "purged"]
      /\ uploads' =
           [u \in Uploads |-> IF NoteOf[u] = n THEN "absent" ELSE uploads[u]]
      /\ chunks' = {c \in chunks : NoteOf[c.upload] # n}
      /\ manifests' = {u \in manifests : NoteOf[u] # n}
      /\ attachments' = attachments \ lost
      /\ account' = [account EXCEPT !.used =
           Released(@, AttachmentSize * Cardinality(lost))]
      /\ doomed' = doomed \union KeysOf(lost)
      /\ UNCHANGED <<lapsed, stale, objects, puts, attaching, current, server,
                     crashes>>

-----------------------------------------------------------------------------
(* Time, deletion of objects, crashes and startup. *)

Lapse(u) ==
  /\ u \in Reserving \ lapsed
  /\ lapsed' = lapsed \union {u}
  /\ UNCHANGED <<notes, uploads, stale, chunks, manifests, attachments,
                 account, objects, puts, attaching, current, doomed, server,
                 crashes>>

(* The database refuses to delete an object an attachment refers to. *)
DeleteObject(k) ==
  /\ k \in doomed
  /\ doomed' = doomed \ {k}
  /\ objects' = objects \ ({k} \ KeysOf(attachments))
  /\ UNCHANGED <<rowVars, account, puts, attaching, current, server, crashes>>

(* Faulty: orphans are only removed when the server starts.                *)
SweepOrphansAtStartup(page) ==
  /\ server = "starting"
  /\ page # {}
  /\ page \subseteq objects \ (Referenced \union KeysOf(puts \union attaching))
  /\ objects' = objects \ page
  /\ UNCHANGED <<rowVars, account, puts, attaching, current, doomed, server,
                 crashes>>

(* removeOrphanObjects: objects that no row refers to and that are older   *)
(* than the hour no request lasts.                                         *)
SweepOrphans(page) ==
  /\ page # {}
  /\ page \subseteq objects \ (Referenced \union KeysOf(puts \union attaching))
  /\ objects' = objects \ page
  /\ UNCHANGED <<rowVars, account, puts, attaching, current, doomed, server,
                 crashes>>

(* The rows survive; requests and the deletions they had left do not. *)
Crash ==
  /\ crashes < MaxCrashes
  /\ crashes' = crashes + 1
  /\ server' = "starting"
  /\ puts' = {}
  /\ attaching' = {}
  /\ current' = {}
  /\ doomed' = {}
  /\ UNCHANGED <<rowVars, account, objects>>

(* The server listens once uploads have expired and the accounts are what  *)
(* the rows say.                                                           *)
Reconcile ==
  /\ server = "starting"
  /\ lapsed \intersect Reserving = {}
  /\ account' = Owed
  /\ server' = "up"
  /\ UNCHANGED <<rowVars, objects, puts, attaching, current, doomed, crashes>>

-----------------------------------------------------------------------------

UploadStep ==
  \/ \E u \in Uploads : Begin(u) \/ Abort(u) \/ Commit(u) \/ Lapse(u)
  \/ \E u \in Uploads, i \in 1..ChunkCount, long \in BOOLEAN, k \in Keys :
       StartPut(u, i, long, k)
  \/ \E p \in puts : RegisterChunk(p) \/ RefusePut(p)

AttachmentStep ==
  \/ \E a \in Attachments, k \in Keys : ReserveAttachment(a, k)
  \/ \E q \in attaching : CommitAttachment(q) \/ ReleaseAttachment(q)
  \/ \E r \in attachments : DeleteAttachment(r)

NoteStep ==
  \E n \in Notes : Rotate(n) \/ Purge(n) \/ \E d \in BOOLEAN : SetDeleted(n, d)

Maintenance ==
  \/ \E page \in SUBSET Uploads : ExpireUploads(page)
  \/ \E page \in SUBSET Keys : SweepOrphans(page)

ServerStep ==
  \/ \E k \in Keys : DeleteObject(k)
  \/ Crash
  \/ Reconcile

Next == UploadStep \/ AttachmentStep \/ NoteStep \/ Maintenance \/ ServerStep

Spec == Init /\ [][Next]_vars

(* Expiry dates come, the timer of maintenance runs, a request ends and    *)
(* deletes what it must, and a crashed server is started again.            *)
Fairness ==
  /\ \A u \in Uploads : WF_vars(Lapse(u))
  /\ \A u \in Uploads :
       WF_vars(\E page \in SUBSET Uploads : u \in page /\ ExpireUploads(page))
  /\ \A k \in Keys :
       WF_vars(\E page \in SUBSET Keys : k \in page /\ SweepOrphans(page))
  /\ \A k \in Keys :
       /\ WF_vars(\E p \in puts : p.key = k /\ (RegisterChunk(p) \/ RefusePut(p)))
       /\ WF_vars(\E q \in attaching :
                    q.key = k /\ (CommitAttachment(q) \/ ReleaseAttachment(q)))
  /\ WF_vars(Reconcile)

FairSpec == Spec /\ Fairness

-----------------------------------------------------------------------------
(* Properties. *)

(* Content once committed can be read: every chunk of a manifest is there,  *)
(* of the declared length, and so is its object, whatever raced, expired,   *)
(* was aborted, swept or cut off by a crash.                                *)
CommittedReadable ==
  \A u \in manifests : \A i \in 1..ChunkCount :
    \E c \in ChunksOf(u) : c.index = i /\ ~c.long /\ c.key \in objects

(* The server never sets out to delete an object that a manifest or an     *)
(* attachment names.  Nothing would stop it at a chunk; at an attachment    *)
(* the database would, and the request or the sweep would fail.            *)
DeletionsMeant ==
  /\ \A u \in manifests : \A c \in ChunksOf(u) : c.key \notin doomed
  /\ \A r \in attachments : r.key \notin doomed

(* The account never counts less than what is stored and reserved, so that  *)
(* the owner never holds more than the quota.                               *)
AccountCovers ==
  /\ account.used >= Owed.used
  /\ account.reserved >= Owed.reserved + AttachmentSize * Cardinality(attaching)
  /\ account.used + account.reserved <= QuotaBytes

(* While the server listens and no note has been permanently deleted, the   *)
(* account is exact: no path out of an upload leaks or doubles a byte.      *)
AccountExact ==
  Up /\ (\A n \in Notes : notes[n] # "purged") =>
    /\ account.used = Owed.used
    /\ account.reserved =
         Owed.reserved + AttachmentSize * Cardinality(attaching)

(* Whatever ends an upload or an attachment moves its bytes exactly once:   *)
(* the account covers what is held, and leaks nothing while no note is     *)
(* permanently deleted.                                                    *)
AccountKept == AccountCovers /\ AccountExact

(* The inductive invariant behind these.  A key has one holder, and an      *)
(* object some row or request needs is neither gone nor about to be; a      *)
(* chunk has the place its upload's status gives it.                        *)
Written == chunks \union puts

Needed ==
  {c \in chunks : uploads[c.upload] # "invalid"} \union puts

Held == attachments \union attaching

KeysApart ==
  /\ \A c, d \in Written : c.key = d.key => c = d
  /\ \A r, q \in Held : r.key = q.key => r = q
  /\ \A c \in Written, r \in Held : c.key # r.key
  /\ chunks \intersect puts = {}
  /\ attachments \intersect attaching = {}

NeededKept ==
  \A x \in Needed \union Held : x.key \in objects /\ x.key \notin doomed

ChunksPlaced ==
  /\ \A c \in chunks :
       uploads[c.upload] \in {"receiving", "complete", "committed", "invalid"}
  /\ \A c, d \in chunks : c.upload = d.upload /\ c.index = d.index => c = d

ManifestsWhole ==
  \A u \in manifests :
    /\ uploads[u] = "committed"
    /\ \A i \in 1..ChunkCount : \E c \in ChunksOf(u) : c.index = i /\ ~c.long

StartsIdle == Up \/ (puts = {} /\ attaching = {})

Finite ==
  /\ IsFiniteSet(chunks)
  /\ IsFiniteSet(attachments)
  /\ IsFiniteSet(attaching)

IInv ==
  /\ TypeOK
  /\ KeysApart
  /\ NeededKept
  /\ ChunksPlaced
  /\ ManifestsWhole
  /\ StartsIdle
  /\ Finite
  /\ AccountCovers
  /\ AccountExact

(* A reservation does not outlive its upload's expiry. *)
ReservationsEnd == \A u \in Uploads : u \in Reserving ~> u \notin Reserving

(* An object nothing refers to is in the end deleted. *)
LeftoversRemoved ==
  \A k \in Keys :
    k \in objects \ Referenced ~> k \notin objects \/ k \in Referenced
=============================================================================
