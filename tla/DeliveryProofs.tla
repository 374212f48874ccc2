--------------------------- MODULE DeliveryProofs ---------------------------
(***************************************************************************)
(* Proofs, for every value of the constants, about the way of what is      *)
(* written: to the storage of the server and to the other clients.         *)
(*                                                                         *)
(* ContentUpload: for every number of notes, uploads and attachments,      *)
(* every size and quota and every interleaving with crashes, committed     *)
(* content can be read, nothing in use is deleted, and the owner's account *)
(* covers what is stored and reserved, exactly so while no note is         *)
(* permanently deleted.                                                    *)
(*                                                                         *)
(* SectionSync: HeldInv says of every accepted row and every client that   *)
(* the row is merged, has failed visibly, is underway or asked for, which  *)
(* holds while connections do (ConnectionsHold).  ClaimsInv needs no such  *)
(* condition: it follows what the author of a checkpoint had merged, and   *)
(* an edit is lost only to one that had not merged what it called observed. *)
(***************************************************************************)
EXTENDS ContentUpload, SectionSync, SequenceTheorems, FiniteSetTheorems,
        WellFoundedInduction, TLAPS

-----------------------------------------------------------------------------
(* Counting bytes. *)

(* Products of sizes and numbers of rows are natural numbers. *)
LEMMA Products == \A a, b \in Nat : a * b \in Nat
  OBVIOUS

(* The bytes of one row more, and of some rows less. *)
LEMMA OneMore == \A a, b \in Nat : a * (b + 1) = a * b + a
  OBVIOUS

LEMMA SomeLess ==
  ASSUME NEW a \in Nat, NEW b \in Nat, NEW c \in Nat, c <= b
  PROVE  a * (b - c) = a * b - a * c /\ a * c <= a * b
  OBVIOUS

(* Every set of rows is finite, so that it has a number. *)
LEMMA Counts ==
  ASSUME TypeOK, Finite
  PROVE  /\ IsFiniteSet(Reserving) /\ Cardinality(Reserving) \in Nat
         /\ IsFiniteSet(manifests) /\ Cardinality(manifests) \in Nat
         /\ Cardinality(attachments) \in Nat
         /\ Cardinality(attaching) \in Nat
  <1>1. Reserving \in SUBSET Uploads /\ manifests \in SUBSET Uploads
    BY DEF Reserving, TypeOK
  <1>2. IsFiniteSet(Reserving) /\ IsFiniteSet(manifests)
    BY <1>1, FiniteUploads, FS_Subset
  <1> QED
    BY <1>2, FS_CardinalityType DEF Finite

(* One row more, one row less, a subset less. *)
LEMMA CountOneMore ==
  ASSUME NEW S, NEW x, IsFiniteSet(S), x \notin S
  PROVE  IsFiniteSet(S \union {x}) /\ Cardinality(S \union {x}) = Cardinality(S) + 1
  BY FS_AddElement

LEMMA CountOneLess ==
  ASSUME NEW S, NEW x, IsFiniteSet(S), x \in S
  PROVE  /\ IsFiniteSet(S \ {x})
         /\ Cardinality(S \ {x}) = Cardinality(S) - 1
         /\ Cardinality(S) >= 1
  <1>1. IsFiniteSet(S \ {x}) /\ Cardinality(S \ {x}) = Cardinality(S) - 1
    BY FS_RemoveElement
  <1>2. Cardinality(S \ {x}) \in Nat /\ Cardinality(S) \in Nat
    BY <1>1, FS_CardinalityType
  <1> QED
    BY <1>1, <1>2

LEMMA CountLess ==
  ASSUME NEW S, NEW T, IsFiniteSet(S), T \subseteq S
  PROVE  /\ IsFiniteSet(S \ T) /\ IsFiniteSet(T)
         /\ Cardinality(T) \in Nat
         /\ Cardinality(S \ T) = Cardinality(S) - Cardinality(T)
         /\ Cardinality(T) <= Cardinality(S)
  <1>1. S \intersect T = T
    OBVIOUS
  <1> QED
    BY <1>1, FS_Difference, FS_Subset, FS_CardinalityType

(* An account that gives back what it does not hold stays at zero. *)
LEMMA ReleasedType ==
  ASSUME NEW b \in Nat, NEW c \in Nat
  PROVE  Released(b, c) \in Nat
  BY DEF Released

-----------------------------------------------------------------------------
(* Types.  A step keeps the types, if the sets it counts are finite. *)

LEMMA TypeUploads ==
  ASSUME IInv, UploadStep
  PROVE  TypeOK'
  <1> USE SizesAssumption DEF IInv, TypeOK, vars, rowVars
  <1>1. ASSUME NEW u \in Uploads, Begin(u)
        PROVE  TypeOK'
    <2>1. KeysOf(ChunksOf(u)) \subseteq Keys
      BY DEF KeysOf, ChunksOf, Chunks
    <2> QED
      BY <1>1, <2>1 DEF Begin, ChunksOf, Statuses
  <1>2. ASSUME NEW u \in Uploads, Abort(u)
        PROVE  TypeOK'
    <2>1. KeysOf({c \in chunks : c.upload \in {u}}) \subseteq Keys
      BY DEF KeysOf, Chunks
    <2>2. Cardinality({u}) = 1
      BY FS_Singleton
    <2>3. Released(account.reserved, ChunkCount * Cardinality({u})) \in Nat
      BY <2>2, Products, ReleasedType
    <2> QED
      BY <1>2, <2>1, <2>3 DEF Abort, Ended, Statuses
  <1>3. ASSUME NEW u \in Uploads, Commit(u)
        PROVE  TypeOK'
    BY <1>3 DEF Commit, Statuses
  <1>4. ASSUME NEW u \in Uploads, Lapse(u)
        PROVE  TypeOK'
    BY <1>4 DEF Lapse
  <1>5. ASSUME NEW u \in Uploads, NEW i \in 1..ChunkCount, NEW long \in BOOLEAN,
               NEW k \in Keys, StartPut(u, i, long, k)
        PROVE  TypeOK'
    BY <1>5 DEF StartPut, Chunks
  <1>6. ASSUME NEW p \in puts, RegisterChunk(p)
        PROVE  TypeOK'
    <2>1. p.upload \in Uploads /\ p.key \in Keys
      BY DEF Chunks
    <2>2. uploads' \in [Uploads -> Statuses]
      BY <1>6, <2>1 DEF RegisterChunk, Statuses
    <2>3. doomed' \subseteq Keys
      BY <1>6, <2>1 DEF RegisterChunk
    <2> QED
      BY <1>6, <2>2, <2>3 DEF RegisterChunk
  <1>7. ASSUME NEW p \in puts, RefusePut(p)
        PROVE  TypeOK'
    BY <1>7 DEF RefusePut, Chunks
  <1> QED
    BY <1>1, <1>2, <1>3, <1>4, <1>5, <1>6, <1>7 DEF UploadStep

LEMMA TypeAttachments ==
  ASSUME IInv, AttachmentStep
  PROVE  TypeOK'
  <1> USE SizesAssumption DEF IInv, TypeOK, vars, rowVars
  <1>1. ASSUME NEW a \in Attachments, NEW k \in Keys, ReserveAttachment(a, k)
        PROVE  TypeOK'
    BY <1>1 DEF ReserveAttachment, AttachmentRows
  <1>2. ASSUME NEW q \in attaching, CommitAttachment(q)
        PROVE  TypeOK'
    BY <1>2 DEF CommitAttachment
  <1>3. ASSUME NEW q \in attaching, ReleaseAttachment(q)
        PROVE  TypeOK'
    BY <1>3, ReleasedType DEF ReleaseAttachment, AttachmentRows
  <1>4. ASSUME NEW r \in attachments, DeleteAttachment(r)
        PROVE  TypeOK'
    BY <1>4, ReleasedType DEF DeleteAttachment, AttachmentRows
  <1> QED
    BY <1>1, <1>2, <1>3, <1>4 DEF AttachmentStep

LEMMA TypeOthers ==
  ASSUME IInv, NoteStep \/ Maintenance \/ ServerStep
  PROVE  TypeOK'
  <1> USE SizesAssumption DEF IInv, TypeOK, vars, rowVars
  <1>1. ASSUME NEW n \in Notes, Rotate(n)
        PROVE  TypeOK'
    BY <1>1 DEF Rotate
  <1>2. ASSUME NEW n \in Notes, Purge(n)
        PROVE  TypeOK'
    <2> DEFINE lost == {r \in attachments : NoteOf[r.attachment] = n}
    <2>1. Cardinality(lost) \in Nat
      BY CountLess DEF Finite
    <2>2. Released(account.used, AttachmentSize * Cardinality(lost)) \in Nat
      BY <2>1, Products, ReleasedType
    <2>3. KeysOf(lost) \subseteq Keys
      BY DEF KeysOf, AttachmentRows
    <2> QED
      BY <1>2, <2>2, <2>3 DEF Purge, Statuses
  <1>3. ASSUME NEW n \in Notes, NEW d \in BOOLEAN, SetDeleted(n, d)
        PROVE  TypeOK'
    BY <1>3 DEF SetDeleted
  <1>4. ASSUME NEW page \in SUBSET Uploads, ExpireUploads(page)
        PROVE  TypeOK'
    <2>1. KeysOf({c \in chunks : c.upload \in page}) \subseteq Keys
      BY DEF KeysOf, Chunks
    <2>2. Cardinality(page) \in Nat
      BY FiniteUploads, FS_Subset, FS_CardinalityType
    <2>3. Released(account.reserved, ChunkCount * Cardinality(page)) \in Nat
      BY <2>2, Products, ReleasedType
    <2> QED
      BY <1>4, <2>1, <2>3 DEF ExpireUploads, Ended, Statuses
  <1>5. ASSUME NEW page \in SUBSET Keys, SweepOrphans(page)
        PROVE  TypeOK'
    BY <1>5 DEF SweepOrphans
  <1>6. ASSUME NEW k \in Keys, DeleteObject(k)
        PROVE  TypeOK'
    BY <1>6 DEF DeleteObject
  <1>7. ASSUME Crash
        PROVE  TypeOK'
    BY <1>7 DEF Crash
  <1>8. ASSUME Reconcile
        PROVE  TypeOK'
    <2>1. Owed \in [used : Nat, reserved : Nat]
      BY Counts, Products DEF Owed
    <2> QED
      BY <1>8, <2>1 DEF Reconcile
  <1> QED
    BY <1>1, <1>2, <1>3, <1>4, <1>5, <1>6, <1>7, <1>8
    DEF NoteStep, Maintenance, ServerStep

-----------------------------------------------------------------------------
(* Rows and objects.  Each row has a key of its own, and no step deletes    *)
(* the object of a row or a request that still needs it.                    *)

RowsInv == KeysApart /\ NeededKept /\ ChunksPlaced /\ ManifestsWhole

(* A key that nothing uses is no row's, no request's, and not doomed. *)
LEMMA UnusedKey ==
  ASSUME NEW k, Unused(k)
  PROVE  k \notin doomed /\ \A x \in Written \union Held : x.key # k
  BY DEF Unused, Referenced, KeysOf, Written, Held

(* The keys of a set of rows are those of its members. *)
LEMMA KeysOfMembers ==
  ASSUME NEW rows, NEW k
  PROVE  k \in KeysOf(rows) <=> \E r \in rows : r.key = k
  BY DEF KeysOf

(* A complete upload with as many chunks as bytes has no long one. *)
LEMMA CompleteWhole ==
  ASSUME TypeOK, Finite, NEW u \in Uploads,
         Cardinality(ChunksOf(u)) = ChunkCount,
         {c.index : c \in ChunksOf(u)} = 1..ChunkCount,
         BytesOf(ChunksOf(u)) = ChunkCount
  PROVE  \A i \in 1..ChunkCount : \E c \in ChunksOf(u) : c.index = i /\ ~c.long
  <1> DEFINE longs == {c \in ChunksOf(u) : c.long}
  <1>1. IsFiniteSet(ChunksOf(u)) /\ IsFiniteSet(longs)
    <2>1. ChunksOf(u) \in SUBSET chunks /\ longs \in SUBSET chunks
      BY DEF ChunksOf
    <2> QED
      BY <2>1, FS_Subset DEF Finite
  <1>2. Cardinality(longs) \in Nat
    BY <1>1, FS_CardinalityType
  <1>3. Cardinality(longs) = 0
    BY <1>2, SizesAssumption DEF BytesOf
  <1>4. longs = {}
    BY <1>1, <1>3, FS_EmptySet
  <1>5. \A c \in ChunksOf(u) : ~c.long
    BY <1>4
  <1>6. \A i \in 1..ChunkCount : \E c \in ChunksOf(u) : c.index = i
    OBVIOUS
  <1> QED
    BY <1>5, <1>6

(* An upload that ends without a manifest takes only chunks of its own     *)
(* along.                                                                  *)
LEMMA RowsEnded ==
  ASSUME TypeOK, RowsInv, NEW S, S \subseteq Reserving,
         NEW status \in {"aborted", "expired"}, Ended(S, status)
  PROVE  RowsInv'
  <1> DEFINE gone == {c \in chunks : c.upload \in S}
  <1>1. /\ chunks' = chunks \ gone /\ puts' = puts /\ objects' = objects
        /\ attachments' = attachments /\ attaching' = attaching
        /\ manifests' = manifests
        /\ \A u \in Uploads : uploads'[u] = IF u \in S THEN status ELSE uploads[u]
    BY DEF Ended
  <1>2. \A c \in chunks : c.upload \in Uploads
    BY DEF TypeOK, Chunks
  <1>3. KeysApart'
    BY <1>1 DEF RowsInv, KeysApart, Written, Held
  <1>4. \A k \in doomed' : k \in doomed \/ \E c \in gone : c.key = k
    BY KeysOfMembers DEF Ended
  <1>5. NeededKept'
    <2>1. ASSUME NEW x \in (Needed \union Held)'
          PROVE  x \in Needed \union Held /\ \A c \in gone : c.key # x.key
      BY <1>1, <1>2 DEF Needed, Held, RowsInv, KeysApart, Written
    <2> QED
      BY <1>1, <1>4, <2>1 DEF RowsInv, NeededKept
  <1>6. ChunksPlaced'
    BY <1>1, <1>2 DEF RowsInv, ChunksPlaced
  <1>7. ManifestsWhole'
    <2>1. \A u \in manifests : u \in Uploads /\ u \notin S
      BY DEF RowsInv, ManifestsWhole, Reserving, TypeOK
    <2> QED
      BY <1>1, <2>1 DEF RowsInv, ManifestsWhole, ChunksOf
  <1> QED
    BY <1>3, <1>5, <1>6, <1>7 DEF RowsInv

(* What rows and requests there are, and where their objects are, decides. *)
LEMMA RowsUnchanged ==
  ASSUME RowsInv,
         UNCHANGED <<uploads, chunks, manifests, attachments, objects, puts,
                     attaching, doomed>>
  PROVE  RowsInv'
  BY DEF RowsInv, KeysApart, NeededKept, ChunksPlaced, ManifestsWhole, Written,
         Held, Needed, ChunksOf

LEMMA RowsBegin ==
  ASSUME TypeOK, RowsInv, NEW u \in Uploads, Begin(u)
  PROVE  RowsInv'
  <1>1. \A c \in chunks : c.upload # u
    BY DEF RowsInv, ChunksPlaced, Begin
  <1>2. ChunksOf(u) = {}
    BY <1>1 DEF ChunksOf
  <1>3. KeysOf(ChunksOf(u)) = {}
    BY <1>2 DEF KeysOf
  <1>4. /\ chunks' = chunks /\ doomed' = doomed /\ puts' = puts
        /\ objects' = objects /\ attachments' = attachments
        /\ attaching' = attaching /\ manifests' = manifests
        /\ \A v \in Uploads : v # u => uploads'[v] = uploads[v]
    BY <1>2, <1>3 DEF Begin, TypeOK
  <1>5. \A c \in chunks : uploads'[c.upload] = uploads[c.upload]
    BY <1>1, <1>4 DEF TypeOK, Chunks
  <1>6. \A v \in manifests : v # u /\ uploads'[v] = uploads[v]
    BY <1>4 DEF RowsInv, ManifestsWhole, TypeOK, Begin
  <1> QED
    BY <1>4, <1>5, <1>6 DEF RowsInv, KeysApart, NeededKept, ChunksPlaced,
       ManifestsWhole, Written, Held, Needed, ChunksOf

LEMMA RowsCommit ==
  ASSUME TypeOK, Finite, RowsInv, NEW u \in Uploads, Commit(u)
  PROVE  RowsInv'
  <1>1. /\ chunks' = chunks /\ doomed' = doomed /\ puts' = puts
        /\ objects' = objects /\ attachments' = attachments
        /\ attaching' = attaching /\ manifests' = manifests \union {u}
        /\ uploads[u] = "complete" /\ uploads'[u] = "committed"
        /\ \A v \in Uploads : v # u => uploads'[v] = uploads[v]
    BY DEF Commit, TypeOK
  <1>2. KeysApart'
    BY <1>1 DEF RowsInv, KeysApart, Written, Held
  <1>3. \A c \in chunks : c.upload \in Uploads
    BY DEF TypeOK, Chunks
  <1>4. NeededKept' /\ ChunksPlaced'
    BY <1>1, <1>3 DEF RowsInv, NeededKept, ChunksPlaced, Needed, Held
  <1>5. \A i \in 1..ChunkCount : \E c \in ChunksOf(u) : c.index = i /\ ~c.long
    BY CompleteWhole DEF Commit
  <1>6. ManifestsWhole'
    BY <1>1, <1>5 DEF RowsInv, ManifestsWhole, ChunksOf, TypeOK
  <1> QED
    BY <1>2, <1>4, <1>6 DEF RowsInv

LEMMA RowsStartPut ==
  ASSUME TypeOK, RowsInv, NEW u \in Uploads, NEW i \in 1..ChunkCount,
         NEW long \in BOOLEAN, NEW k \in Keys, StartPut(u, i, long, k)
  PROVE  RowsInv'
  <1> DEFINE p == [upload |-> u, index |-> i, long |-> long, key |-> k]
  <1>1. /\ puts' = puts \union {p} /\ objects' = objects \union {k}
        /\ UNCHANGED <<uploads, chunks, manifests, attachments, attaching, doomed>>
    BY DEF StartPut, rowVars
  <1>2. k \notin doomed /\ \A x \in Written \union Held : x.key # k
    BY UnusedKey DEF StartPut
  <1>3. p.key = k
    OBVIOUS
  <1> HIDE DEF p
  <1>4. KeysApart'
    BY <1>1, <1>2, <1>3 DEF RowsInv, KeysApart, Written, Held
  <1>5. NeededKept'
    BY <1>1, <1>2, <1>3 DEF RowsInv, NeededKept, Needed, Held
  <1>6. ChunksPlaced' /\ ManifestsWhole'
    BY <1>1 DEF RowsInv, ChunksPlaced, ManifestsWhole, ChunksOf
  <1> QED
    BY <1>4, <1>5, <1>6 DEF RowsInv

LEMMA RowsRegister ==
  ASSUME TypeOK, RowsInv, NEW p \in puts, RegisterChunk(p)
  PROVE  RowsInv'
  <1> DEFINE u == p.upload
  <1>1. u \in Uploads /\ \A c \in chunks : c.upload \in Uploads
    BY DEF TypeOK, Chunks
  <1>2. /\ chunks' = chunks \union {p} /\ puts' = puts \ {p}
        /\ objects' = objects /\ attachments' = attachments
        /\ attaching' = attaching /\ manifests' = manifests
        /\ \A v \in Uploads : v # u => uploads'[v] = uploads[v]
    BY DEF RegisterChunk, TypeOK
  <1>3. /\ uploads[u] \in {"receiving", "complete"}
        /\ uploads'[u] \in {"receiving", "complete", "invalid"}
    BY <1>1 DEF RegisterChunk, Receives, TypeOK
  <1>4. IF uploads'[u] = "invalid" THEN doomed' = doomed \union {p.key}
                                   ELSE doomed' = doomed
    BY DEF RegisterChunk
  <1>5. \A c \in chunks : c.upload = u => c.index # p.index
    BY DEF RegisterChunk, ChunksOf
  <1>6. KeysApart'
    BY <1>2 DEF RowsInv, KeysApart, Written, Held
  <1>7. NeededKept'
    <2>1. ASSUME NEW x \in (Needed \union Held)'
          PROVE  /\ x \in Needed \union Held
                 /\ uploads'[u] = "invalid" => x.key # p.key
      <3>1. x \in Needed \union Held
        BY <1>1, <1>2, <1>3 DEF Needed, Held
      <3>2. uploads'[u] = "invalid" => x # p
        BY <1>2 DEF Needed, Held, RowsInv, KeysApart, Written
      <3> QED
        BY <3>1, <3>2 DEF RowsInv, KeysApart, Written, Held, Needed
    <2> QED
      BY <1>2, <1>4, <2>1 DEF RowsInv, NeededKept
  <1>8. ChunksPlaced'
    BY <1>1, <1>2, <1>3, <1>5 DEF RowsInv, ChunksPlaced
  <1>9. ManifestsWhole'
    BY <1>1, <1>2, <1>3 DEF RowsInv, ManifestsWhole, ChunksOf, TypeOK
  <1> QED
    BY <1>6, <1>7, <1>8, <1>9 DEF RowsInv

LEMMA RowsUploads ==
  ASSUME TypeOK, Finite, RowsInv, UploadStep
  PROVE  RowsInv'
  <1>1. ASSUME NEW u \in Uploads, Abort(u)
        PROVE  RowsInv'
    BY <1>1, RowsEnded DEF Abort
  <1>2. ASSUME NEW u \in Uploads, Lapse(u)
        PROVE  RowsInv'
    BY <1>2, RowsUnchanged DEF Lapse
  <1>3. ASSUME NEW p \in puts, RefusePut(p)
        PROVE  RowsInv'
    <2>1. /\ puts' = puts \ {p} /\ doomed' \in {doomed, doomed \union {p.key}}
          /\ UNCHANGED <<uploads, chunks, manifests, attachments, attaching, objects>>
      BY <1>3 DEF RefusePut, rowVars
    <2>2. KeysApart' /\ ChunksPlaced' /\ ManifestsWhole'
      BY <2>1 DEF RowsInv, KeysApart, ChunksPlaced, ManifestsWhole, Written, Held,
         ChunksOf
    <2>3. ASSUME NEW x \in (Needed \union Held)'
          PROVE  x \in Needed \union Held /\ x.key # p.key
      BY <2>1 DEF Needed, Held, RowsInv, KeysApart, Written
    <2> QED
      BY <2>1, <2>2, <2>3 DEF RowsInv, NeededKept
  <1> QED
    BY <1>1, <1>2, <1>3, RowsBegin, RowsCommit, RowsStartPut, RowsRegister
    DEF UploadStep

LEMMA RowsAttachments ==
  ASSUME TypeOK, RowsInv, AttachmentStep
  PROVE  RowsInv'
  <1>1. ASSUME NEW a \in Attachments, NEW k \in Keys, ReserveAttachment(a, k)
        PROVE  RowsInv'
    <2> DEFINE q == [attachment |-> a, key |-> k]
    <2>1. /\ attaching' = attaching \union {q} /\ objects' = objects \union {k}
          /\ UNCHANGED <<uploads, chunks, manifests, attachments, puts, doomed>>
      BY <1>1 DEF ReserveAttachment, rowVars
    <2>2. k \notin doomed /\ \A x \in Written \union Held : x.key # k
      BY <1>1, UnusedKey DEF ReserveAttachment
    <2>3. q.key = k
      OBVIOUS
    <2> HIDE DEF q
    <2>4. KeysApart'
      BY <2>1, <2>2, <2>3 DEF RowsInv, KeysApart, Written, Held
    <2>5. NeededKept'
      BY <2>1, <2>2, <2>3 DEF RowsInv, NeededKept, Needed, Held
    <2>6. ChunksPlaced' /\ ManifestsWhole'
      BY <2>1 DEF RowsInv, ChunksPlaced, ManifestsWhole, ChunksOf
    <2> QED
      BY <2>4, <2>5, <2>6 DEF RowsInv
  <1>2. ASSUME NEW q \in attaching, CommitAttachment(q)
        PROVE  RowsInv'
    <2>1. /\ attaching' = attaching \ {q} /\ attachments' = attachments \union {q}
          /\ UNCHANGED <<uploads, chunks, manifests, objects, puts, doomed>>
      BY <1>2 DEF CommitAttachment
    <2>2. Held' = Held
      BY <2>1 DEF Held
    <2> QED
      BY <2>1, <2>2 DEF RowsInv, KeysApart, NeededKept, ChunksPlaced,
         ManifestsWhole, Written, Needed, ChunksOf
  <1>3. ASSUME NEW q \in Held, doomed' = doomed \union {q.key}, Held' = Held \ {q},
               attachments' \subseteq attachments, attaching' \subseteq attaching,
               UNCHANGED <<uploads, chunks, manifests, objects, puts>>
        PROVE  RowsInv'
    <2>1. KeysApart' /\ ChunksPlaced' /\ ManifestsWhole'
      BY <1>3 DEF RowsInv, KeysApart, ChunksPlaced, ManifestsWhole, Written, ChunksOf
    <2>2. ASSUME NEW x \in (Needed \union Held)'
          PROVE  x \in Needed \union Held /\ x.key # q.key
      BY <1>3 DEF Needed, RowsInv, KeysApart, Written
    <2> QED
      BY <1>3, <2>1, <2>2 DEF RowsInv, NeededKept
  <1>4. ASSUME NEW q \in attaching, ReleaseAttachment(q)
        PROVE  RowsInv'
    BY <1>3, <1>4 DEF ReleaseAttachment, rowVars, Held, RowsInv, KeysApart
  <1>5. ASSUME NEW r \in attachments, DeleteAttachment(r)
        PROVE  RowsInv'
    BY <1>3, <1>5 DEF DeleteAttachment, Held, RowsInv, KeysApart
  <1> QED
    BY <1>1, <1>2, <1>4, <1>5 DEF AttachmentStep

LEMMA RowsPurge ==
  ASSUME TypeOK, RowsInv, NEW n \in Notes, Purge(n)
  PROVE  RowsInv'
  <1> DEFINE lost == {r \in attachments : NoteOf[r.attachment] = n}
  <1>1. /\ chunks' = {c \in chunks : NoteOf[c.upload] # n}
        /\ manifests' = {u \in manifests : NoteOf[u] # n}
        /\ attachments' = attachments \ lost
        /\ UNCHANGED <<objects, puts, attaching>>
        /\ \A u \in Uploads : NoteOf[u] # n => uploads'[u] = uploads[u]
    BY DEF Purge
  <1>2. \A k \in doomed' : k \in doomed \/ \E r \in lost : r.key = k
    BY KeysOfMembers DEF Purge
  <1>3. \A c \in chunks : c.upload \in Uploads
    BY DEF TypeOK, Chunks
  <1>4. KeysApart'
    BY <1>1 DEF RowsInv, KeysApart, Written, Held
  <1>5. ASSUME NEW x \in (Needed \union Held)'
        PROVE  x \in Needed \union Held /\ \A r \in lost : r.key # x.key
    <2>1. x \in Needed \union (Held \ lost)
      BY <1>1, <1>3 DEF Needed, Held, RowsInv, KeysApart
    <2> QED
      BY <2>1 DEF RowsInv, KeysApart, Written, Needed, Held
  <1>6. NeededKept'
    BY <1>1, <1>2, <1>5 DEF RowsInv, NeededKept
  <1>7. ChunksPlaced'
    BY <1>1, <1>3 DEF RowsInv, ChunksPlaced
  <1>8. ManifestsWhole'
    BY <1>1 DEF RowsInv, ManifestsWhole, ChunksOf, TypeOK
  <1> QED
    BY <1>4, <1>6, <1>7, <1>8 DEF RowsInv

LEMMA RowsOthers ==
  ASSUME TypeOK, RowsInv, NoteStep \/ Maintenance \/ ServerStep
  PROVE  RowsInv'
  <1>1. ASSUME NEW n \in Notes, Rotate(n)
        PROVE  RowsInv'
    BY <1>1, RowsUnchanged DEF Rotate
  <1>2. ASSUME NEW n \in Notes, NEW d \in BOOLEAN, SetDeleted(n, d)
        PROVE  RowsInv'
    BY <1>2, RowsUnchanged DEF SetDeleted
  <1>3. ASSUME NEW page \in SUBSET Uploads, ExpireUploads(page)
        PROVE  RowsInv'
    BY <1>3, RowsEnded DEF ExpireUploads
  <1>4. ASSUME NEW page \in SUBSET Keys, SweepOrphans(page)
        PROVE  RowsInv'
    <2>1. /\ objects' = objects \ page
          /\ UNCHANGED <<uploads, chunks, manifests, attachments, puts, attaching,
                         doomed>>
      BY <1>4 DEF SweepOrphans, rowVars
    <2>2. \A x \in Written \union Held : x.key \notin page
      BY <1>4, KeysOfMembers DEF SweepOrphans, Referenced, Written, Held
    <2>3. KeysApart' /\ ChunksPlaced' /\ ManifestsWhole'
      BY <2>1 DEF RowsInv, KeysApart, ChunksPlaced, ManifestsWhole, Written, Held,
         ChunksOf
    <2>4. NeededKept'
      BY <2>1, <2>2 DEF RowsInv, NeededKept, Needed, Written, Held
    <2> QED
      BY <2>3, <2>4 DEF RowsInv
  <1>5. ASSUME NEW k \in Keys, DeleteObject(k)
        PROVE  RowsInv'
    BY <1>5 DEF DeleteObject, rowVars, RowsInv, KeysApart, NeededKept, ChunksPlaced,
       ManifestsWhole, Written, Held, Needed, ChunksOf
  <1>6. ASSUME Crash
        PROVE  RowsInv'
    BY <1>6 DEF Crash, rowVars, RowsInv, KeysApart, NeededKept, ChunksPlaced,
       ManifestsWhole, Written, Held, Needed, ChunksOf
  <1>7. ASSUME Reconcile
        PROVE  RowsInv'
    BY <1>7, RowsUnchanged DEF Reconcile, rowVars
  <1> QED
    BY <1>1, <1>2, <1>3, <1>4, <1>5, <1>6, <1>7, RowsPurge
    DEF NoteStep, Maintenance, ServerStep

-----------------------------------------------------------------------------
(* Sets that are counted stay finite, and no request runs in a server that  *)
(* does not listen.                                                         *)

LEMMA FiniteOneMore ==
  ASSUME NEW S, NEW T, NEW x, IsFiniteSet(S), T \subseteq S \union {x}
  PROVE  IsFiniteSet(T)
  <1>1. IsFiniteSet(S \union {x})
    BY FS_AddElement
  <1> QED
    BY <1>1, FS_Subset

(* A step adds at most one row to each set. *)
LEMMA OneRowMore ==
  ASSUME Next
  PROVE  /\ \E x : chunks' \subseteq chunks \union {x}
         /\ \E x : attachments' \subseteq attachments \union {x}
         /\ \E x : attaching' \subseteq attaching \union {x}
         /\ server' = "starting" => \/ puts' = {} /\ attaching' = {}
                                    \/ /\ server = "starting"
                                       /\ puts' \subseteq puts
                                       /\ attaching' \subseteq attaching
  <1> USE DEF vars, rowVars
  <1>1. CASE UploadStep
    BY <1>1 DEF UploadStep, Begin, Abort, Ended, Commit, Lapse, StartPut, RegisterChunk,
       RefusePut, Up
  <1>2. CASE AttachmentStep
    BY <1>2 DEF AttachmentStep, ReserveAttachment, CommitAttachment, ReleaseAttachment,
       DeleteAttachment, Up
  <1>3. CASE NoteStep
    BY <1>3 DEF NoteStep, Rotate, Purge, SetDeleted, Up
  <1>4. CASE Maintenance
    BY <1>4 DEF Maintenance, ExpireUploads, Ended, SweepOrphans
  <1>5. CASE ServerStep
    BY <1>5 DEF ServerStep, DeleteObject, Crash, Reconcile
  <1> QED
    BY <1>1, <1>2, <1>3, <1>4, <1>5 DEF Next

LEMMA FiniteStep ==
  ASSUME TypeOK, TypeOK', Finite, StartsIdle, Next
  PROVE  Finite' /\ StartsIdle'
  <1>1. Finite'
    BY OneRowMore, FiniteOneMore DEF Finite
  <1>2. StartsIdle'
    BY OneRowMore DEF StartsIdle, Up, TypeOK
  <1> QED
    BY <1>1, <1>2

-----------------------------------------------------------------------------
(* The account.  Each step moves the bytes of the rows it adds or removes.  *)

(* No step brings a permanently deleted note back. *)
Unpurged == \A n \in Notes : notes[n] # "purged"

(* A step that changes no count and does not move bytes. *)
LEMMA AccountSame ==
  ASSUME AccountKept, Up' => Up, Unpurged' => Unpurged,
         UNCHANGED <<account, manifests, attachments, attaching, Reserving>>
  PROVE  AccountKept'
  BY DEF AccountKept, AccountCovers, AccountExact, Owed, Unpurged

(* The bytes of the rows of each kind. *)
LEMMA Bytes ==
  ASSUME TypeOK, Finite
  PROVE  /\ ChunkCount * Cardinality(Reserving) \in Nat
         /\ ChunkCount * Cardinality(manifests) \in Nat
         /\ AttachmentSize * Cardinality(attachments) \in Nat
         /\ AttachmentSize * Cardinality(attaching) \in Nat
  BY Counts, Products, SizesAssumption

LEMMA AccountBegin ==
  ASSUME TypeOK, Finite, AccountKept, NEW u \in Uploads, Begin(u)
  PROVE  AccountKept'
  <1>1. u \notin Reserving /\ Reserving' = Reserving \union {u}
    BY DEF Begin, Reserving, TypeOK
  <1>2. Cardinality(Reserving') = Cardinality(Reserving) + 1
    BY <1>1, Counts, CountOneMore
  <1>3. ChunkCount * Cardinality(Reserving') = ChunkCount * Cardinality(Reserving) + ChunkCount
    BY <1>2, Counts, OneMore, SizesAssumption
  <1>4. /\ account'.used = account.used
        /\ account'.reserved = account.reserved + ChunkCount
        /\ account.used + account.reserved + ChunkCount <= QuotaBytes
        /\ UNCHANGED <<notes, server, manifests, attachments, attaching>>
    BY DEF Begin, Fits, TypeOK
  <1> QED
    BY <1>3, <1>4, Bytes, SizesAssumption
    DEF AccountKept, AccountCovers, AccountExact, Owed, Up, TypeOK

LEMMA AccountEnded ==
  ASSUME TypeOK, Finite, AccountKept, NEW S, S \subseteq Reserving,
         NEW status \in {"aborted", "expired"}, Ended(S, status)
  PROVE  AccountKept'
  <1>1. Reserving' = Reserving \ S
    BY DEF Ended, Reserving, TypeOK
  <1>2. /\ Cardinality(Reserving') = Cardinality(Reserving) - Cardinality(S)
        /\ Cardinality(S) \in Nat /\ Cardinality(S) <= Cardinality(Reserving)
    BY <1>1, Counts, CountLess
  <1>3. /\ ChunkCount * Cardinality(Reserving')
             = ChunkCount * Cardinality(Reserving) - ChunkCount * Cardinality(S)
        /\ ChunkCount * Cardinality(S) <= ChunkCount * Cardinality(Reserving)
        /\ ChunkCount * Cardinality(S) \in Nat
    BY <1>2, Counts, SomeLess, Products, SizesAssumption
  <1>4. /\ account'.used = account.used
        /\ account'.reserved = Released(account.reserved, ChunkCount * Cardinality(S))
        /\ UNCHANGED <<notes, server, manifests, attachments, attaching>>
    BY DEF Ended, TypeOK
  <1>5. account.reserved >= ChunkCount * Cardinality(S)
    BY <1>3, Bytes DEF AccountKept, AccountCovers, Owed, TypeOK
  <1>6. account'.reserved = account.reserved - ChunkCount * Cardinality(S)
    BY <1>4, <1>5 DEF Released
  <1> QED
    BY <1>3, <1>4, <1>6, Bytes, SizesAssumption
    DEF AccountKept, AccountCovers, AccountExact, Owed, Up, TypeOK

LEMMA AccountCommit ==
  ASSUME TypeOK, Finite, AccountKept, NEW u \in Uploads, Commit(u)
  PROVE  AccountKept'
  <1>1. /\ u \in Reserving /\ Reserving' = Reserving \ {u}
        /\ u \notin manifests /\ manifests' = manifests \union {u}
    BY DEF Commit, Reserving, TypeOK
  <1>2. /\ Cardinality(Reserving') = Cardinality(Reserving) - 1
        /\ Cardinality(Reserving) >= 1
        /\ Cardinality(manifests') = Cardinality(manifests) + 1
    BY <1>1, Counts, CountOneMore, CountOneLess
  <1>3. ChunkCount * Cardinality(manifests')
          = ChunkCount * Cardinality(manifests) + ChunkCount
    BY <1>2, Counts, OneMore, SizesAssumption
  <1>4. ChunkCount * Cardinality(Reserving')
          = ChunkCount * Cardinality(Reserving) - ChunkCount * 1
    BY <1>2, Counts, SomeLess, SizesAssumption
  <1>5. /\ account'.used = account.used + ChunkCount
        /\ account'.reserved = account.reserved - ChunkCount
        /\ UNCHANGED <<notes, server, attachments, attaching>>
    BY DEF Commit
  <1> QED
    BY <1>3, <1>4, <1>5, Bytes, SizesAssumption
    DEF AccountKept, AccountCovers, AccountExact, Owed, Up, TypeOK

LEMMA AccountUploads ==
  ASSUME TypeOK, Finite, AccountKept, UploadStep
  PROVE  AccountKept'
  <1>1. ASSUME NEW u \in Uploads, Abort(u)
        PROVE  AccountKept'
    BY <1>1, AccountEnded DEF Abort
  <1>2. ASSUME NEW u \in Uploads, Lapse(u)
        PROVE  AccountKept'
    BY <1>2, AccountSame DEF Lapse, Reserving, Up, Unpurged
  <1>3. ASSUME NEW u \in Uploads, NEW i \in 1..ChunkCount, NEW long \in BOOLEAN,
               NEW k \in Keys, StartPut(u, i, long, k)
        PROVE  AccountKept'
    BY <1>3, AccountSame DEF StartPut, rowVars, Reserving, Up, Unpurged
  <1>4. ASSUME NEW p \in puts, RegisterChunk(p)
        PROVE  AccountKept'
    <2>1. p.upload \in Uploads
      BY DEF TypeOK, Chunks
    <2>2. Reserving' = Reserving
      BY <1>4, <2>1 DEF RegisterChunk, Receives, Reserving, TypeOK
    <2> QED
      BY <1>4, <2>2, AccountSame DEF RegisterChunk, Up, Unpurged
  <1>5. ASSUME NEW p \in puts, RefusePut(p)
        PROVE  AccountKept'
    BY <1>5, AccountSame DEF RefusePut, rowVars, Reserving, Up, Unpurged
  <1> QED
    BY <1>1, <1>2, <1>3, <1>4, <1>5, AccountBegin, AccountCommit DEF UploadStep

LEMMA AccountReserve ==
  ASSUME TypeOK, Finite, AccountKept, NEW a \in Attachments, NEW k \in Keys,
         ReserveAttachment(a, k)
  PROVE  AccountKept'
  <1> DEFINE q == [attachment |-> a, key |-> k]
  <1>1. q \notin attaching
    BY UnusedKey DEF ReserveAttachment, Held
  <1>2. attaching' = attaching \union {q}
    BY DEF ReserveAttachment
  <1>3. Cardinality(attaching') = Cardinality(attaching) + 1
    BY <1>1, <1>2, CountOneMore DEF Finite
  <1>4. AttachmentSize * Cardinality(attaching')
          = AttachmentSize * Cardinality(attaching) + AttachmentSize
    BY <1>3, Counts, OneMore, SizesAssumption
  <1>5. /\ account'.used = account.used
        /\ account'.reserved = account.reserved + AttachmentSize
        /\ account.used + account.reserved + AttachmentSize <= QuotaBytes
        /\ UNCHANGED <<notes, server, manifests, attachments, Reserving>>
    BY DEF ReserveAttachment, Fits, TypeOK, rowVars, Reserving
  <1> QED
    BY <1>4, <1>5, Bytes, SizesAssumption
    DEF AccountKept, AccountCovers, AccountExact, Owed, Up, TypeOK

LEMMA AccountCommitAttachment ==
  ASSUME TypeOK, Finite, AccountKept, RowsInv, NEW q \in attaching, CommitAttachment(q)
  PROVE  AccountKept'
  <1>1. /\ q \notin attachments /\ attachments' = attachments \union {q}
        /\ attaching' = attaching \ {q}
    BY DEF CommitAttachment, RowsInv, KeysApart
  <1>2. /\ Cardinality(attachments') = Cardinality(attachments) + 1
        /\ Cardinality(attaching') = Cardinality(attaching) - 1
        /\ Cardinality(attaching) >= 1
    BY <1>1, CountOneMore, CountOneLess DEF Finite
  <1>3. AttachmentSize * Cardinality(attachments')
          = AttachmentSize * Cardinality(attachments) + AttachmentSize
    BY <1>2, Counts, OneMore, SizesAssumption
  <1>4. AttachmentSize * Cardinality(attaching')
          = AttachmentSize * Cardinality(attaching) - AttachmentSize * 1
    BY <1>2, Counts, SomeLess, SizesAssumption
  <1>5. /\ account'.used = account.used + AttachmentSize
        /\ account'.reserved = account.reserved - AttachmentSize
        /\ UNCHANGED <<notes, server, manifests, Reserving>>
    BY DEF CommitAttachment, Reserving
  <1> QED
    BY <1>3, <1>4, <1>5, Bytes, SizesAssumption
    DEF AccountKept, AccountCovers, AccountExact, Owed, Up, TypeOK

LEMMA AccountRelease ==
  ASSUME TypeOK, Finite, AccountKept, NEW q \in attaching, ReleaseAttachment(q)
  PROVE  AccountKept'
  <1>1. attaching' = attaching \ {q}
    BY DEF ReleaseAttachment
  <1>2. /\ Cardinality(attaching') = Cardinality(attaching) - 1
        /\ Cardinality(attaching) >= 1
    BY <1>1, CountOneLess DEF Finite
  <1>3. /\ AttachmentSize * Cardinality(attaching')
             = AttachmentSize * Cardinality(attaching) - AttachmentSize * 1
        /\ AttachmentSize * 1 <= AttachmentSize * Cardinality(attaching)
    BY <1>2, Counts, SomeLess, SizesAssumption
  <1>4. /\ account'.used = account.used
        /\ account'.reserved = Released(account.reserved, AttachmentSize)
        /\ UNCHANGED <<notes, server, manifests, attachments, Reserving>>
    BY DEF ReleaseAttachment, TypeOK, rowVars, Reserving
  <1>5. account.reserved >= AttachmentSize
    BY <1>3, Bytes, SizesAssumption DEF AccountKept, AccountCovers, Owed, TypeOK
  <1>6. account'.reserved = account.reserved - AttachmentSize
    BY <1>4, <1>5 DEF Released
  <1> QED
    BY <1>3, <1>4, <1>6, Bytes, SizesAssumption
    DEF AccountKept, AccountCovers, AccountExact, Owed, Up, TypeOK

LEMMA AccountDelete ==
  ASSUME TypeOK, Finite, AccountKept, NEW r \in attachments, DeleteAttachment(r)
  PROVE  AccountKept'
  <1>1. attachments' = attachments \ {r}
    BY DEF DeleteAttachment
  <1>2. /\ Cardinality(attachments') = Cardinality(attachments) - 1
        /\ Cardinality(attachments) >= 1
    BY <1>1, CountOneLess DEF Finite
  <1>3. /\ AttachmentSize * Cardinality(attachments')
             = AttachmentSize * Cardinality(attachments) - AttachmentSize * 1
        /\ AttachmentSize * 1 <= AttachmentSize * Cardinality(attachments)
    BY <1>2, Counts, SomeLess, SizesAssumption
  <1>4. /\ account'.used = Released(account.used, AttachmentSize)
        /\ account'.reserved = account.reserved
        /\ UNCHANGED <<notes, server, manifests, attaching, Reserving>>
    BY DEF DeleteAttachment, TypeOK, Reserving
  <1>5. account.used >= AttachmentSize
    BY <1>3, Bytes, SizesAssumption DEF AccountKept, AccountCovers, Owed, TypeOK
  <1>6. account'.used = account.used - AttachmentSize
    BY <1>4, <1>5 DEF Released
  <1> QED
    BY <1>3, <1>4, <1>6, Bytes, SizesAssumption
    DEF AccountKept, AccountCovers, AccountExact, Owed, Up, TypeOK

LEMMA AccountPurge ==
  ASSUME TypeOK, Finite, AccountKept, NEW n \in Notes, Purge(n)
  PROVE  AccountKept'
  <1> DEFINE lost == {r \in attachments : NoteOf[r.attachment] = n}
  <1>1. /\ attachments' = attachments \ lost
        /\ manifests' \subseteq manifests
        /\ Reserving' \subseteq Reserving
        /\ ~ Unpurged'
    BY DEF Purge, Reserving, TypeOK, Unpurged
  <1>2. /\ Cardinality(attachments') = Cardinality(attachments) - Cardinality(lost)
        /\ Cardinality(lost) \in Nat /\ Cardinality(lost) <= Cardinality(attachments)
    BY <1>1, CountLess DEF Finite
  <1>3. /\ Cardinality(manifests') \in Nat /\ Cardinality(manifests') <= Cardinality(manifests)
        /\ Cardinality(Reserving') \in Nat /\ Cardinality(Reserving') <= Cardinality(Reserving)
    BY <1>1, Counts, CountLess
  <1>4. /\ AttachmentSize * Cardinality(attachments')
             = AttachmentSize * Cardinality(attachments) - AttachmentSize * Cardinality(lost)
        /\ AttachmentSize * Cardinality(lost) <= AttachmentSize * Cardinality(attachments)
        /\ AttachmentSize * Cardinality(lost) \in Nat
    BY <1>2, Counts, SomeLess, Products, SizesAssumption
  <1>5. /\ ChunkCount * Cardinality(manifests') <= ChunkCount * Cardinality(manifests)
        /\ ChunkCount * Cardinality(Reserving') <= ChunkCount * Cardinality(Reserving)
        /\ ChunkCount * Cardinality(manifests') \in Nat
        /\ ChunkCount * Cardinality(Reserving') \in Nat
    BY <1>3, Counts, SomeLess, Products, SizesAssumption
  <1>6. /\ account'.used = Released(account.used, AttachmentSize * Cardinality(lost))
        /\ account'.reserved = account.reserved
        /\ attaching' = attaching
    BY DEF Purge, TypeOK
  <1>7. account.used >= AttachmentSize * Cardinality(lost)
    BY <1>4, Bytes DEF AccountKept, AccountCovers, Owed, TypeOK
  <1>8. account'.used = account.used - AttachmentSize * Cardinality(lost)
    BY <1>6, <1>7 DEF Released
  <1> QED
    BY <1>1, <1>4, <1>5, <1>6, <1>8, Bytes, SizesAssumption
    DEF AccountKept, AccountCovers, AccountExact, Owed, TypeOK, Unpurged

LEMMA AccountReconcile ==
  ASSUME TypeOK, Finite, StartsIdle, AccountKept, Reconcile
  PROVE  AccountKept'
  <1>1. /\ account' = Owed /\ attaching = {}
        /\ UNCHANGED <<notes, manifests, attachments, attaching, Reserving>>
    BY DEF Reconcile, StartsIdle, Up, rowVars, Reserving
  <1>2. AttachmentSize * Cardinality(attaching) = 0
    BY <1>1, FS_EmptySet, SizesAssumption
  <1> QED
    BY <1>1, <1>2, Bytes, SizesAssumption
    DEF AccountKept, AccountCovers, AccountExact, Owed, TypeOK

LEMMA AccountCrash ==
  ASSUME TypeOK, Finite, AccountKept, Crash
  PROVE  AccountKept'
  <1>1. /\ attaching' = {} /\ server' = "starting"
        /\ UNCHANGED <<account, manifests, attachments, Reserving>>
    BY DEF Crash, rowVars, Reserving
  <1>2. AttachmentSize * Cardinality(attaching') = 0
    BY <1>1, FS_EmptySet, SizesAssumption
  <1> QED
    BY <1>1, <1>2, Bytes, SizesAssumption
    DEF AccountKept, AccountCovers, AccountExact, Owed, TypeOK, Up

LEMMA AccountOthers ==
  ASSUME TypeOK, Finite, StartsIdle, AccountKept, NoteStep \/ Maintenance \/ ServerStep
  PROVE  AccountKept'
  <1>1. ASSUME NEW n \in Notes, Rotate(n)
        PROVE  AccountKept'
    BY <1>1, AccountSame DEF Rotate, Reserving, Up, Unpurged
  <1>2. ASSUME NEW n \in Notes, NEW d \in BOOLEAN, SetDeleted(n, d)
        PROVE  AccountKept'
    <2>1. Unpurged' => Unpurged
      BY <1>2 DEF SetDeleted, Unpurged, TypeOK
    <2> QED
      BY <1>2, <2>1, AccountSame DEF SetDeleted, Reserving, Up
  <1>3. ASSUME NEW page \in SUBSET Uploads, ExpireUploads(page)
        PROVE  AccountKept'
    BY <1>3, AccountEnded DEF ExpireUploads
  <1>4. ASSUME NEW page \in SUBSET Keys, SweepOrphans(page)
        PROVE  AccountKept'
    BY <1>4, AccountSame DEF SweepOrphans, rowVars, Reserving, Up, Unpurged
  <1>5. ASSUME NEW k \in Keys, DeleteObject(k)
        PROVE  AccountKept'
    BY <1>5, AccountSame DEF DeleteObject, rowVars, Reserving, Up, Unpurged
  <1> QED
    BY <1>1, <1>2, <1>3, <1>4, <1>5, AccountPurge, AccountReconcile, AccountCrash
    DEF NoteStep, Maintenance, ServerStep

-----------------------------------------------------------------------------
(* The inductive invariant. *)

LEMMA InitIInv == Init => IInv
  <1> SUFFICES ASSUME Init PROVE IInv
    OBVIOUS
  <1>1. Cardinality({}) = 0 /\ IsFiniteSet({})
    BY FS_EmptySet
  <1>2. Reserving = {} /\ Written = {} /\ Needed = {} /\ Held = {}
    BY DEF Init, Reserving, Written, Needed, Held
  <1>3. TypeOK
    BY SizesAssumption DEF Init, TypeOK, Statuses
  <1>4. KeysApart /\ NeededKept /\ ChunksPlaced /\ ManifestsWhole /\ StartsIdle
    BY <1>2 DEF Init, KeysApart, NeededKept, ChunksPlaced, ManifestsWhole, StartsIdle, Up
  <1>5. Finite
    BY <1>1 DEF Init, Finite
  <1>6. AccountCovers /\ AccountExact
    BY <1>1, <1>2, SizesAssumption DEF Init, AccountCovers, AccountExact, Owed
  <1> QED
    BY <1>3, <1>4, <1>5, <1>6 DEF IInv

LEMMA NextIInv == IInv /\ [Next]_vars => IInv'
  <1> SUFFICES ASSUME IInv, [Next]_vars PROVE IInv'
    OBVIOUS
  <1>1. CASE UNCHANGED vars
    BY <1>1 DEF vars, rowVars, IInv, TypeOK, KeysApart, NeededKept, ChunksPlaced,
       ManifestsWhole, StartsIdle, Finite, AccountCovers, AccountExact, Written, Held,
       Needed, ChunksOf, Owed, Reserving, Up
  <1>2. CASE Next
    <2>1. TypeOK'
      BY <1>2, TypeUploads, TypeAttachments, TypeOthers DEF Next
    <2>2. Finite' /\ StartsIdle'
      BY <1>2, <2>1, FiniteStep DEF IInv
    <2>3. RowsInv'
      BY <1>2, RowsUploads, RowsAttachments, RowsOthers DEF Next, IInv, RowsInv
    <2>4. ASSUME AttachmentStep
          PROVE  AccountKept'
      BY <2>4, AccountReserve, AccountCommitAttachment, AccountRelease, AccountDelete
      DEF AttachmentStep, IInv, AccountKept, RowsInv
    <2>5. AccountKept'
      BY <1>2, <2>4, AccountUploads, AccountOthers DEF Next, IInv, AccountKept
    <2> QED
      BY <2>1, <2>2, <2>3, <2>5 DEF IInv, RowsInv, AccountKept
  <1> QED
    BY <1>1, <1>2

(* The inductive invariant holds throughout. *)
THEOREM Invariance == Spec => []IInv
  BY InitIInv, NextIInv, PTL DEF Spec

(* The variables keep their types. *)
THEOREM TypeCorrect == Spec => []TypeOK
  <1>1. IInv => TypeOK
    BY DEF IInv
  <1> QED
    BY <1>1, Invariance, PTL

(* What a manifest names can be read: abort, expiry, rotation, the sweep of *)
(* orphans, late requests and crashes never take a chunk of it.             *)
THEOREM ContentKept == Spec => []CommittedReadable
  <1>1. IInv => CommittedReadable
    <2> SUFFICES ASSUME IInv, NEW u \in manifests, NEW i \in 1..ChunkCount
                 PROVE  \E c \in ChunksOf(u) : c.index = i /\ ~c.long /\ c.key \in objects
      BY DEF CommittedReadable
    <2>1. PICK c \in ChunksOf(u) : c.index = i /\ ~c.long
      BY DEF IInv, ManifestsWhole
    <2>2. c \in Needed
      BY DEF IInv, ManifestsWhole, ChunksOf, Needed
    <2> QED
      BY <2>1, <2>2 DEF IInv, NeededKept
  <1> QED
    BY <1>1, Invariance, PTL

(* The server never sets out to delete what a manifest or an attachment    *)
(* names.                                                                  *)
THEOREM OnlyLeftoversDoomed == Spec => []DeletionsMeant
  <1>1. IInv => DeletionsMeant
    <2> SUFFICES ASSUME IInv PROVE DeletionsMeant
      OBVIOUS
    <2>1. \A u \in manifests : \A c \in ChunksOf(u) : c \in Needed
      BY DEF IInv, ManifestsWhole, ChunksOf, Needed
    <2>2. attachments \subseteq Held
      BY DEF Held
    <2> QED
      BY <2>1, <2>2 DEF IInv, NeededKept, DeletionsMeant
  <1> QED
    BY <1>1, Invariance, PTL

(* Whatever ends an upload or an attachment, at any step and after any      *)
(* crash, the account keeps covering what is held and leaks nothing.       *)
THEOREM AccountAlwaysKept == Spec => []AccountKept
  <1>1. IInv => AccountKept
    BY DEF IInv, AccountKept
  <1> QED
    BY <1>1, Invariance, PTL

(* The owner's bytes are all counted, and never above the quota.            *)
THEOREM QuotaKept == Spec => []AccountCovers
  <1>1. IInv => AccountCovers
    BY DEF IInv
  <1> QED
    BY <1>1, Invariance, PTL

(* No path out of an upload or an attachment leaks or doubles a byte.       *)
THEOREM NothingLeaks == Spec => []AccountExact
  <1>1. IInv => AccountExact
    BY DEF IInv
  <1> QED
    BY <1>1, Invariance, PTL

-----------------------------------------------------------------------------
(* SectionSync: the types. *)

(* What is stored is in the log.                                           *)
LogTyped ==
  /\ log \in Seq(Rows)
  /\ Len(log) <= MaxSequence
  /\ stored \subseteq 1..Len(log)

(* The hub knows clients by their connections; a fan-out is of a row of    *)
(* the log.                                                                *)
HubTyped ==
  /\ clients \in Seq(Clients)
  /\ IsInjective(clients)
  /\ subscribed \subseteq ToSet(clients)
  /\ publishing \subseteq [sequence : 1..Len(log), by : Clients \union {None},
                           left : SUBSET ToSet(clients)]
  /\ IsFiniteSet(publishing)
  /\ responses \subseteq [client : Clients, id : Ids, sequence : 1..Len(log)]

(* A request names a row of the log, and is gone with its connection.      *)
RequestsTyped ==
  /\ requests \in [Clients -> Seq(Nat)]
  /\ \A c \in Clients :
       /\ \A i \in 1..Len(requests[c]) : requests[c][i] <= Len(log)
       /\ ~Connected(c) => requests[c] = <<>>

(* A message names a row of the log; only the end of a page may name none. *)
SocketsTyped ==
  /\ socket \in [Clients -> Seq(Messages)]
  /\ \A c \in Clients :
       /\ \A i \in 1..Len(socket[c]) :
            /\ socket[c][i].sequence <= Len(log)
            /\ socket[c][i].kind = "frame" => socket[c][i].sequence >= 1
       /\ ~Connected(c) => socket[c] = <<>>

(* A client has merged, received and failed on rows of the log only.       *)
DocumentsTyped ==
  /\ doc \in [Clients -> SUBSET Edits]
  /\ observed \in [Clients -> 0..Len(log)]
  /\ ready \subseteq Clients
  /\ failed \in [Clients -> SUBSET (1..Len(log))]
  /\ receiving \in [Clients -> Seq(Nat)]
  /\ \A c \in Clients : \A i \in 1..Len(receiving[c]) : receiving[c][i] <= Len(log)

(* A record and a checkpoint compact rows of the log only.                 *)
RecordsTyped ==
  /\ outbox \in [Clients -> SUBSET Records]
  /\ checkpoint \in [Clients -> [phase : {"none", "encoding", "sent", "orphaned"},
                                 id : Checkpoints \union {None},
                                 cutoff : Sequences0, unmerged : SUBSET Edits]]
  /\ \A c \in Clients : /\ checkpoint[c].cutoff <= Len(log)
                        /\ checkpoint[c].phase # "none" => checkpoint[c].id \in Checkpoints
                        /\ \A r \in outbox[c] : r.cutoff <= Len(log)

(* The inductive form of SyncTypeOK.                                       *)
SyncTypeInv ==
  /\ LogTyped /\ HubTyped /\ RequestsTyped /\ SocketsTyped
  /\ DocumentsTyped /\ RecordsTyped
  /\ budget \in [disconnects : Nat, failures : Nat, resubscribes : Nat]

-----------------------------------------------------------------------------
(* SectionSync: every step keeps the types. *)

(* A set of natural numbers has a least one.                               *)
LEMMA LeastNumber ==
  ASSUME NEW S \in SUBSET Nat, S # {}
  PROVE  \E n \in S : \A m \in S : n <= m
PROOF
  <1>1. PICK n \in S : \A m \in S : ~ (<<m, n>> \in OpToRel(<, Nat))
    BY NatLessThanWellFounded, WFMin
  <1>2. \A m \in S : ~ (m < n)
    BY <1>1 DEF OpToRel
  <1>3. QED  BY <1>2

(* The inductive form implies the type invariant of the runs.              *)
LEMMA SyncTypedGivesOK ==
  ASSUME SyncTypeInv  PROVE SyncTypeOK
PROOF
  <1>1. /\ \A n \in DOMAIN log : log[n] \in Rows
        /\ Len(log) <= MaxSequence
        /\ stored \subseteq DOMAIN log
    BY DEF SyncTypeInv, LogTyped
  <1>2. /\ IsInjective(clients) /\ ToSet(clients) \subseteq Clients
        /\ subscribed \subseteq ToSet(clients)
        /\ \A p \in publishing : /\ p.sequence \in DOMAIN log
                                 /\ p.by \in Clients \union {None}
                                 /\ p.left \subseteq ToSet(clients)
    BY DEF SyncTypeInv, LogTyped, HubTyped, ToSet
  <1>3. \A c \in Clients : ToSet(requests[c]) \subseteq 0..Len(log)
    BY DEF SyncTypeInv, LogTyped, RequestsTyped, ToSet
  <1>4. \A c \in Clients : ToSet(socket[c]) \subseteq Messages
    BY DEF SyncTypeInv, SocketsTyped, ToSet
  <1>5. \A c \in Clients : ToSet(receiving[c]) \subseteq 0..Len(log)
    BY DEF SyncTypeInv, LogTyped, DocumentsTyped, ToSet
  <1>6. \A c \in Clients : outbox[c] \subseteq Records
    BY DEF SyncTypeInv, RecordsTyped
  <1>7. /\ doc \in [Clients -> SUBSET Edits]
        /\ observed \in [Clients -> 0..Len(log)]
        /\ ready \subseteq Clients
        /\ failed \in [Clients -> SUBSET DOMAIN log]
    BY DEF SyncTypeInv, LogTyped, DocumentsTyped
  <1>8. QED
    BY <1>1, <1>2, <1>3, <1>4, <1>5, <1>6, <1>7 DEF SyncTypeOK, SyncTypeInv, RecordsTyped

(* It holds initially: the connections are some order of the clients.      *)
LEMMA SyncInitTyped ==
  ASSUME SyncInit  PROVE SyncTypeInv
PROOF
  <1> USE DEF SyncInit
  <1>1. LogTyped
    BY SyncBounds DEF LogTyped
  <1>2. clients \in Seq(Clients) /\ IsInjective(clients) /\ ToSet(clients) = Clients
    <2> DEFINE D == 1..Cardinality(Clients)
    <2>1. clients \in [D -> Clients] /\ \A i, j \in D : i # j => clients[i] # clients[j]
      BY DEF SetToSeqs
    <2>2. Cardinality(Clients) \in Nat
      BY ClientsAssumption, FS_CardinalityType
    <2>3. clients \in Injection(D, Clients)
      BY <2>1 DEF Injection, IsInjective
    <2>4. IsFiniteSet(D) /\ Cardinality(D) = Cardinality(Clients)
      BY <2>2, FS_Interval
    <2>5. clients \in Surjection(D, Clients)
      BY <2>3, <2>4, ClientsAssumption, FS_Injection
    <2>6. clients \in Seq(Clients) /\ DOMAIN clients = D
      BY <2>1, <2>2
    <2>7. QED
      BY <2>1, <2>5, <2>6 DEF Surjection, IsInjective, ToSet
  <1>3. HubTyped
    BY <1>2, FS_EmptySet DEF HubTyped
  <1>4. RequestsTyped /\ SocketsTyped /\ DocumentsTyped
    BY <1>2 DEF Connected, RequestsTyped, SocketsTyped, DocumentsTyped
  <1>5. RecordsTyped
    BY SyncBounds DEF RecordsTyped, NoCheckpoint, Sequences0
  <1>6. QED
    BY <1>1, <1>3, <1>4, <1>5 DEF SyncTypeInv

(* Contents are of edits.                                                  *)
LEMMA ContentTyped ==
  ASSUME SyncTypeInv, NEW S \in SUBSET (1..Len(log))
  PROVE  ContentOf(S) \subseteq Edits
  <1>1. ASSUME NEW n \in S PROVE log[n].content \subseteq Edits
    <2>1. log[n] \in Rows
      BY DEF SyncTypeInv, LogTyped
    <2> QED BY <2>1 DEF Rows
  <1> QED BY <1>1 DEF ContentOf

(* An inserted row is the last; the others stay what they were.            *)
LEMMA RowInserted ==
  ASSUME SyncTypeInv, NEW c \in Clients, NEW r \in outbox[c], InsertRow(r)
  PROVE  /\ LogTyped'
         /\ Len(log') = Len(log) + 1
         /\ Len(log) \in Nat
         /\ \A n \in 1..Len(log) : log'[n] = log[n]
         /\ log'[Len(log) + 1] = RowOf(r)
         /\ stored' = {n \in stored : n > r.cutoff} \union {Len(log) + 1}
PROOF
  <1> DEFINE row == RowOf(r)
  <1>1. log \in Seq(Rows) /\ stored \subseteq 1..Len(log) /\ Len(log) \in Nat
    BY DEF SyncTypeInv, LogTyped
  <1>2. r \in Records
    BY DEF SyncTypeInv, RecordsTyped
  <1>3. row \in Rows
    BY <1>2 DEF Rows, Records, RowOf
  <1>4. log' = Append(log, row) /\ Len(log) < MaxSequence
        /\ stored' = {n \in stored : n > r.cutoff} \union {Len(log) + 1}
    BY DEF InsertRow
  <1> HIDE DEF row
  <1>5. /\ log' \in Seq(Rows) /\ Len(log') = Len(log) + 1
        /\ \A n \in 1..Len(log) : log'[n] = log[n]
        /\ log'[Len(log) + 1] = row
    BY <1>1, <1>3, <1>4
  <1>6. Len(log') <= MaxSequence
    BY <1>1, <1>4, <1>5, SyncBounds
  <1>7. stored' \subseteq 1..Len(log')
    <2>1. \A n \in stored : n \in 1..(Len(log) + 1)
      BY <1>1
    <2>2. Len(log) + 1 \in 1..(Len(log) + 1)
      BY <1>1
    <2>3. stored' \subseteq 1..(Len(log) + 1)
      BY <1>4, <2>1, <2>2
    <2>4. QED  BY <1>5, <2>3
  <1>8. LogTyped'
    BY <1>5, <1>6, <1>7 DEF LogTyped
  <1>9. QED
    BY <1>1, <1>4, <1>5, <1>8 DEF row

(* What clients have received stays typed when a row is added.             *)
LEMMA ClientsKept ==
  ASSUME SyncTypeInv, Len(log') \in {Len(log), Len(log) + 1},
         UNCHANGED <<clients, requests, socket, doc, observed, ready, failed, receiving>>
  PROVE  RequestsTyped' /\ SocketsTyped' /\ DocumentsTyped'
PROOF
  <1>1. Len(log) \in Nat
    BY DEF SyncTypeInv, LogTyped
  <1>2. RequestsTyped'
    BY <1>1 DEF SyncTypeInv, RequestsTyped, Connected
  <1>3. SocketsTyped'
    <2>1. /\ socket \in [Clients -> Seq(Messages)]
          /\ \A c \in Clients : \A i \in 1..Len(socket[c]) :
               /\ socket[c][i].sequence <= Len(log)
               /\ socket[c][i].kind = "frame" => socket[c][i].sequence >= 1
      BY DEF SyncTypeInv, SocketsTyped
    <2>2. \A c \in Clients : \A i \in 1..Len(socket[c]) :
               socket[c][i].sequence <= Len(log')
      <3> TAKE c \in Clients
      <3> TAKE i \in 1..Len(socket[c])
      <3>1. socket[c][i] \in Messages
        BY <2>1
      <3>2. socket[c][i].sequence \in Nat
        BY <3>1, SyncBounds DEF Messages, Sequences0
      <3> QED  BY <2>1, <3>2, <1>1
    <2>3. QED  BY <2>1, <2>2 DEF SyncTypeInv, SocketsTyped, Connected
  <1>4. DocumentsTyped'
    BY <1>1 DEF SyncTypeInv, DocumentsTyped
  <1>5. QED  BY <1>2, <1>3, <1>4

(* So do their records                                                     *)
LEMMA RecordsKept ==
  ASSUME SyncTypeInv, Len(log') \in {Len(log), Len(log) + 1},
         UNCHANGED <<outbox, checkpoint>>
  PROVE  RecordsTyped'
PROOF
  <1>1. Len(log) \in Nat
    BY DEF SyncTypeInv, LogTyped
  <1>2. \A c \in Clients : checkpoint[c].cutoff \in Nat /\ \A r \in outbox[c] : r.cutoff \in Nat
    BY SyncBounds DEF SyncTypeInv, RecordsTyped, Records, Sequences0
  <1>3. QED  BY <1>1, <1>2 DEF SyncTypeInv, RecordsTyped

(* and, without a new row, what the hub keeps.                             *)
LEMMA HubKept ==
  ASSUME SyncTypeInv, Len(log') = Len(log),
         UNCHANGED <<clients, subscribed, publishing, responses>>
  PROVE  HubTyped'
PROOF
  BY DEF SyncTypeInv, HubTyped

(* An acknowledgement only removes records and ends a checkpoint.          *)
LEMMA SettleTyped ==
  ASSUME SyncTypeInv, NEW c \in Clients, NEW id, Settle(c, id), Len(log') = Len(log)
  PROVE  RecordsTyped'
PROOF
  <1>1. Len(log) \in Nat
    BY DEF SyncTypeInv, LogTyped
  <1>2. 0 \in Sequences0
    BY SyncBounds DEF Sequences0
  <1>3. /\ outbox' \in [Clients -> SUBSET Records]
        /\ \A d \in Clients : outbox'[d] \subseteq outbox[d]
    BY DEF SyncTypeInv, RecordsTyped, Settle
  <1>4. NoCheckpoint \in [phase : {"none", "encoding", "sent", "orphaned"},
                          id : Checkpoints \union {None},
                          cutoff : Sequences0, unmerged : SUBSET Edits]
    BY <1>2 DEF NoCheckpoint
  <1>5. /\ checkpoint' \in [Clients -> [phase : {"none", "encoding", "sent", "orphaned"},
                                        id : Checkpoints \union {None},
                                        cutoff : Sequences0, unmerged : SUBSET Edits]]
        /\ \A d \in Clients : checkpoint'[d] \in {checkpoint[d], NoCheckpoint}
    BY <1>4 DEF SyncTypeInv, RecordsTyped, Settle
  <1>6. \A d \in Clients :
          /\ checkpoint'[d].cutoff <= Len(log')
          /\ checkpoint'[d].phase # "none" => checkpoint'[d].id \in Checkpoints
    BY <1>1, <1>5 DEF SyncTypeInv, RecordsTyped, NoCheckpoint
  <1>7. QED
    BY <1>3, <1>5, <1>6 DEF SyncTypeInv, RecordsTyped

(* A fan-out of the new row begins.                                        *)
LEMMA PublishingStarted ==
  ASSUME SyncTypeInv, Len(log') = Len(log) + 1, UNCHANGED <<clients, subscribed>>,
         NEW by \in Clients \union {None}, NEW left \in SUBSET ToSet(clients),
         StartPublishing(by, left),
         responses' \subseteq responses \union
           [client : Clients, id : Ids, sequence : {Len(log) + 1}]
  PROVE  HubTyped'
PROOF
  <1>1. Len(log) \in Nat
    BY DEF SyncTypeInv, LogTyped
  <1> DEFINE p == [sequence |-> Len(log) + 1, by |-> by, left |-> left]
             Fanouts == [sequence : 1..Len(log'), by : Clients \union {None},
                         left : SUBSET ToSet(clients)]
  <1>2. publishing' = publishing \union {p}
    BY DEF StartPublishing
  <1>3. p \in Fanouts
    BY <1>1
  <1>4. publishing \subseteq Fanouts
    BY <1>1 DEF SyncTypeInv, HubTyped
  <1>5. IsFiniteSet(publishing')
    BY <1>2, FS_AddElement DEF SyncTypeInv, HubTyped
  <1>6. responses' \subseteq [client : Clients, id : Ids, sequence : 1..Len(log')]
    BY <1>1 DEF SyncTypeInv, HubTyped
  <1>7. publishing' \subseteq [sequence : 1..Len(log'), by : Clients \union {None},
                         left : SUBSET ToSet(clients)]
    BY <1>2, <1>3, <1>4
  <1>8. QED
    BY <1>5, <1>6, <1>7 DEF SyncTypeInv, HubTyped

(* Composing an edit or a checkpoint keeps the types.                      *)
LEMMA ComposingTyped ==
  ASSUME SyncTypeInv, NEW c \in Clients,
         \/ \E e \in Edits : Edit(c, e)
         \/ \E k \in Checkpoints : BeginCheckpoint(c, k)
         \/ SealCheckpoint(c)
  PROVE  SyncTypeInv'
PROOF
  <1> USE DEF serverVars, socketVars
  <1>1. Len(log) \in Nat /\ 0 \in Sequences0 /\ Len(log) \in Sequences0
    BY SyncBounds DEF SyncTypeInv, LogTyped, Sequences0
  <1>2. CASE \E e \in Edits : Edit(c, e)
    <2>1. PICK e \in Edits : Edit(c, e)
      BY <1>2
    <2> DEFINE r == [id |-> e, cutoff |-> 0, content |-> {e}, unmerged |-> {},
                     relayed |-> FALSE]
    <2>2. r \in Records /\ r.cutoff = 0
      BY <1>1 DEF Records, Ids
    <2>3. outbox' = [outbox EXCEPT ![c] = @ \union {r}] /\ UNCHANGED checkpoint
      BY <2>1 DEF Edit, Enqueue
    <2> HIDE DEF r
    <2>4. UNCHANGED <<log, stored, clients, subscribed, publishing, responses, requests,
                      socket, observed, ready, failed, receiving, budget>>
          /\ doc' = [doc EXCEPT ![c] = @ \union {e}]
      BY <2>1 DEF Edit
    <2>5. RecordsTyped'
      BY <1>1, <2>2, <2>3, <2>4 DEF SyncTypeInv, RecordsTyped
    <2>6. DocumentsTyped'
      BY <2>4 DEF SyncTypeInv, DocumentsTyped
    <2>7. QED
      BY <2>4, <2>5, <2>6 DEF SyncTypeInv, LogTyped, HubTyped, RequestsTyped, Connected, SocketsTyped
  <1>3. CASE \E k \in Checkpoints : BeginCheckpoint(c, k)
    <2>1. PICK k \in Checkpoints : BeginCheckpoint(c, k)
      BY <1>3
    <2>2. UNCHANGED <<log, stored, clients, subscribed, publishing, responses, requests,
                      socket, doc, observed, ready, failed, receiving, outbox, budget>>
          /\ checkpoint' = [checkpoint EXCEPT ![c] =
               [phase |-> "encoding", id |-> k, cutoff |-> observed[c],
                unmerged |-> ContentOf(1..observed[c]) \ doc[c]]]
      BY <2>1 DEF BeginCheckpoint
    <2>3. observed[c] \in Sequences0 /\ observed[c] <= Len(log)
      BY SyncBounds DEF SyncTypeInv, LogTyped, DocumentsTyped, Sequences0
    <2>6. ContentOf(1..observed[c]) \ doc[c] \in SUBSET Edits
      <3>1. 1..observed[c] \in SUBSET (1..Len(log))
        BY <1>1, <2>3 DEF Sequences0
      <3> QED BY <3>1, ContentTyped
    <2>4. RecordsTyped'
      BY <2>2, <2>3, <2>6 DEF SyncTypeInv, RecordsTyped
    <2>5. QED
      BY <2>2, <2>4 DEF SyncTypeInv, LogTyped, HubTyped, RequestsTyped, Connected, SocketsTyped, DocumentsTyped
  <1>4. CASE SealCheckpoint(c)
    <2> DEFINE r == [id |-> checkpoint[c].id, cutoff |-> checkpoint[c].cutoff,
                     content |-> doc[c], unmerged |-> checkpoint[c].unmerged,
                     relayed |-> FALSE]
    <2>1. UNCHANGED <<log, stored, clients, subscribed, publishing, responses, requests,
                      socket, doc, observed, ready, failed, receiving, budget>>
          /\ checkpoint' = [checkpoint EXCEPT ![c].phase = "sent"]
          /\ outbox' = [outbox EXCEPT ![c] = @ \union {r}]
      BY <1>4 DEF SealCheckpoint, Enqueue
    <2>2. r \in Records /\ r.cutoff <= Len(log)
      BY <1>4 DEF SealCheckpoint, SyncTypeInv, RecordsTyped, DocumentsTyped, Records, Ids
    <2> HIDE DEF r
    <2>5. checkpoint[c].phase = "encoding"
      BY <1>4 DEF SealCheckpoint
    <2>6. /\ checkpoint \in [Clients -> [phase : {"none", "encoding", "sent", "orphaned"},
                                          id : Checkpoints \union {None},
                                          cutoff : Sequences0, unmerged : SUBSET Edits]]
          /\ outbox \in [Clients -> SUBSET Records]
      BY DEF SyncTypeInv, RecordsTyped
    <2>7. /\ checkpoint' \in [Clients -> [phase : {"none", "encoding", "sent", "orphaned"},
                                           id : Checkpoints \union {None},
                                           cutoff : Sequences0, unmerged : SUBSET Edits]]
          /\ \A d \in Clients : checkpoint'[d].cutoff = checkpoint[d].cutoff
                               /\ checkpoint'[d].id = checkpoint[d].id
                               /\ checkpoint'[d].phase # checkpoint[d].phase => d = c
      BY <2>1, <2>6
    <2>8. /\ outbox' \in [Clients -> SUBSET Records]
          /\ \A d \in Clients : outbox'[d] \subseteq outbox[d] \union {r}
      BY <2>1, <2>2, <2>6
    <2>3. RecordsTyped'
      BY <2>1, <2>2, <2>5, <2>7, <2>8 DEF SyncTypeInv, RecordsTyped
    <2>4. QED
      BY <2>1, <2>3 DEF SyncTypeInv, LogTyped, HubTyped, RequestsTyped, Connected, SocketsTyped, DocumentsTyped
  <1>5. QED  BY <1>2, <1>3, <1>4

(* A sequence with one more element.                                       *)
LEMMA Appended ==
  ASSUME NEW S, NEW s \in Seq(S), NEW x \in S
  PROVE  /\ Append(s, x) \in Seq(S) /\ Len(Append(s, x)) = Len(s) + 1
         /\ \A i \in 1..Len(Append(s, x)) :
              \/ i \in 1..Len(s) /\ Append(s, x)[i] = s[i]
              \/ i = Len(s) + 1 /\ Append(s, x)[i] = x
         /\ \A i \in 1..Len(s) : Append(s, x)[i] = s[i]
         /\ Append(s, x)[Len(s) + 1] = x
PROOF
  OBVIOUS

(* Storing a record, or finding it stored, keeps the types.                *)
LEMMA DeliveryTyped ==
  ASSUME SyncTypeInv, NEW c \in Clients, NEW r \in outbox[c], Deliver(c, r)
  PROVE  SyncTypeInv'
PROOF
  <1> USE DEF serverVars, socketVars, clientVars
  <1>1. Len(log) \in Nat
    BY DEF SyncTypeInv, LogTyped
  <1>2. CASE Persist(c, r)
    <2>1. /\ InsertRow(r)
          /\ StartPublishing(c, IF r.relayed THEN ToSet(clients) ELSE ToSet(clients) \ {c})
          /\ UNCHANGED <<clients, subscribed, responses, requests, socket, doc, observed,
                         ready, failed, receiving, outbox, checkpoint, budget>>
      BY <1>2 DEF Persist
    <2>2. LogTyped' /\ Len(log') = Len(log) + 1
      BY <2>1, RowInserted
    <2>3. HubTyped'
      <3> DEFINE left == IF r.relayed THEN ToSet(clients) ELSE ToSet(clients) \ {c}
      <3>1. left \in SUBSET ToSet(clients) /\ c \in Clients \union {None}
        OBVIOUS
      <3>2. StartPublishing(c, left)
        BY <2>1
      <3> HIDE DEF left
      <3>3. QED
        BY <2>1, <2>2, <3>1, <3>2, PublishingStarted
    <2>4. RequestsTyped' /\ SocketsTyped' /\ DocumentsTyped' /\ RecordsTyped'
      BY <2>1, <2>2, ClientsKept, RecordsKept
    <2>5. QED
      BY <2>1, <2>2, <2>3, <2>4 DEF SyncTypeInv
  <1>3. CASE AlreadyPresent(c, r)
    <2>1. /\ Settle(c, r.id)
          /\ UNCHANGED <<log, stored, clients, subscribed, publishing, responses, requests,
                         socket, doc, observed, ready, failed, receiving, budget>>
      BY <1>3 DEF AlreadyPresent
    <2>2. LogTyped' /\ HubTyped'
      BY <2>1, HubKept DEF SyncTypeInv, LogTyped
    <2>3. RequestsTyped' /\ SocketsTyped' /\ DocumentsTyped'
      BY <2>1, ClientsKept
    <2>4. RecordsTyped'
      BY <2>1, SettleTyped
    <2>5. QED
      BY <2>1, <2>2, <2>3, <2>4 DEF SyncTypeInv
  <1>4. CASE CommitManifest(c, r)
    <2>1. /\ InsertRow(r)
          /\ StartPublishing(None, ToSet(clients))
          /\ responses' = responses \union
               {[client |-> c, id |-> r.id, sequence |-> Len(log) + 1]}
          /\ UNCHANGED <<clients, subscribed, requests, socket, doc, observed,
                         ready, failed, receiving, outbox, checkpoint, budget>>
      BY <1>4 DEF CommitManifest
    <2>2. LogTyped' /\ Len(log') = Len(log) + 1
      BY <2>1, RowInserted
    <2>3. HubTyped'
      <3>1. ToSet(clients) \in SUBSET ToSet(clients) /\ None \in Clients \union {None}
        OBVIOUS
      <3>2. r.id \in Ids
        BY DEF SyncTypeInv, RecordsTyped, Records
      <3>3. responses' \subseteq responses \union
              [client : Clients, id : Ids, sequence : {Len(log) + 1}]
        BY <2>1, <3>2
      <3>4. QED
        BY <2>1, <2>2, <3>1, <3>3, PublishingStarted
    <2>4. RequestsTyped' /\ SocketsTyped' /\ DocumentsTyped' /\ RecordsTyped'
      BY <2>1, <2>2, ClientsKept, RecordsKept
    <2>5. QED
      BY <2>1, <2>2, <2>3, <2>4 DEF SyncTypeInv
  <1>5. QED  BY <1>2, <1>3, <1>4 DEF Deliver

(* So does a recipient served,                                             *)
LEMMA FanOutTyped ==
  ASSUME SyncTypeInv, NEW p \in publishing, FanOut(p)
  PROVE  SyncTypeInv'
PROOF
  <1>1. PICK c \in Clients :
          /\ socket' = IF c \in subscribed
                       THEN [socket EXCEPT ![c] =
                               Append(@, [kind |-> "frame", sequence |-> p.sequence])]
                       ELSE socket
          /\ publishing' = (publishing \ {p}) \union {[p EXCEPT !.left = @ \ {c}]}
          /\ UNCHANGED <<log, stored, clients, subscribed, responses, requests, doc,
                         observed, ready, failed, receiving, outbox, checkpoint, budget>>
    BY DEF FanOut, clientVars
  <1>2. Len(log) \in Nat /\ Len(log) \in Sequences0
    BY SyncBounds DEF SyncTypeInv, LogTyped, Sequences0
  <1>3. p \in [sequence : 1..Len(log), by : Clients \union {None},
               left : SUBSET ToSet(clients)]
    BY DEF SyncTypeInv, HubTyped
  <1>4. HubTyped'
    <2>1. [p EXCEPT !.left = @ \ {c}] \in
            [sequence : 1..Len(log), by : Clients \union {None}, left : SUBSET ToSet(clients)]
      BY <1>3
    <2>2. IsFiniteSet(publishing')
      BY <1>1, FS_AddElement, FS_RemoveElement DEF SyncTypeInv, HubTyped
    <2>3. QED
      BY <1>1, <2>1, <2>2 DEF SyncTypeInv, HubTyped
  <1>5. SocketsTyped'
    <2> DEFINE m == [kind |-> "frame", sequence |-> p.sequence]
    <2>1. m \in Messages /\ m.sequence <= Len(log) /\ m.sequence >= 1
      BY <1>2, <1>3, SyncBounds DEF Messages, Sequences0, SyncTypeInv, LogTyped
    <2>2. socket' = IF c \in subscribed THEN [socket EXCEPT ![c] = Append(@, m)] ELSE socket
      BY <1>1
    <2> HIDE DEF m
    <2>3. /\ socket \in [Clients -> Seq(Messages)]
          /\ \A d \in Clients : \A i \in 1..Len(socket[d]) :
               /\ socket[d][i].sequence <= Len(log)
               /\ socket[d][i].kind = "frame" => socket[d][i].sequence >= 1
      BY DEF SyncTypeInv, SocketsTyped
    <2>4. socket' \in [Clients -> Seq(Messages)]
      BY <2>1, <2>2, <2>3
    <2>5. ASSUME NEW d \in Clients, NEW i \in 1..Len(socket'[d])
          PROVE  \/ socket'[d][i] = m
                 \/ i \in 1..Len(socket[d]) /\ socket'[d][i] = socket[d][i]
      <3>1. CASE d = c /\ c \in subscribed
        <4>1. socket[c] \in Seq(Messages) /\ socket'[d] = Append(socket[c], m)
          BY <2>2, <2>3, <3>1
        <4>2. QED
          BY <2>1, <4>1, <3>1, Appended
      <3>2. CASE ~(d = c /\ c \in subscribed)
        BY <2>2, <2>3, <3>2
      <3>3. QED  BY <3>1, <3>2
    <2>6. QED
      BY <1>1, <2>1, <2>2, <2>3, <2>4, <2>5
         DEF SyncTypeInv, HubTyped, SocketsTyped, Connected
  <1>6. QED
    BY <1>1, <1>4, <1>5, ClientsKept, RecordsKept
       DEF SyncTypeInv, LogTyped, RequestsTyped, Connected, DocumentsTyped, RecordsTyped

(* the end of a fan-out,                                                   *)
LEMMA PublishedTyped ==
  ASSUME SyncTypeInv, NEW p \in publishing, FinishPublish(p)
  PROVE  SyncTypeInv'
PROOF
  <1>1. /\ publishing' = publishing \ {p}
        /\ IF p.by = None THEN UNCHANGED <<outbox, checkpoint>>
           ELSE Settle(p.by, log[p.sequence].id)
        /\ UNCHANGED <<log, stored, clients, subscribed, responses, requests, socket, doc,
                       observed, ready, failed, receiving, budget>>
    BY DEF FinishPublish, socketVars
  <1>2. p.by \in Clients \union {None}
    BY DEF SyncTypeInv, HubTyped
  <1>3. RecordsTyped'
    <2>1. CASE p.by = None
      BY <1>1, <2>1, RecordsKept
    <2>2. CASE p.by # None
      BY <1>1, <1>2, <2>2, SettleTyped
    <2>3. QED  BY <2>1, <2>2
  <1>4. HubTyped'
    BY <1>1, FS_RemoveElement DEF SyncTypeInv, HubTyped
  <1>5. QED
    BY <1>1, <1>3, <1>4, ClientsKept DEF SyncTypeInv, LogTyped

(* and the response to a manifest commit.                                  *)
LEMMA RespondedTyped ==
  ASSUME SyncTypeInv, NEW m \in responses, CommitResponse(m)
  PROVE  SyncTypeInv'
PROOF
  <1>1. /\ responses' = responses \ {m}
        /\ observed' = [observed EXCEPT ![m.client] = Greater(@, m.sequence)]
        /\ Settle(m.client, m.id)
        /\ UNCHANGED <<log, stored, clients, subscribed, publishing, requests, socket, doc,
                       ready, failed, receiving, budget>>
    BY DEF CommitResponse, socketVars
  <1>2. m.client \in Clients /\ m.sequence \in 1..Len(log)
    BY DEF SyncTypeInv, HubTyped
  <1>3. RecordsTyped'
    BY <1>1, <1>2, SettleTyped
  <1>4. HubTyped'
    BY <1>1 DEF SyncTypeInv, HubTyped
  <1>5. DocumentsTyped'
    BY <1>1, <1>2 DEF SyncTypeInv, LogTyped, DocumentsTyped, Greater
  <1>6. QED
    BY <1>1, <1>3, <1>4, <1>5 DEF SyncTypeInv, LogTyped, RequestsTyped, Connected, SocketsTyped

(* The message that carries a row.                                         *)
Frame(n) == [kind |-> "frame", sequence |-> n]

(* A sequence without its head.                                            *)
LEMMA Tailed ==
  ASSUME NEW S, NEW s \in Seq(S), s # <<>>
  PROVE  /\ Tail(s) \in Seq(S) /\ Len(s) >= 1 /\ Len(Tail(s)) = Len(s) - 1
         /\ \A i \in 1..Len(Tail(s)) : Tail(s)[i] = s[i + 1] /\ i + 1 \in 1..Len(s)
         /\ Head(s) = s[1] /\ Head(s) \in S
PROOF
  OBVIOUS

(* A page in the socket: its frames, then its end. *)
LEMMA PageSent ==
  ASSUME SyncTypeInv, NEW c \in Clients, Subscribe(c)
  PROVE  \E entries \in Seq(Nat) :
           /\ requests[c] # <<>> /\ requests[c][1] \in Nat /\ requests[c][1] <= Len(log)
           /\ \A i \in 1..Len(entries) :
                entries[i] \in stored /\ entries[i] > requests[c][1]
           /\ IsPage(entries, requests[c][1])
           /\ Len(entries) <= PageSize
           /\ Page(requests[c][1], entries) \in Messages
           /\ Page(requests[c][1], entries).sequence <= Len(log)
           /\ socket' \in [Clients -> Seq(Messages)]
           /\ Len(socket'[c]) = Len(socket[c]) + Len(entries) + 1
           /\ \A i \in 1..Len(socket[c]) : socket'[c][i] = socket[c][i]
           /\ \A i \in 1..Len(entries) : socket'[c][Len(socket[c]) + i] = Frame(entries[i])
           /\ socket'[c][Len(socket[c]) + Len(entries) + 1] = Page(requests[c][1], entries)
           /\ \A d \in Clients \ {c} : socket'[d] = socket[d]
           /\ Len(socket[c]) \in Nat
PROOF
  <1> DEFINE after == Head(requests[c])
  <1>1. PICK entries \in BoundedSeq({n \in stored : n > after}, PageSize) :
          /\ IsPage(entries, after)
          /\ socket' = [socket EXCEPT ![c] = @ \o
               [i \in DOMAIN entries |-> [kind |-> "frame", sequence |-> entries[i]]]
               \o <<Page(after, entries)>>]
    BY DEF Subscribe
  <1>2. requests[c] # <<>>
    BY DEF Subscribe
  <1>3. requests[c] \in Seq(Nat) /\ socket[c] \in Seq(Messages)
        /\ socket \in [Clients -> Seq(Messages)]
    BY DEF SyncTypeInv, RequestsTyped, SocketsTyped
  <1>4. after = requests[c][1] /\ after \in Nat /\ after <= Len(log)
    BY <1>2, <1>3, Tailed DEF SyncTypeInv, RequestsTyped
  <1>5. Len(log) \in Nat /\ Len(log) <= MaxSequence /\ stored \subseteq 1..Len(log)
        /\ MaxSequence \in Nat
    BY SyncBounds DEF SyncTypeInv, LogTyped
  <1> HIDE DEF after
  <1>6. PICK k \in 0..PageSize : entries \in [1..k -> {n \in stored : n > after}]
    BY DEF BoundedSeq, SeqOf
  <1>7. /\ entries \in Seq(Nat) /\ Len(entries) = k /\ DOMAIN entries = 1..Len(entries)
        /\ \A i \in 1..Len(entries) : entries[i] \in stored /\ entries[i] > after
        /\ k <= PageSize /\ k \in Nat
    <2>1. k \in Nat /\ k <= PageSize
      BY SyncBounds
    <2>2. entries \in [1..k -> Nat] /\ \A i \in 1..k : entries[i] \in stored /\ entries[i] > after
      <3> DEFINE S == {n \in stored : n > after}
      <3>1. \A n \in S : n \in Nat /\ n \in stored /\ n > after
        BY <1>5
      <3>2. entries \in [1..k -> S]
        BY <1>6
      <3> HIDE DEF S
      <3>3. QED  BY <3>1, <3>2
    <2>3. QED  BY <2>1, <2>2
  <1> DEFINE frames == [i \in DOMAIN entries |-> [kind |-> "frame", sequence |-> entries[i]]]
             page == Page(after, entries)
  <1>8. page \in Messages /\ page.sequence <= Len(log)
    <2>1. CASE entries = <<>>
      BY <1>4, <1>5, <2>1 DEF Page, Messages, Sequences0
    <2>2. CASE entries # <<>>
      <3>1. entries[Len(entries)] \in stored
        BY <1>7, <2>2
      <3>2. page.sequence = entries[Len(entries)]
        BY <2>2 DEF Page, Last
      <3>3. page.kind \in {"last", "more"} /\ page = [kind |-> page.kind, sequence |-> page.sequence]
        BY DEF Page
      <3>4. QED
        BY <1>5, <3>1, <3>2, <3>3 DEF Messages, Sequences0
    <2>3. QED  BY <2>1, <2>2
  <1>9. /\ frames \in Seq(Messages) /\ Len(frames) = Len(entries)
        /\ \A i \in 1..Len(entries) : frames[i] = Frame(entries[i])
    <2>1. \A i \in 1..Len(entries) : [kind |-> "frame", sequence |-> entries[i]] \in Messages
      BY <1>5, <1>7 DEF Messages, Sequences0
    <2>2. frames \in [1..k -> Messages]
      BY <1>7, <2>1
    <2>3. QED  BY <1>7, <2>2 DEF Frame
  <1>10. socket' = [socket EXCEPT ![c] = @ \o frames \o <<page>>]
    BY <1>1
  <1> HIDE DEF frames, page
  <1>11. socket[c] \o frames \in Seq(Messages)
    BY <1>3, <1>9
  <1>12. socket'[c] = (socket[c] \o frames) \o <<page>> /\ socket'[c] \in Seq(Messages)
    BY <1>3, <1>8, <1>10, <1>11
  <1>13. socket' \in [Clients -> Seq(Messages)] /\ \A d \in Clients \ {c} : socket'[d] = socket[d]
    BY <1>3, <1>10, <1>12
  <1>14. /\ Len(socket[c] \o frames) = Len(socket[c]) + Len(entries)
         /\ \A i \in 1..Len(socket[c]) : (socket[c] \o frames)[i] = socket[c][i]
         /\ \A i \in 1..Len(entries) :
              (socket[c] \o frames)[Len(socket[c]) + i] = Frame(entries[i])
    <2>1. /\ Len(socket[c] \o frames) = Len(socket[c]) + Len(frames)
          /\ \A i \in 1..(Len(socket[c]) + Len(frames)) : (socket[c] \o frames)[i] =
               IF i <= Len(socket[c]) THEN socket[c][i] ELSE frames[i - Len(socket[c])]
      BY <1>3, <1>9, ConcatProperties
    <2>2. Len(socket[c]) \in Nat /\ Len(frames) \in Nat /\ Len(frames) = Len(entries)
      BY <1>3, <1>9
    <2>3. \A i \in 1..Len(socket[c]) : (socket[c] \o frames)[i] = socket[c][i]
      BY <2>1, <2>2
    <2>4. ASSUME NEW i \in 1..Len(entries)
          PROVE  (socket[c] \o frames)[Len(socket[c]) + i] = Frame(entries[i])
      <3>1. /\ Len(socket[c]) + i \in 1..(Len(socket[c]) + Len(frames))
            /\ ~(Len(socket[c]) + i <= Len(socket[c]))
            /\ (Len(socket[c]) + i) - Len(socket[c]) = i
        BY <2>2
      <3>2. (socket[c] \o frames)[Len(socket[c]) + i] = frames[i]
        BY <2>1, <3>1
      <3>3. QED  BY <1>9, <3>2
    <2>5. QED  BY <2>1, <2>2, <2>3, <2>4
  <1>15. /\ Len(socket'[c]) = Len(socket[c]) + Len(entries) + 1
         /\ \A i \in 1..(Len(socket[c]) + Len(entries)) : socket'[c][i] = (socket[c] \o frames)[i]
         /\ socket'[c][Len(socket[c]) + Len(entries) + 1] = page
    <2>1. Len(<<page>>) = 1 /\ <<page>>[1] = page /\ <<page>> \in Seq(Messages)
      BY <1>8
    <2> DEFINE s == socket[c] \o frames
               n == Len(socket[c]) + Len(entries)
    <2>2. s \in Seq(Messages) /\ Len(s) = n /\ socket'[c] = s \o <<page>> /\ n \in Nat
      BY <1>3, <1>7, <1>11, <1>12, <1>14
    <2> HIDE DEF s, n
    <2>3. /\ Len(socket'[c]) = n + 1
          /\ \A i \in 1..n : socket'[c][i] = s[i]
          /\ socket'[c][n + 1] = page
      BY <1>8, <2>2
    <2>4. QED  BY <2>3 DEF s, n
  <1>16. Len(socket[c]) \in Nat /\ Len(entries) \in Nat
    BY <1>3, <1>7
  <1>17. /\ \A i \in 1..Len(socket[c]) : socket'[c][i] = socket[c][i]
         /\ \A i \in 1..Len(entries) : socket'[c][Len(socket[c]) + i] = Frame(entries[i])
    <2>1. \A i \in 1..Len(socket[c]) : i \in 1..(Len(socket[c]) + Len(entries))
      BY <1>16
    <2>2. \A i \in 1..Len(entries) : Len(socket[c]) + i \in 1..(Len(socket[c]) + Len(entries))
      BY <1>16
    <2>3. QED  BY <1>14, <1>15, <2>1, <2>2
  <1>18. page = Page(requests[c][1], entries) /\ IsPage(entries, requests[c][1])
    BY <1>1, <1>4 DEF page
  <1>19. page = Page(requests[c][1], entries)
    BY <1>18
  <1>20. QED
    BY <1>2, <1>4, <1>7, <1>8, <1>13, <1>15, <1>16, <1>17, <1>18, Zenon

(* A page sent keeps the types,                                            *)
LEMMA SubscribedTyped ==
  ASSUME SyncTypeInv, NEW c \in Clients, Subscribe(c)
  PROVE  SyncTypeInv'
PROOF
  <1>1. PICK entries \in Seq(Nat) :
           /\ requests[c] # <<>> /\ requests[c][1] \in Nat /\ requests[c][1] <= Len(log)
           /\ \A i \in 1..Len(entries) : entries[i] \in stored
           /\ Page(requests[c][1], entries) \in Messages
           /\ Page(requests[c][1], entries).sequence <= Len(log)
           /\ socket' \in [Clients -> Seq(Messages)]
           /\ Len(socket'[c]) = Len(socket[c]) + Len(entries) + 1
           /\ \A i \in 1..Len(socket[c]) : socket'[c][i] = socket[c][i]
           /\ \A i \in 1..Len(entries) : socket'[c][Len(socket[c]) + i] = Frame(entries[i])
           /\ socket'[c][Len(socket[c]) + Len(entries) + 1] = Page(requests[c][1], entries)
           /\ \A d \in Clients \ {c} : socket'[d] = socket[d]
           /\ Len(socket[c]) \in Nat
    BY PageSent
  <1>2. /\ subscribed' = subscribed \union {c}
        /\ requests' = [requests EXCEPT ![c] = Tail(@)]
        /\ UNCHANGED <<log, stored, clients, publishing, responses, doc, observed, ready,
                       failed, receiving, outbox, checkpoint, budget>>
    BY DEF Subscribe, clientVars
  <1>3. Len(log) \in Nat /\ stored \subseteq 1..Len(log)
    BY DEF SyncTypeInv, LogTyped
  <1>4. RequestsTyped'
    <2>1. /\ requests \in [Clients -> Seq(Nat)]
          /\ \A d \in Clients : \A i \in 1..Len(requests[d]) : requests[d][i] <= Len(log)
      BY DEF SyncTypeInv, RequestsTyped
    <2>2. requests[c] \in Seq(Nat)
      BY <2>1
    <2>3. /\ Tail(requests[c]) \in Seq(Nat)
          /\ \A i \in 1..Len(Tail(requests[c])) : Tail(requests[c])[i] <= Len(log)
      BY <1>1, <2>1, <2>2, Tailed
    <2>4. Connected(c)
      BY <1>1 DEF SyncTypeInv, RequestsTyped
    <2>5. QED
      BY <1>2, <2>1, <2>3, <2>4 DEF SyncTypeInv, RequestsTyped, Connected
  <1>5. SocketsTyped'
    <2>1. \A d \in Clients : \A i \in 1..Len(socket[d]) :
            /\ socket[d][i].sequence <= Len(log)
            /\ socket[d][i].kind = "frame" => socket[d][i].sequence >= 1
      BY DEF SyncTypeInv, SocketsTyped
    <2>2. ASSUME NEW i \in 1..Len(socket'[c])
          PROVE  /\ socket'[c][i].sequence <= Len(log)
                 /\ socket'[c][i].kind = "frame" => socket'[c][i].sequence >= 1
      <3>1. CASE i \in 1..Len(socket[c])
        BY <1>1, <2>1, <3>1
      <3>2. CASE i \in (Len(socket[c]) + 1)..(Len(socket[c]) + Len(entries))
        <4> DEFINE j == i - Len(socket[c])
        <4>1. j \in 1..Len(entries) /\ i = Len(socket[c]) + j
          BY <1>1, <3>2
        <4>2. socket'[c][i] = Frame(entries[j]) /\ entries[j] \in 1..Len(log)
          BY <1>1, <1>3, <4>1
        <4>3. QED
          BY <1>3, <4>2 DEF Frame
      <3>3. CASE i = Len(socket[c]) + Len(entries) + 1
        <4>1. Page(requests[c][1], entries).kind # "frame"
          BY DEF Page
        <4>2. QED  BY <1>1, <3>3, <4>1
      <3>4. QED
        BY <1>1, <3>1, <3>2, <3>3
    <2>3. Connected(c)
      BY <1>1 DEF SyncTypeInv, RequestsTyped
    <2>4. QED
      BY <1>1, <1>2, <2>1, <2>2, <2>3 DEF SyncTypeInv, SocketsTyped, Connected
  <1>6. HubTyped'
    BY <1>1, <1>2 DEF SyncTypeInv, HubTyped, RequestsTyped, Connected
  <1>7. QED
    BY <1>2, <1>4, <1>5, <1>6 DEF SyncTypeInv, LogTyped, DocumentsTyped, RecordsTyped

(* and so does a message received,                                         *)
LEMMA ReceivedTyped ==
  ASSUME SyncTypeInv, NEW c \in Clients, Receive(c)
  PROVE  SyncTypeInv'
PROOF
  <1> DEFINE m == Head(socket[c])
  <1>1. /\ socket[c] # <<>>
        /\ \/ /\ m.kind = "frame"
              /\ receiving' = [receiving EXCEPT ![c] = Append(@, m.sequence)]
              /\ UNCHANGED <<requests, observed>>
           \/ /\ m.kind = "more"
              /\ requests' = [requests EXCEPT ![c] = Append(@, m.sequence)]
              /\ UNCHANGED <<receiving, observed>>
           \/ /\ m.kind = "last"
              /\ observed' = [observed EXCEPT ![c] = Greater(@, m.sequence)]
              /\ receiving' = [receiving EXCEPT ![c] = Append(@, Finish)]
              /\ UNCHANGED requests
        /\ socket' = [socket EXCEPT ![c] = Tail(@)]
        /\ UNCHANGED <<log, stored, clients, subscribed, publishing, responses, doc, ready,
                       failed, outbox, checkpoint, budget>>
    BY DEF Receive, serverVars
  <1>2. /\ socket \in [Clients -> Seq(Messages)]
        /\ \A d \in Clients : \A i \in 1..Len(socket[d]) :
             /\ socket[d][i].sequence <= Len(log)
             /\ socket[d][i].kind = "frame" => socket[d][i].sequence >= 1
    BY DEF SyncTypeInv, SocketsTyped
  <1>3. /\ Tail(socket[c]) \in Seq(Messages) /\ Len(socket[c]) >= 1
        /\ \A i \in 1..Len(Tail(socket[c])) :
             Tail(socket[c])[i] = socket[c][i + 1] /\ i + 1 \in 1..Len(socket[c])
        /\ m = socket[c][1] /\ m \in Messages
    BY <1>1, <1>2, Tailed
  <1>4. m.sequence \in Nat /\ m.sequence <= Len(log) /\ Len(log) \in Nat
    <2>1. 1 \in 1..Len(socket[c])
      BY <1>2, <1>3
    <2>2. QED
      BY <1>2, <1>3, <2>1, SyncBounds DEF Messages, Sequences0, SyncTypeInv, LogTyped
  <1>5. SocketsTyped'
    <2>1. \A d \in Clients : socket'[d] = IF d = c THEN Tail(socket[c]) ELSE socket[d]
      BY <1>1, <1>2
    <2>2. socket' \in [Clients -> Seq(Messages)]
      BY <1>1, <1>2, <1>3
    <2>3. QED  BY <1>1, <1>2, <1>3, <2>1, <2>2 DEF SyncTypeInv, SocketsTyped, Connected
  <1> HIDE DEF m
  <1>6. RequestsTyped'
    <2>1. CASE UNCHANGED requests
      BY <1>1, <2>1 DEF SyncTypeInv, RequestsTyped, Connected
    <2>2. CASE requests' = [requests EXCEPT ![c] = Append(@, m.sequence)]
      <3>1. Connected(c)
        BY <1>1 DEF SyncTypeInv, SocketsTyped
      <3>2. requests[c] \in Seq(Nat) /\ \A i \in 1..Len(requests[c]) : requests[c][i] <= Len(log)
        BY DEF SyncTypeInv, RequestsTyped
      <3>3. /\ Append(requests[c], m.sequence) \in Seq(Nat)
            /\ \A i \in 1..Len(Append(requests[c], m.sequence)) :
                 Append(requests[c], m.sequence)[i] <= Len(log)
        BY <1>4, <3>2
      <3>4. QED
        BY <1>1, <2>2, <3>1, <3>3 DEF SyncTypeInv, RequestsTyped, Connected
    <2>3. QED  BY <1>1, <2>1, <2>2
  <1>7. DocumentsTyped'
    <2>1. \A n \in 0..Len(log) :
            /\ Append(receiving[c], n) \in Seq(Nat)
            /\ \A i \in 1..Len(Append(receiving[c], n)) : Append(receiving[c], n)[i] <= Len(log)
      <3> TAKE n \in 0..Len(log)
      <3>1. receiving[c] \in Seq(Nat)
            /\ \A i \in 1..Len(receiving[c]) : receiving[c][i] <= Len(log)
        BY DEF SyncTypeInv, DocumentsTyped
      <3>2. QED  BY <1>4, <3>1
    <2>2. Finish \in 0..Len(log) /\ m.sequence \in 0..Len(log)
      BY <1>4 DEF Finish
    <2>3. Greater(observed[c], m.sequence) \in 0..Len(log)
      BY <2>2 DEF Greater, SyncTypeInv, DocumentsTyped
    <2>4. /\ \E n \in 0..Len(log) :
               receiving' \in {receiving, [receiving EXCEPT ![c] = Append(@, n)]}
          /\ observed' \in {observed, [observed EXCEPT ![c] = Greater(@, m.sequence)]}
      BY <1>1, <2>2
    <2>5. PICK n \in 0..Len(log) :
            receiving' \in {receiving, [receiving EXCEPT ![c] = Append(@, n)]}
      BY <2>4
    <2>6. /\ receiving' \in [Clients -> Seq(Nat)]
          /\ \A d \in Clients : \A i \in 1..Len(receiving'[d]) : receiving'[d][i] <= Len(log)
      BY <2>1, <2>5 DEF SyncTypeInv, DocumentsTyped
    <2>7. observed' \in [Clients -> 0..Len(log)]
      BY <2>3, <2>4 DEF SyncTypeInv, DocumentsTyped
    <2>8. QED
      BY <1>1, <2>6, <2>7 DEF SyncTypeInv, DocumentsTyped
  <1>8. QED
    BY <1>1, <1>5, <1>6, <1>7 DEF SyncTypeInv, LogTyped, HubTyped, RecordsTyped

(* and the head of the promise chain run.                                  *)
LEMMA ChainTyped ==
  ASSUME SyncTypeInv, NEW c \in Clients, Apply(c) \/ Fail(c) \/ FinishSync(c)
  PROVE  SyncTypeInv'
PROOF
  <1>1. /\ log \in Seq(Rows) /\ Len(log) \in Nat /\ DOMAIN log = 1..Len(log)
        /\ receiving \in [Clients -> Seq(Nat)] /\ failed \in [Clients -> SUBSET (1..Len(log))]
        /\ \A d \in Clients : \A i \in 1..Len(receiving[d]) : receiving[d][i] <= Len(log)
    BY DEF SyncTypeInv, LogTyped, DocumentsTyped
  <1>2. /\ receiving[c] # <<>> /\ receiving' = [receiving EXCEPT ![c] = Tail(@)]
        /\ UNCHANGED <<log, stored, clients, subscribed, publishing, responses, requests,
                       socket, outbox, checkpoint>>
    BY DEF Apply, Fail, FinishSync, NextReceived, serverVars, socketVars
  <1>3. /\ receiving' \in [Clients -> Seq(Nat)]
        /\ \A d \in Clients : \A i \in 1..Len(receiving'[d]) : receiving'[d][i] <= Len(log)
    <2>1. receiving[c] \in Seq(Nat)
      BY <1>1
    <2>2. /\ Tail(receiving[c]) \in Seq(Nat)
          /\ \A i \in 1..Len(Tail(receiving[c])) : Tail(receiving[c])[i] <= Len(log)
      BY <1>1, <1>2, <2>1, Tailed
    <2>3. QED  BY <1>1, <1>2, <2>2
  <1>4. CASE Apply(c)
    <2>1. PICK n \in 1..Len(log) :
            /\ doc' = [doc EXCEPT ![c] = @ \union log[n].content]
            /\ observed' = [observed EXCEPT ![c] = Greater(@, n)]
            /\ failed' = [failed EXCEPT ![c] =
                 {f \in OtherFailures(c, n) : f > log[n].cutoff}]
            /\ UNCHANGED <<ready, budget>>
      BY <1>1, <1>4 DEF Apply
    <2>2. log[n].content \subseteq Edits
      <3>1. log[n] \in Rows
        BY <1>1
      <3>2. QED  BY <3>1 DEF Rows
    <2>3. Greater(observed[c], n) \in 0..Len(log)
      BY <1>1 DEF Greater, SyncTypeInv, DocumentsTyped
    <2>4. {f \in OtherFailures(c, n) : f > log[n].cutoff} \subseteq 1..Len(log)
      BY <1>1 DEF OtherFailures
    <2>5. DocumentsTyped'
      BY <1>2, <1>3, <2>1, <2>2, <2>3, <2>4 DEF SyncTypeInv, DocumentsTyped
    <2>6. QED
      BY <1>2, <2>1, <2>5
         DEF SyncTypeInv, LogTyped, HubTyped, RequestsTyped, SocketsTyped, RecordsTyped, Connected
  <1>5. CASE Fail(c)
    <2>1. PICK n \in 1..Len(log) :
            /\ failed' = [failed EXCEPT ![c] = OtherFailures(c, n) \union {n}]
            /\ budget' = [budget EXCEPT !.failures = @ + 1]
            /\ UNCHANGED <<doc, observed, ready>>
      BY <1>1, <1>5 DEF Fail
    <2>2. OtherFailures(c, n) \union {n} \subseteq 1..Len(log)
      BY <1>1 DEF OtherFailures
    <2>3. DocumentsTyped'
      BY <1>2, <1>3, <2>1, <2>2 DEF SyncTypeInv, DocumentsTyped
    <2>4. budget' \in [disconnects : Nat, failures : Nat, resubscribes : Nat]
      BY <2>1 DEF SyncTypeInv
    <2>5. QED
      BY <1>2, <2>1, <2>3, <2>4
         DEF SyncTypeInv, LogTyped, HubTyped, RequestsTyped, SocketsTyped, RecordsTyped, Connected
  <1>6. CASE FinishSync(c)
    <2>1. /\ ready' \subseteq ready \union {c}
          /\ UNCHANGED <<doc, observed, failed, budget>>
      BY <1>6 DEF FinishSync
    <2>2. DocumentsTyped'
      BY <1>2, <1>3, <2>1 DEF SyncTypeInv, DocumentsTyped
    <2>3. QED
      BY <1>2, <2>1, <2>2
         DEF SyncTypeInv, LogTyped, HubTyped, RequestsTyped, SocketsTyped, RecordsTyped, Connected
  <1>7. QED  BY <1>4, <1>5, <1>6

(* A request for a row of the log.                                         *)
LEMMA RequestTyped ==
  ASSUME SyncTypeInv, NEW c \in Clients, NEW after \in 0..Len(log), Request(c, after),
         UNCHANGED <<log, clients>>
  PROVE  RequestsTyped'
PROOF
  <1>1. CASE ~Connected(c)
    BY <1>1 DEF Request, SyncTypeInv, RequestsTyped, Connected
  <1>2. CASE Connected(c)
    <2>1. requests' = [requests EXCEPT ![c] = Append(@, after)]
      BY <1>2 DEF Request
    <2>2. requests[c] \in Seq(Nat) /\ \A i \in 1..Len(requests[c]) : requests[c][i] <= Len(log)
      BY DEF SyncTypeInv, RequestsTyped
    <2>3. /\ Append(requests[c], after) \in Seq(Nat)
          /\ \A i \in 1..Len(Append(requests[c], after)) :
               Append(requests[c], after)[i] <= Len(log)
      BY <2>2
    <2>4. QED
      BY <1>2, <2>1, <2>3 DEF SyncTypeInv, RequestsTyped, Connected
  <1>3. QED  BY <1>1, <1>2

(* What a retry reads again starts before every failure. *)
LEMMA FirstFailure ==
  ASSUME SyncTypeInv, NEW c \in Clients, Retry(c)
  PROVE  \E first \in failed[c] :
           /\ first \in 1..Len(log) /\ \A g \in failed[c] : first <= g
           /\ observed' = [observed EXCEPT ![c] = first - 1]
           /\ Request(c, first - 1)
PROOF
  <1>1. failed[c] \subseteq Nat /\ failed[c] # {} /\ failed[c] \subseteq 1..Len(log)
    BY DEF SyncTypeInv, DocumentsTyped, Retry
  <1> DEFINE first == CHOOSE f \in failed[c] : \A g \in failed[c] : f <= g
  <1>2. first \in failed[c] /\ \A g \in failed[c] : first <= g
    BY <1>1, LeastNumber
  <1>3. observed' = [observed EXCEPT ![c] = first - 1] /\ Request(c, first - 1)
    BY DEF Retry
  <1> HIDE DEF first
  <1>4. QED  BY <1>1, <1>2, <1>3

(* A retry and a resubscription keep the types.                            *)
LEMMA AskedTyped ==
  ASSUME SyncTypeInv, NEW c \in Clients, Retry(c) \/ Resubscribe(c)
  PROVE  SyncTypeInv'
PROOF
  <1>1. CASE Retry(c)
    <2>1. PICK first \in failed[c] :
            /\ first \in 1..Len(log)
            /\ observed' = [observed EXCEPT ![c] = first - 1]
            /\ Request(c, first - 1)
      BY <1>1, FirstFailure
    <2>2. first - 1 \in 0..Len(log)
      BY <2>1 DEF SyncTypeInv, LogTyped
    <2>3. /\ failed' = [failed EXCEPT ![c] = {}]
          /\ ready' = ready \ {c}
          /\ UNCHANGED <<log, stored, clients, subscribed, publishing, responses, socket,
                         doc, receiving, outbox, checkpoint, budget>>
      BY <1>1 DEF Retry, serverVars
    <2>4. RequestsTyped'
      BY <2>1, <2>2, <2>3, RequestTyped
    <2>5. DocumentsTyped'
      BY <2>1, <2>2, <2>3 DEF SyncTypeInv, DocumentsTyped
    <2>6. QED
      BY <2>3, <2>4, <2>5 DEF SyncTypeInv, LogTyped, HubTyped, SocketsTyped, RecordsTyped, Connected
  <1>2. CASE Resubscribe(c)
    <2>1. /\ Request(c, observed[c])
          /\ budget' = [budget EXCEPT !.resubscribes = @ + 1]
          /\ UNCHANGED <<log, stored, clients, subscribed, publishing, responses, socket,
                         doc, observed, ready, failed, receiving, outbox, checkpoint>>
      BY <1>2 DEF Resubscribe, serverVars, clientVars
    <2>2. observed[c] \in 0..Len(log)
      BY DEF SyncTypeInv, DocumentsTyped
    <2>3. RequestsTyped'
      BY <2>1, <2>2, RequestTyped
    <2>4. budget' \in [disconnects : Nat, failures : Nat, resubscribes : Nat]
      BY <2>1 DEF SyncTypeInv
    <2>5. QED
      BY <2>1, <2>3, <2>4
         DEF SyncTypeInv, LogTyped, HubTyped, SocketsTyped, DocumentsTyped, RecordsTyped, Connected
  <1>3. QED  BY <1>1, <1>2

(* The image of a finite set is finite.                                    *)
LEMMA MappedFinite ==
  ASSUME NEW S, IsFiniteSet(S), NEW T, NEW f, f \in [S -> T], T = {f[x] : x \in S}
  PROVE  IsFiniteSet(T)
PROOF
  <1>1. f \in Surjection(S, T)
    BY DEF Surjection
  <1>2. QED  BY <1>1, FS_Surjection

(* Without one of its elements a sequence of distinct elements has the     *)
(* others.                                                                 *)
LEMMA ElementRemoved ==
  ASSUME NEW S, NEW s \in Seq(S), IsInjective(s), NEW i \in 1..Len(s)
  PROVE  /\ RemoveAt(s, i) \in Seq(S)
         /\ IsInjective(RemoveAt(s, i))
         /\ ToSet(RemoveAt(s, i)) = ToSet(s) \ {s[i]}
PROOF
  <1> DEFINE front == SubSeq(s, 1, i - 1)
             back == SubSeq(s, i + 1, Len(s))
             t == RemoveAt(s, i)
  <1>1. Len(s) \in Nat /\ i \in Nat /\ i >= 1 /\ i <= Len(s)
    OBVIOUS
  <1>2. /\ front \in Seq(S) /\ Len(front) = i - 1
        /\ \A j \in 1..(i - 1) : front[j] = s[j]
    BY <1>1, SubSeqProperties
  <1>3. /\ back \in Seq(S) /\ Len(back) = Len(s) - i
        /\ \A j \in 1..(Len(s) - i) : back[j] = s[i + j]
    BY <1>1, SubSeqProperties
  <1>4. t = front \o back
    BY DEF RemoveAt
  <1> HIDE DEF front, back, t
  <1>5. /\ t \in Seq(S) /\ Len(t) = Len(s) - 1
        /\ \A j \in 1..Len(t) : t[j] = IF j <= i - 1 THEN front[j] ELSE back[j - (i - 1)]
    <2>1. Len(front) + Len(back) = Len(s) - 1 /\ Len(front) = i - 1
      BY <1>1, <1>2, <1>3
    <2>2. /\ t \in Seq(S) /\ Len(t) = Len(front) + Len(back)
          /\ \A j \in 1..(Len(front) + Len(back)) :
               t[j] = IF j <= Len(front) THEN front[j] ELSE back[j - Len(front)]
      BY <1>2, <1>3, <1>4, ConcatProperties
    <2>3. QED  BY <2>1, <2>2
  <1>6. \A j \in 1..Len(t) : t[j] = IF j < i THEN s[j] ELSE s[j + 1]
    <2> TAKE j \in 1..Len(t)
    <2>1. CASE j < i
      BY <1>1, <1>2, <1>5, <2>1
    <2>2. CASE ~(j < i)
      <3>1. j - (i - 1) \in 1..(Len(s) - i) /\ i + (j - (i - 1)) = j + 1
        BY <1>1, <1>5, <2>2
      <3>2. QED  BY <1>1, <1>3, <1>5, <2>2, <3>1
    <2>3. QED  BY <2>1, <2>2
  <1>7. DOMAIN t = 1..Len(t) /\ DOMAIN s = 1..Len(s)
    BY <1>5
  <1>12. \A j, k \in 1..Len(s) : s[j] = s[k] => j = k
    BY <1>7 DEF IsInjective
  <1>13. \A j \in 1..Len(t) : \E k \in 1..Len(s) :
           t[j] = s[k] /\ k # i /\ (j < i => k = j) /\ (~(j < i) => k = j + 1)
    <2> TAKE j \in 1..Len(t)
    <2>1. CASE j < i
      BY <1>1, <1>5, <1>6, <2>1
    <2>2. CASE ~(j < i)
      <3>1. j + 1 \in 1..Len(s) /\ j + 1 # i /\ t[j] = s[j + 1]
        BY <1>1, <1>5, <1>6, <2>2
      <3>2. QED  BY <2>2, <3>1
    <2>3. QED  BY <2>1, <2>2
  <1>8. IsInjective(t)
    <2>1. ASSUME NEW j \in 1..Len(t), NEW k \in 1..Len(t), t[j] = t[k]
          PROVE  j = k
      <3>1. PICK u \in 1..Len(s) :
              t[j] = s[u] /\ u # i /\ (j < i => u = j) /\ (~(j < i) => u = j + 1)
        BY <1>13
      <3>2. PICK v \in 1..Len(s) :
              t[k] = s[v] /\ v # i /\ (k < i => v = k) /\ (~(k < i) => v = k + 1)
        BY <1>13
      <3>3. u = v
        BY <1>12, <2>1, <3>1, <3>2
      <3>4. QED  BY <1>1, <3>1, <3>2, <3>3
    <2>2. QED  BY <1>7, <2>1 DEF IsInjective
  <1>9. ToSet(t) \subseteq ToSet(s) \ {s[i]}
    BY <1>7, <1>12, <1>13 DEF ToSet
  <1>10. ASSUME NEW x \in ToSet(s), x # s[i]
         PROVE  x \in ToSet(t)
    <2>1. PICK k \in 1..Len(s) : x = s[k]
      BY <1>7 DEF ToSet
    <2>2. CASE k < i
      <3>1. k \in 1..Len(t) /\ t[k] = x
        BY <1>1, <1>5, <1>6, <2>1, <2>2
      <3>2. QED  BY <1>7, <3>1 DEF ToSet
    <2>3. CASE k > i
      <3>1. k - 1 \in 1..Len(t) /\ ~(k - 1 < i) /\ (k - 1) + 1 = k
        BY <1>1, <1>5, <2>1, <2>3
      <3>2. t[k - 1] = x
        BY <1>6, <2>1, <3>1
      <3>3. QED  BY <1>7, <3>1, <3>2 DEF ToSet
    <2>4. QED  BY <1>1, <1>10, <2>1, <2>2, <2>3
  <1>11. QED
    BY <1>5, <1>8, <1>9, <1>10 DEF t

(* With a new one at its end it has that one too.                          *)
LEMMA ElementAdded ==
  ASSUME NEW S, NEW s \in Seq(S), IsInjective(s), NEW x \in S, x \notin ToSet(s)
  PROVE  /\ Append(s, x) \in Seq(S)
         /\ IsInjective(Append(s, x))
         /\ ToSet(Append(s, x)) = ToSet(s) \union {x}
PROOF
  <1> DEFINE t == Append(s, x)
  <1>1. /\ t \in Seq(S) /\ Len(t) = Len(s) + 1 /\ Len(s) \in Nat
        /\ \A j \in 1..Len(s) : t[j] = s[j]
        /\ t[Len(s) + 1] = x
    OBVIOUS
  <1>2. DOMAIN t = 1..Len(t) /\ DOMAIN s = 1..Len(s)
    BY <1>1
  <1> HIDE DEF t
  <1>3. \A j \in 1..Len(t) : j \in 1..Len(s) \/ j = Len(s) + 1
    BY <1>1
  <1>4. \A j \in 1..Len(s) : s[j] # x
    BY <1>2 DEF ToSet
  <1>5. IsInjective(t)
    BY <1>1, <1>2, <1>3, <1>4 DEF IsInjective
  <1>6. ToSet(t) \subseteq ToSet(s) \union {x}
    BY <1>1, <1>2, <1>3 DEF ToSet
  <1>7. ToSet(s) \union {x} \subseteq ToSet(t)
    BY <1>1, <1>2 DEF ToSet
  <1>8. QED  BY <1>1, <1>5, <1>6, <1>7 DEF t

(* A lost connection keeps the types and removes one client,               *)
LEMMA DisconnectedTyped ==
  ASSUME SyncTypeInv, NEW c \in Clients, Disconnect(c)
  PROVE  SyncTypeInv' /\ ToSet(clients') = ToSet(clients) \ {c}
PROOF
  <1> DEFINE lost(p) == [sequence |-> p.sequence,
                         by |-> IF p.by = c THEN None ELSE p.by, left |-> p.left \ {c}]
             relay(r) == [r EXCEPT !.relayed = TRUE]
  <1>1. /\ subscribed' = subscribed \ {c}
        /\ publishing' = {lost(p) : p \in publishing}
        /\ requests' = [requests EXCEPT ![c] = <<>>]
        /\ socket' = [socket EXCEPT ![c] = <<>>]
        /\ ready' = ready \ {c}
        /\ outbox' = [outbox EXCEPT ![c] = {relay(r) : r \in outbox[c]}]
        /\ checkpoint' = [checkpoint EXCEPT ![c].phase =
             IF @ = "sent" /\ checkpoint[c].id \notin LargeIds THEN "orphaned" ELSE @]
        /\ budget' = [budget EXCEPT !.disconnects = @ + 1]
        /\ UNCHANGED <<log, stored, responses, doc, observed, failed, receiving>>
    BY DEF Disconnect
  <1>2. PICK i \in DOMAIN clients : clients[i] = c /\ clients' = RemoveAt(clients, i)
    BY DEF Disconnect
  <1>3. /\ clients \in Seq(Clients) /\ IsInjective(clients) /\ i \in 1..Len(clients)
        /\ Len(clients) \in Nat
    BY DEF SyncTypeInv, HubTyped
  <1>5. /\ clients' \in Seq(Clients)
        /\ IsInjective(clients') /\ ToSet(clients') = ToSet(clients) \ {c}
    BY <1>2, <1>3, ElementRemoved
  <1>6. HubTyped'
    <2> DEFINE Fanouts == [sequence : 1..Len(log), by : Clients \union {None},
                           left : SUBSET ToSet(clients')]
    <2>1. \A p \in publishing : lost(p) \in Fanouts
      BY <1>5 DEF SyncTypeInv, HubTyped
    <2>2. IsFiniteSet(publishing')
      <3> DEFINE f == [p \in publishing |-> lost(p)]
      <3>1. f \in [publishing -> publishing'] /\ publishing' = {f[p] : p \in publishing}
        BY <1>1
      <3>2. IsFiniteSet(publishing)
        BY DEF SyncTypeInv, HubTyped
      <3> HIDE DEF f
      <3>3. QED  BY <3>1, <3>2, MappedFinite
    <2>3. QED
      BY <1>1, <1>5, <2>1, <2>2 DEF SyncTypeInv, HubTyped
  <1>7. RequestsTyped' /\ SocketsTyped'
    BY <1>1, <1>5 DEF SyncTypeInv, RequestsTyped, SocketsTyped, Connected
  <1>8. DocumentsTyped'
    BY <1>1 DEF SyncTypeInv, DocumentsTyped
  <1>9. RecordsTyped'
    <2>1. ASSUME NEW r \in outbox[c]
          PROVE  relay(r) \in Records /\ relay(r).cutoff <= Len(log)
      <3>1. r \in Records /\ r.cutoff <= Len(log)
        BY DEF SyncTypeInv, RecordsTyped
      <3>2. QED  BY <3>1 DEF Records
    <2> DEFINE relays == {relay(r) : r \in outbox[c]}
    <2>6. relays \subseteq Records /\ \A r \in relays : r.cutoff <= Len(log)
      BY <2>1
    <2>7. outbox' = [outbox EXCEPT ![c] = relays]
      BY <1>1
    <2> HIDE DEF relays
    <2>2. /\ outbox' \in [Clients -> SUBSET Records]
          /\ \A d \in Clients : \A r \in outbox'[d] : r.cutoff <= Len(log')
      BY <1>1, <2>6, <2>7 DEF SyncTypeInv, RecordsTyped
    <2> DEFINE Deliveries == [phase : {"none", "encoding", "sent", "orphaned"},
                              id : Checkpoints \union {None},
                          cutoff : Sequences0, unmerged : SUBSET Edits]
    <2>3. checkpoint \in [Clients -> Deliveries]
      BY DEF SyncTypeInv, RecordsTyped
    <2>4. /\ checkpoint' \in [Clients -> Deliveries]
          /\ \A d \in Clients : /\ checkpoint'[d].id = checkpoint[d].id
                                /\ checkpoint'[d].cutoff = checkpoint[d].cutoff
                                /\ checkpoint'[d].phase # "none" => checkpoint[d].phase # "none"
      BY <1>1, <2>3
    <2>5. QED
      BY <1>1, <2>2, <2>4 DEF SyncTypeInv, RecordsTyped
  <1>10. LogTyped' /\ budget' \in [disconnects : Nat, failures : Nat, resubscribes : Nat]
    BY <1>1 DEF SyncTypeInv, LogTyped
  <1>11. QED
    BY <1>5, <1>6, <1>7, <1>8, <1>9, <1>10 DEF SyncTypeInv

(* and a new one adds one.                                                 *)
LEMMA ConnectedTyped ==
  ASSUME SyncTypeInv, NEW c \in Clients, Connect(c)
  PROVE  SyncTypeInv' /\ ToSet(clients') = ToSet(clients) \union {c}
PROOF
  <1> DEFINE joined(p) == [p EXCEPT !.left = @ \union {c}]
  <1>1. /\ ~Connected(c)
        /\ clients' = Append(clients, c)
        /\ publishing' = {joined(p) : p \in publishing}
        /\ requests' = [requests EXCEPT ![c] = <<observed[c]>>]
        /\ ready' = ready \ {c}
        /\ UNCHANGED <<log, stored, subscribed, responses, socket, doc, observed, failed,
                       receiving, outbox, checkpoint, budget>>
    BY DEF Connect
  <1>2. clients \in Seq(Clients) /\ IsInjective(clients) /\ c \notin ToSet(clients)
    BY <1>1 DEF SyncTypeInv, HubTyped, Connected
  <1>4. /\ clients' \in Seq(Clients)
        /\ IsInjective(clients') /\ ToSet(clients') = ToSet(clients) \union {c}
    BY <1>1, <1>2, ElementAdded
  <1>5. HubTyped'
    <2> DEFINE Fanouts == [sequence : 1..Len(log), by : Clients \union {None},
                           left : SUBSET ToSet(clients')]
    <2>1. \A p \in publishing : joined(p) \in Fanouts
      BY <1>4 DEF SyncTypeInv, HubTyped
    <2>2. IsFiniteSet(publishing')
      <3> DEFINE f == [p \in publishing |-> joined(p)]
      <3>1. f \in [publishing -> publishing'] /\ publishing' = {f[p] : p \in publishing}
        BY <1>1
      <3>2. IsFiniteSet(publishing)
        BY DEF SyncTypeInv, HubTyped
      <3> HIDE DEF f
      <3>3. QED  BY <3>1, <3>2, MappedFinite
    <2>3. QED
      BY <1>1, <1>4, <2>1, <2>2 DEF SyncTypeInv, HubTyped
  <1>6. RequestsTyped'
    <2>1. observed[c] \in 0..Len(log)
      BY DEF SyncTypeInv, DocumentsTyped
    <2>2. <<observed[c]>> \in Seq(Nat) /\ Len(<<observed[c]>>) = 1
          /\ <<observed[c]>>[1] <= Len(log)
      BY <2>1
    <2>3. QED
      BY <1>1, <1>4, <2>2 DEF SyncTypeInv, RequestsTyped, Connected
  <1>7. SocketsTyped' /\ DocumentsTyped' /\ RecordsTyped' /\ LogTyped'
    BY <1>1, <1>4
       DEF SyncTypeInv, SocketsTyped, DocumentsTyped, RecordsTyped, LogTyped, Connected
  <1>8. QED
    BY <1>1, <1>4, <1>5, <1>6, <1>7 DEF SyncTypeInv

(* Every step keeps the types.                                             *)
LEMMA SyncStepTyped ==
  ASSUME SyncTypeInv, SyncNext
  PROVE  SyncTypeInv'
PROOF
  <1>1. CASE HubStep
    BY <1>1, FanOutTyped, PublishedTyped, RespondedTyped, SubscribedTyped DEF HubStep
  <1>2. ASSUME NEW c \in Clients,
               \/ \E e \in Edits : Edit(c, e)
               \/ \E k \in Checkpoints : BeginCheckpoint(c, k)
               \/ SealCheckpoint(c)
        PROVE  SyncTypeInv'
    BY <1>2, ComposingTyped
  <1>3. ASSUME NEW c \in Clients, \E r \in outbox[c] : Deliver(c, r)
        PROVE  SyncTypeInv'
    BY <1>3, DeliveryTyped
  <1>4. ASSUME NEW c \in Clients, ReceiveStep(c)
        PROVE  SyncTypeInv'
    BY <1>4, ReceivedTyped, ChainTyped DEF ReceiveStep
  <1>5. ASSUME NEW c \in Clients, Retry(c) \/ Resubscribe(c) \/ Disconnect(c) \/ Connect(c)
        PROVE  SyncTypeInv'
    BY <1>5, AskedTyped, DisconnectedTyped, ConnectedTyped
  <1>6. QED
    BY <1>1, <1>2, <1>3, <1>4, <1>5 DEF SyncNext

(* So does a step that changes nothing.                                    *)
LEMMA SyncStutterTyped ==
  ASSUME SyncTypeInv, UNCHANGED syncVars
  PROVE  SyncTypeInv'
PROOF
  BY DEF syncVars, serverVars, socketVars, clientVars, SyncTypeInv, LogTyped, HubTyped,
         RequestsTyped, SocketsTyped, DocumentsTyped, RecordsTyped, Connected

(* Sequences stay within the log, ... *)
THEOREM SyncTyped == SyncSpec => []SyncTypeOK
PROOF
  <1>1. SyncInit => SyncTypeInv
    BY SyncInitTyped
  <1>2. SyncTypeInv /\ [SyncNext]_syncVars => SyncTypeInv'
    BY SyncStepTyped, SyncStutterTyped
  <1>3. SyncTypeInv => SyncTypeOK
    BY SyncTypedGivesOK
  <1>4. QED
    BY <1>1, <1>2, <1>3, PTL DEF SyncSpec

-----------------------------------------------------------------------------
(* SectionSync: while connections hold. *)

(* Connections hold and nobody compacts. *)
ConnectionsHold == MaxDisconnects = 0 /\ Checkpoints = {}

(* A row the client need not ask for, or will ask for. *)
Asks(c, n) ==
  \/ \E i \in 1..Len(requests[c]) : requests[c][i] < n
  \/ \E i \in 1..Len(socket[c]) : socket[c][i].kind = "more" /\ socket[c][i].sequence < n

(* The row is in the receive chain, in the socket or in a fan-out to come. *)
Underway(c, n) ==
  \/ \E i \in 1..Len(receiving[c]) : receiving[c][i] = n
  \/ \E i \in 1..Len(socket[c]) : socket[c][i].kind = "frame" /\ socket[c][i].sequence = n
  \/ \E p \in publishing : p.sequence = n /\ c \in p.left

(* The row is merged, has failed visibly, or is still to come.             *)
Reaches(c, n) ==
  log[n].content \subseteq doc[c] \/ n \in failed[c] \/ Underway(c, n) \/ Asks(c, n)

(* Everybody is connected and subscribed.                                  *)
AllThere == ToSet(clients) = Clients /\ subscribed = Clients

(* Nothing is deleted and every update has one row.                        *)
Uncompacted ==
  /\ stored = 1..Len(log)
  /\ \A m, n \in 1..Len(log) : log[m].id = log[n].id => m = n
  /\ \A n \in 1..Len(log) : log[n].cutoff = 0

(* A record carries what its author has in the document, and compacts      *)
(* nothing.                                                                *)
OwnEdits ==
  \A c \in Clients : /\ checkpoint[c].phase = "none"
                     /\ \A r \in outbox[c] : r.cutoff = 0 /\ r.content \subseteq doc[c]

(* Every accepted row reaches every client.                                *)
EveryRowReaches == \A c \in Clients : \A n \in 1..Len(log) : Reaches(c, n)

(* The inductive invariant behind NothingPassesBy.                         *)
HeldInv == SyncTypeInv /\ AllThere /\ Uncompacted /\ OwnEdits /\ EveryRowReaches

-----------------------------------------------------------------------------
(* SectionSync: every step keeps every row on its way. *)

(* Who is not asking for a page and has not got an edit has it on its way. *)
LEMMA HeldSuffices ==
  ASSUME HeldInv  PROVE NothingPassesBy
PROOF
  <1> SUFFICES ASSUME NEW c \in Clients, ~Asking(c), NEW n \in 1..Len(log),
                      NEW e \in log[n].content
               PROVE  e \in doc[c] \union ContentOf(OnItsWay(c) \union failed[c])
    BY DEF NothingPassesBy, ContentOf, HeldInv, SyncTypeInv, LogTyped
  <1>1. Reaches(c, n)
    BY DEF HeldInv, EveryRowReaches
  <1>2. requests[c] = <<>> /\ \A m \in ToSet(socket[c]) : m.kind # "more"
    BY DEF Asking
  <1>3. ~Asks(c, n)
    BY <1>2 DEF Asks, ToSet, HeldInv, SyncTypeInv, SocketsTyped
  <1>4. CASE Underway(c, n)
    <2>1. DOMAIN receiving[c] = 1..Len(receiving[c]) /\ DOMAIN socket[c] = 1..Len(socket[c])
      BY DEF HeldInv, SyncTypeInv, DocumentsTyped, SocketsTyped
    <2>2. n # Finish
      BY DEF Finish, HeldInv, SyncTypeInv, LogTyped
    <2>3. n \in OnItsWay(c)
      BY <1>4, <2>1, <2>2 DEF Underway, OnItsWay, Sequenced, ToSet
    <2>4. QED  BY <2>3 DEF ContentOf
  <1>5. QED
    BY <1>1, <1>3, <1>4 DEF Reaches, ContentOf

(* The invariant holds for the empty log.                                  *)
LEMMA HeldInit ==
  ASSUME SyncInit  PROVE HeldInv
PROOF
  <1>1. SyncTypeInv
    BY SyncInitTyped
  <1>2. ToSet(clients) = Clients
    BY <1>1 DEF SyncInit, SyncTypeInv, HubTyped, ToSet
  <1>3. QED
    BY <1>1, <1>2 DEF SyncInit, HeldInv, AllThere, Uncompacted, OwnEdits, EveryRowReaches,
                      NoCheckpoint

(* A row goes on reaching a client whose queues are as they were.          *)
LEMMA ReachesKept ==
  ASSUME NEW c, NEW n, Reaches(c, n), log'[n] = log[n], doc[c] \subseteq doc'[c],
         failed'[c] = failed[c], receiving'[c] = receiving[c], socket'[c] = socket[c],
         requests'[c] = requests[c],
         \A p \in publishing : p.sequence = n /\ c \in p.left =>
           \E q \in publishing' : q.sequence = n /\ c \in q.left
  PROVE  Reaches(c, n)'
PROOF
  BY DEF Reaches, Underway, Asks

(* Composing changes nothing on the way.                                   *)
LEMMA HeldComposing ==
  ASSUME HeldInv, ConnectionsHold, NEW c \in Clients,
         \/ \E e \in Edits : Edit(c, e)
         \/ \E k \in Checkpoints : BeginCheckpoint(c, k)
         \/ SealCheckpoint(c)
  PROVE  HeldInv'
PROOF
  <1>1. SyncTypeInv'
    BY ComposingTyped DEF HeldInv
  <1>2. PICK e \in Edits : Edit(c, e)
    BY DEF ConnectionsHold, SealCheckpoint, HeldInv, OwnEdits
  <1> DEFINE r == [id |-> e, cutoff |-> 0, content |-> {e}, unmerged |-> {},
                     relayed |-> FALSE]
  <1>3. /\ UNCHANGED <<log, stored, clients, subscribed, publishing, responses, requests,
                       socket, observed, ready, failed, receiving, checkpoint, budget>>
        /\ doc' = [doc EXCEPT ![c] = @ \union {e}]
        /\ outbox' = [outbox EXCEPT ![c] = @ \union {r}]
    BY <1>2 DEF Edit, Enqueue, serverVars, socketVars
  <1>4. r.cutoff = 0 /\ r.content = {e}
    OBVIOUS
  <1> HIDE DEF r
  <1>5. \A d \in Clients : doc[d] \subseteq doc'[d]
    BY <1>3 DEF HeldInv, SyncTypeInv, DocumentsTyped
  <1>6. OwnEdits'
    BY <1>3, <1>4, <1>5 DEF HeldInv, OwnEdits, SyncTypeInv, RecordsTyped, DocumentsTyped
  <1>7. EveryRowReaches'
    BY <1>3, <1>5, ReachesKept DEF HeldInv, EveryRowReaches
  <1>8. QED
    BY <1>1, <1>3, <1>6, <1>7 DEF HeldInv, AllThere, Uncompacted

(* An acknowledgement leaves the other records what they were.             *)
LEMMA HeldSettle ==
  ASSUME HeldInv, NEW c \in Clients, NEW id, Settle(c, id), UNCHANGED doc
  PROVE  OwnEdits'
PROOF
  <1>1. \A d \in Clients : outbox'[d] \subseteq outbox[d]
    BY DEF HeldInv, SyncTypeInv, RecordsTyped, Settle
  <1>2. \A d \in Clients : checkpoint'[d] \in {checkpoint[d], NoCheckpoint}
    BY DEF HeldInv, SyncTypeInv, RecordsTyped, Settle
  <1>3. QED
    BY <1>1, <1>2 DEF HeldInv, OwnEdits, NoCheckpoint

(* A new row is its author's own edit, and to be sent to everybody else.   *)
LEMMA HeldInsert ==
  ASSUME HeldInv, SyncTypeInv', NEW c \in Clients, NEW r \in outbox[c], InsertRow(r),
         \A n \in 1..Len(log) : log[n].id # r.id,
         NEW by, NEW left, StartPublishing(by, left), Clients \ {c} \subseteq left,
         UNCHANGED <<clients, subscribed, requests, socket, doc, observed,
                     ready, failed, receiving, outbox, checkpoint>>
  PROVE  HeldInv'
PROOF
  <1>1. /\ Len(log') = Len(log) + 1 /\ Len(log) \in Nat
        /\ \A n \in 1..Len(log) : log'[n] = log[n]
        /\ log'[Len(log) + 1] = RowOf(r)
        /\ stored' = {n \in stored : n > r.cutoff} \union {Len(log) + 1}
    BY RowInserted DEF HeldInv
  <1>2. r.cutoff = 0 /\ r.content \subseteq doc[c]
    BY DEF HeldInv, OwnEdits
  <1>3. stored = 1..Len(log)
    BY DEF HeldInv, Uncompacted
  <1>4. stored' = 1..Len(log')
    BY <1>1, <1>2, <1>3
  <1>5. Uncompacted'
    <2>1. /\ \A m, n \in 1..Len(log) : log[m].id = log[n].id => m = n
          /\ \A n \in 1..Len(log) : log[n].cutoff = 0
      BY DEF HeldInv, Uncompacted
    <2>2. log'[Len(log) + 1].id = r.id /\ log'[Len(log) + 1].cutoff = 0
      BY <1>1, <1>2 DEF RowOf
    <2>3. \A n \in 1..Len(log') : n \in 1..Len(log) \/ n = Len(log) + 1
      BY <1>1
    <2>4. QED
      BY <1>1, <1>4, <2>1, <2>2, <2>3 DEF Uncompacted
  <1>6. publishing' = publishing \union
          {[sequence |-> Len(log) + 1, by |-> by, left |-> left]}
    BY DEF StartPublishing
  <1>7. EveryRowReaches'
    <2> SUFFICES ASSUME NEW d \in Clients, NEW n \in 1..Len(log') PROVE Reaches(d, n)'
      BY DEF EveryRowReaches
    <2>1. CASE n \in 1..Len(log)
      BY <1>1, <1>6, <2>1, ReachesKept DEF HeldInv, EveryRowReaches
    <2>2. CASE n = Len(log) + 1 /\ d = c
      BY <1>1, <1>2, <2>2 DEF Reaches, RowOf
    <2>3. CASE n = Len(log) + 1 /\ d # c
      <3> DEFINE p == [sequence |-> Len(log) + 1, by |-> by, left |-> left]
      <3>1. p \in publishing' /\ p.sequence = n /\ d \in p.left
        BY <1>6, <2>3
      <3> HIDE DEF p
      <3>2. QED  BY <3>1 DEF Reaches, Underway
    <2>4. QED  BY <1>1, <2>1, <2>2, <2>3
  <1>8. QED
    BY <1>5, <1>7 DEF HeldInv, AllThere, OwnEdits

(* So an accepted record reaches everybody; a repeated one is there        *)
(* already.                                                                *)
LEMMA HeldDelivery ==
  ASSUME HeldInv, NEW c \in Clients, NEW r \in outbox[c], Deliver(c, r)
  PROVE  HeldInv'
PROOF
  <1>1. SyncTypeInv'
    BY DeliveryTyped DEF HeldInv
  <1> USE DEF serverVars, socketVars, clientVars
  <1>2. CASE Persist(c, r)
    <2> DEFINE left == IF r.relayed THEN ToSet(clients) ELSE ToSet(clients) \ {c}
    <2>1. /\ InsertRow(r) /\ StartPublishing(c, left) /\ ~Stored(r.id)
          /\ UNCHANGED <<clients, subscribed, requests, socket, doc, observed,
                         ready, failed, receiving, outbox, checkpoint>>
      BY <1>2 DEF Persist
    <2>2. Clients \ {c} \subseteq left
      BY DEF HeldInv, AllThere
    <2>3. \A n \in 1..Len(log) : log[n].id # r.id
      BY <2>1 DEF Stored, HeldInv, Uncompacted
    <2> HIDE DEF left
    <2>4. QED  BY <1>1, <2>1, <2>2, <2>3, HeldInsert
  <1>3. CASE AlreadyPresent(c, r)
    <2>1. /\ Settle(c, r.id)
          /\ UNCHANGED <<log, stored, clients, subscribed, publishing, responses, requests,
                         socket, doc, observed, ready, failed, receiving, budget>>
      BY <1>3 DEF AlreadyPresent
    <2>2. EveryRowReaches'
      BY <2>1, ReachesKept DEF HeldInv, EveryRowReaches
    <2>3. QED
      BY <1>1, <2>1, <2>2, HeldSettle DEF HeldInv, AllThere, Uncompacted
  <1>4. CASE CommitManifest(c, r)
    <2>1. /\ InsertRow(r) /\ StartPublishing(None, ToSet(clients))
          /\ \A n \in DOMAIN log : log[n].id # r.id
          /\ UNCHANGED <<clients, subscribed, requests, socket, doc, observed,
                         ready, failed, receiving, outbox, checkpoint>>
      BY <1>4 DEF CommitManifest
    <2>2. Clients \ {c} \subseteq ToSet(clients)
      BY DEF HeldInv, AllThere
    <2>3. \A n \in 1..Len(log) : log[n].id # r.id
      BY <2>1 DEF HeldInv, SyncTypeInv, LogTyped
    <2>4. QED  BY <1>1, <2>1, <2>2, <2>3, HeldInsert
  <1>5. QED  BY <1>2, <1>3, <1>4 DEF Deliver

(* A recipient served has the row in its socket instead.                   *)
LEMMA HeldFanOut ==
  ASSUME HeldInv, NEW p \in publishing, FanOut(p)
  PROVE  HeldInv'
PROOF
  <1>1. PICK c \in Clients :
          /\ socket' = IF c \in subscribed
                       THEN [socket EXCEPT ![c] =
                               Append(@, [kind |-> "frame", sequence |-> p.sequence])]
                       ELSE socket
          /\ publishing' = (publishing \ {p}) \union {[p EXCEPT !.left = @ \ {c}]}
          /\ UNCHANGED <<log, stored, clients, subscribed, responses, requests, doc,
                         observed, ready, failed, receiving, outbox, checkpoint, budget>>
    BY DEF FanOut, clientVars
  <1>2. SyncTypeInv'
    BY FanOutTyped DEF HeldInv
  <1> DEFINE m == [kind |-> "frame", sequence |-> p.sequence]
             q == [p EXCEPT !.left = @ \ {c}]
  <1>3. p \in [sequence : 1..Len(log), by : Clients \union {None}, left : SUBSET ToSet(clients)]
    BY DEF HeldInv, SyncTypeInv, HubTyped
  <1>4. q \in publishing' /\ q.sequence = p.sequence /\ q.left = p.left \ {c}
    BY <1>1, <1>3
  <1>5. socket' = [socket EXCEPT ![c] = Append(@, m)]
    BY <1>1 DEF HeldInv, AllThere
  <1>6. socket \in [Clients -> Seq(Messages)] /\ m \in Messages
    <2>1. p.sequence \in Sequences0
      BY <1>3, SyncBounds DEF HeldInv, SyncTypeInv, LogTyped, Sequences0
    <2>2. QED
      BY <2>1 DEF HeldInv, SyncTypeInv, SocketsTyped, Messages
  <1>7. m.kind = "frame" /\ m.sequence = p.sequence
    OBVIOUS
  <1> HIDE DEF m, q
  <1>8. /\ Len(socket'[c]) = Len(socket[c]) + 1 /\ Len(socket[c]) \in Nat
        /\ \A i \in 1..Len(socket[c]) : socket'[c][i] = socket[c][i]
        /\ socket'[c][Len(socket[c]) + 1] = m
        /\ \A d \in Clients \ {c} : socket'[d] = socket[d]
    <2>1. socket[c] \in Seq(Messages) /\ socket'[c] = Append(socket[c], m)
      BY <1>5, <1>6
    <2>2. \A d \in Clients \ {c} : socket'[d] = socket[d]
      BY <1>5, <1>6
    <2>3. QED
      BY <1>6, <2>1, <2>2
  <1>9. EveryRowReaches'
    <2> SUFFICES ASSUME NEW d \in Clients, NEW n \in 1..Len(log) PROVE Reaches(d, n)'
      BY <1>1 DEF EveryRowReaches
    <2>1. Reaches(d, n)
      BY DEF HeldInv, EveryRowReaches
    <2>2. CASE d # c
      <3>1. socket'[d] = socket[d]
        BY <1>8, <2>2
      <3>2. ASSUME NEW x \in publishing, x.sequence = n, d \in x.left
            PROVE  \E y \in publishing' : y.sequence = n /\ d \in y.left
        <4>1. CASE x = p
          BY <1>4, <2>2, <3>2, <4>1
        <4>2. CASE x # p
          BY <1>1, <3>2, <4>2
        <4>3. QED  BY <4>1, <4>2
      <3>3. QED
        BY <1>1, <2>1, <3>1, <3>2, ReachesKept
    <2>3. CASE d = c
      <3>1. \A i \in 1..Len(socket[c]) : i \in 1..Len(socket'[c]) /\ socket'[c][i] = socket[c][i]
        BY <1>8
      <3>2. CASE Asks(c, n)
        BY <1>1, <2>3, <3>1, <3>2 DEF Asks, Reaches
      <3>3. ASSUME NEW x \in publishing, x.sequence = n, c \in x.left
            PROVE  Underway(c, n)'
        <4>1. CASE x = p
          <5>1. Len(socket[c]) + 1 \in 1..Len(socket'[c])
            BY <1>8
          <5>2. QED  BY <1>7, <1>8, <3>3, <4>1, <5>1 DEF Underway
        <4>2. CASE x # p
          <5>1. x \in publishing'
            BY <1>1, <4>2
          <5>2. QED  BY <3>3, <5>1 DEF Underway
        <4>3. QED  BY <4>1, <4>2
      <3>4. CASE Underway(c, n)
        <4>1. CASE \E i \in 1..Len(receiving[c]) : receiving[c][i] = n
          BY <1>1, <2>3, <4>1 DEF Reaches, Underway
        <4>2. CASE \E i \in 1..Len(socket[c]) :
                     socket[c][i].kind = "frame" /\ socket[c][i].sequence = n
          BY <2>3, <3>1, <4>2 DEF Reaches, Underway
        <4>3. QED  BY <2>3, <3>3, <3>4, <4>1, <4>2 DEF Underway, Reaches
      <3>5. QED
        BY <1>1, <2>1, <2>3, <3>2, <3>4 DEF Reaches
    <2>4. QED  BY <2>2, <2>3
  <1>10. QED
    BY <1>1, <1>2, <1>9 DEF HeldInv, AllThere, Uncompacted, OwnEdits

(* A fan-out that ends has nobody left.                                    *)
LEMMA HeldPublished ==
  ASSUME HeldInv, NEW p \in publishing, FinishPublish(p)
  PROVE  HeldInv'
PROOF
  <1>1. /\ publishing' = publishing \ {p} /\ p.left = {}
        /\ IF p.by = None THEN UNCHANGED <<outbox, checkpoint>>
           ELSE Settle(p.by, log[p.sequence].id)
        /\ UNCHANGED <<log, stored, clients, subscribed, responses, requests, socket, doc,
                       observed, ready, failed, receiving, budget>>
    BY DEF FinishPublish, socketVars
  <1>2. SyncTypeInv'
    BY PublishedTyped DEF HeldInv
  <1>3. OwnEdits'
    <2>1. CASE p.by = None
      BY <1>1, <2>1 DEF HeldInv, OwnEdits
    <2>2. CASE p.by # None
      <3>1. p.by \in Clients
        BY <2>2 DEF HeldInv, SyncTypeInv, HubTyped
      <3>2. QED  BY <1>1, <2>2, <3>1, HeldSettle
    <2>3. QED  BY <2>1, <2>2
  <1>4. EveryRowReaches'
    <2>1. \A c \in Clients : \A x \in publishing : c \in x.left => x \in publishing'
      BY <1>1
    <2>2. QED
      BY <1>1, <2>1, ReachesKept DEF HeldInv, EveryRowReaches
  <1>5. QED
    BY <1>1, <1>2, <1>3, <1>4 DEF HeldInv, AllThere, Uncompacted

(* The response to a commit moves no row.                                  *)
LEMMA HeldResponded ==
  ASSUME HeldInv, NEW m \in responses, CommitResponse(m)
  PROVE  HeldInv'
PROOF
  <1>1. /\ Settle(m.client, m.id)
        /\ UNCHANGED <<log, stored, clients, subscribed, publishing, requests, socket, doc,
                       ready, failed, receiving, budget>>
    BY DEF CommitResponse, socketVars
  <1>2. SyncTypeInv'
    BY RespondedTyped DEF HeldInv
  <1>3. m.client \in Clients
    BY DEF HeldInv, SyncTypeInv, HubTyped
  <1>4. OwnEdits'
    BY <1>1, <1>3, HeldSettle
  <1>5. EveryRowReaches'
    BY <1>1, ReachesKept DEF HeldInv, EveryRowReaches
  <1>6. QED
    BY <1>1, <1>2, <1>4, <1>5 DEF HeldInv, AllThere, Uncompacted

(* A page brings the rows asked for, or ends before them and is not the    *)
(* last.                                                                   *)
LEMMA HeldSubscribed ==
  ASSUME HeldInv, NEW c \in Clients, Subscribe(c)
  PROVE  HeldInv'
PROOF
  <1> DEFINE after == requests[c][1]
             L == Len(socket[c])
  <1>1. PICK entries \in Seq(Nat) :
           /\ requests[c] # <<>> /\ after \in Nat
           /\ \A i \in 1..Len(entries) : entries[i] \in stored
           /\ IsPage(entries, after)
           /\ socket' \in [Clients -> Seq(Messages)]
           /\ Len(socket'[c]) = L + Len(entries) + 1
           /\ \A i \in 1..L : socket'[c][i] = socket[c][i]
           /\ \A i \in 1..Len(entries) : socket'[c][L + i] = Frame(entries[i])
           /\ socket'[c][L + Len(entries) + 1] = Page(after, entries)
           /\ \A d \in Clients \ {c} : socket'[d] = socket[d]
           /\ L \in Nat
    BY PageSent DEF HeldInv
  <1>2. /\ subscribed' = subscribed \union {c}
        /\ requests' = [requests EXCEPT ![c] = Tail(@)]
        /\ UNCHANGED <<log, stored, clients, publishing, responses, doc, observed, ready,
                       failed, receiving, outbox, checkpoint, budget>>
    BY DEF Subscribe, clientVars
  <1>3. SyncTypeInv'
    BY SubscribedTyped DEF HeldInv
  <1>4. requests \in [Clients -> Seq(Nat)] /\ requests[c] \in Seq(Nat)
    BY DEF HeldInv, SyncTypeInv, RequestsTyped
  <1>5. stored = 1..Len(log) /\ Len(log) \in Nat
    BY DEF HeldInv, Uncompacted, SyncTypeInv, LogTyped
  <1>6. Len(entries) \in Nat /\ DOMAIN entries = 1..Len(entries)
    OBVIOUS
  <1>7. ASSUME NEW n \in 1..Len(log), after < n
        PROVE  Reaches(c, n)'
    <2>1. CASE \E i \in 1..Len(entries) : entries[i] = n
      <3>1. PICK i \in 1..Len(entries) : entries[i] = n
        BY <2>1
      <3>2. L + i \in 1..Len(socket'[c])
        BY <1>1, <1>6
      <3>3. socket'[c][L + i] = Frame(n)
        BY <1>1, <3>1
      <3>4. Frame(n).kind = "frame" /\ Frame(n).sequence = n
        BY DEF Frame
      <3>5. QED  BY <3>2, <3>3, <3>4 DEF Reaches, Underway
    <2>2. CASE ~\E i \in 1..Len(entries) : entries[i] = n
      <3>1. n \in stored /\ n > after /\ n \notin ToSet(entries)
        BY <1>5, <1>6, <1>7, <2>2, <1>1 DEF ToSet
      <3>2. Len(entries) = PageSize /\ \A i \in 1..Len(entries) : entries[i] < n
        BY <1>1, <1>6, <3>1 DEF IsPage
      <3>3. Len(entries) >= 1 /\ entries # <<>>
        BY <3>2, SyncBounds
      <3>4. Page(after, entries).sequence = entries[Len(entries)] /\ entries[Len(entries)] < n
        BY <3>2, <3>3 DEF Page, Last
      <3>5. Page(after, entries).kind = "more"
        BY <3>1 DEF Page
      <3>6. L + Len(entries) + 1 \in 1..Len(socket'[c])
        BY <1>1, <1>6
      <3>7. QED  BY <1>1, <3>4, <3>5, <3>6 DEF Reaches, Asks
    <2>3. QED  BY <2>1, <2>2
  <1>8. EveryRowReaches'
    <2> SUFFICES ASSUME NEW d \in Clients, NEW n \in 1..Len(log) PROVE Reaches(d, n)'
      BY <1>2 DEF EveryRowReaches
    <2>1. Reaches(d, n)
      BY DEF HeldInv, EveryRowReaches
    <2>2. CASE d # c
      <3>1. socket'[d] = socket[d] /\ requests'[d] = requests[d]
        BY <1>1, <1>2, <1>4, <2>2
      <3>2. QED  BY <1>2, <2>1, <3>1, ReachesKept
    <2>3. CASE d = c /\ after < n
      BY <1>7, <2>3
    <2>4. CASE d = c /\ ~(after < n)
      <3>1. \A i \in 1..L : i \in 1..Len(socket'[c]) /\ socket'[c][i] = socket[c][i]
        BY <1>1, <1>6
      <3>2. CASE Underway(c, n)
        BY <1>2, <2>4, <3>1, <3>2 DEF Underway, Reaches
      <3>3. CASE Asks(c, n)
        <4>1. CASE \E i \in 1..Len(requests[c]) : requests[c][i] < n
          <5>1. PICK i \in 1..Len(requests[c]) : requests[c][i] < n
            BY <4>1
          <5>2. i - 1 \in 1..Len(Tail(requests[c]))
                /\ Tail(requests[c])[i - 1] = requests[c][i]
            <6>1. i # 1
              BY <2>4, <5>1
            <6>2. PICK q \in Seq(Nat) : q = requests[c]
              BY <1>4
            <6>3. q # <<>> /\ i \in 1..Len(q)
              BY <1>1, <5>1, <6>2
            <6>4. Len(Tail(q)) = Len(q) - 1 /\ \A j \in 1..Len(Tail(q)) : Tail(q)[j] = q[j + 1]
              BY <6>3, HeadTailProperties
            <6>5. Len(q) \in Nat /\ i - 1 \in 1..(Len(q) - 1) /\ (i - 1) + 1 = i
              BY <6>1, <6>3
            <6>6. QED  BY <6>2, <6>4, <6>5
          <5>3. requests'[c] = Tail(requests[c])
            BY <1>2, <1>4
          <5>4. QED  BY <2>4, <5>1, <5>2, <5>3 DEF Asks, Reaches
        <4>2. CASE \E i \in 1..L : socket[c][i].kind = "more" /\ socket[c][i].sequence < n
          BY <2>4, <3>1, <4>2 DEF Asks, Reaches
        <4>3. QED  BY <3>3, <4>1, <4>2 DEF Asks
      <3>4. QED
        BY <1>2, <2>1, <2>4, <3>2, <3>3 DEF Reaches
    <2>5. QED  BY <2>2, <2>3, <2>4
  <1>9. QED
    BY <1>2, <1>3, <1>8 DEF HeldInv, AllThere, Uncompacted, OwnEdits

(* What arrives moves on into the chain, or asks for the next page.        *)
LEMMA HeldReceived ==
  ASSUME HeldInv, NEW c \in Clients, Receive(c)
  PROVE  HeldInv'
PROOF
  <1> DEFINE m == socket[c][1]
  <1>1. SyncTypeInv'
    BY ReceivedTyped DEF HeldInv
  <1>2. /\ socket[c] # <<>> /\ socket \in [Clients -> Seq(Messages)] /\ socket[c] \in Seq(Messages)
        /\ Head(socket[c]) = m
    BY DEF Receive, HeldInv, SyncTypeInv, SocketsTyped
  <1>3. /\ \/ /\ m.kind = "frame"
              /\ receiving' = [receiving EXCEPT ![c] = Append(@, m.sequence)]
              /\ UNCHANGED requests
           \/ /\ m.kind = "more"
              /\ requests' = [requests EXCEPT ![c] = Append(@, m.sequence)]
              /\ UNCHANGED receiving
           \/ /\ m.kind = "last"
              /\ receiving' = [receiving EXCEPT ![c] = Append(@, Finish)]
              /\ UNCHANGED requests
        /\ socket' = [socket EXCEPT ![c] = Tail(@)]
        /\ UNCHANGED <<log, stored, clients, subscribed, publishing, doc, failed,
                       outbox, checkpoint>>
    BY <1>2 DEF Receive, serverVars
  <1>4. /\ socket'[c] = Tail(socket[c]) /\ Len(socket[c]) >= 1 /\ Len(socket[c]) \in Nat
        /\ Len(socket'[c]) = Len(socket[c]) - 1
        /\ \A i \in 1..Len(socket'[c]) : socket'[c][i] = socket[c][i + 1]
        /\ \A d \in Clients \ {c} : socket'[d] = socket[d]
    BY <1>2, <1>3
  <1>5. m \in Messages
    BY <1>2
  <1>6. m.sequence \in Nat /\ Finish \in Nat
    BY <1>5, SyncBounds DEF Messages, Sequences0, Finish
  <1>7. /\ receiving \in [Clients -> Seq(Nat)] /\ receiving[c] \in Seq(Nat)
        /\ requests \in [Clients -> Seq(Nat)] /\ requests[c] \in Seq(Nat)
    BY DEF HeldInv, SyncTypeInv, DocumentsTyped, RequestsTyped
  <1> HIDE DEF m
  (* Nothing that is there goes away, and the head becomes a request or a link. *)
  <1>8. /\ \A i \in 1..Len(requests[c]) :
             i \in 1..Len(requests'[c]) /\ requests'[c][i] = requests[c][i]
        /\ m.kind = "more" => /\ Len(requests[c]) + 1 \in 1..Len(requests'[c])
                              /\ requests'[c][Len(requests[c]) + 1] = m.sequence
    <2>1. CASE m.kind = "more" /\ requests' = [requests EXCEPT ![c] = Append(@, m.sequence)]
      <3>1. requests'[c] = Append(requests[c], m.sequence)
        BY <1>7, <2>1
      <3>2. QED  BY <1>6, <1>7, <3>1
    <2>2. CASE m.kind # "more" /\ UNCHANGED requests
      BY <2>2
    <2>3. QED  BY <1>3, <2>1, <2>2
  <1>9. /\ \A i \in 1..Len(receiving[c]) :
             i \in 1..Len(receiving'[c]) /\ receiving'[c][i] = receiving[c][i]
        /\ m.kind = "frame" => /\ Len(receiving[c]) + 1 \in 1..Len(receiving'[c])
                               /\ receiving'[c][Len(receiving[c]) + 1] = m.sequence
    <2>1. CASE m.kind = "frame" /\ receiving' = [receiving EXCEPT ![c] = Append(@, m.sequence)]
      <3>1. receiving'[c] = Append(receiving[c], m.sequence)
        BY <1>7, <2>1
      <3>2. QED  BY <1>6, <1>7, <3>1
    <2>2. CASE m.kind # "frame" /\ UNCHANGED receiving
      BY <2>2
    <2>3. CASE m.kind # "frame" /\ receiving' = [receiving EXCEPT ![c] = Append(@, Finish)]
      <3>1. receiving'[c] = Append(receiving[c], Finish)
        BY <1>7, <2>3
      <3>2. QED  BY <1>6, <1>7, <2>3, <3>1
    <2>4. QED  BY <1>3, <2>1, <2>2, <2>3
  <1>10. EveryRowReaches'
    <2> SUFFICES ASSUME NEW d \in Clients, NEW n \in 1..Len(log) PROVE Reaches(d, n)'
      BY <1>3 DEF EveryRowReaches
    <2>1. Reaches(d, n)
      BY DEF HeldInv, EveryRowReaches
    <2>2. CASE d # c
      <3>1. socket'[d] = socket[d] /\ requests'[d] = requests[d] /\ receiving'[d] = receiving[d]
        BY <1>3, <1>4, <1>7, <2>2
      <3>2. QED  BY <1>3, <2>1, <3>1, ReachesKept
    <2>3. CASE d = c
      <3>1. ASSUME NEW i \in 1..Len(socket[c])
            PROVE  \/ socket[c][i] = m
                   \/ i - 1 \in 1..Len(socket'[c]) /\ socket'[c][i - 1] = socket[c][i]
        BY <1>4 DEF m
      <3>2. CASE Asks(c, n)
        <4>1. CASE \E i \in 1..Len(requests[c]) : requests[c][i] < n
          BY <1>8, <2>3, <4>1 DEF Asks, Reaches
        <4>2. ASSUME NEW i \in 1..Len(socket[c]), socket[c][i].kind = "more",
                     socket[c][i].sequence < n
              PROVE  Asks(c, n)'
          <5>1. CASE socket[c][i] = m
            BY <1>8, <4>2, <5>1 DEF Asks
          <5>2. CASE i - 1 \in 1..Len(socket'[c]) /\ socket'[c][i - 1] = socket[c][i]
            BY <4>2, <5>2 DEF Asks
          <5>3. QED  BY <3>1, <5>1, <5>2
        <4>3. QED  BY <2>3, <3>2, <4>1, <4>2 DEF Asks, Reaches
      <3>3. CASE Underway(c, n)
        <4>1. CASE \E i \in 1..Len(receiving[c]) : receiving[c][i] = n
          BY <1>9, <2>3, <4>1 DEF Underway, Reaches
        <4>2. ASSUME NEW i \in 1..Len(socket[c]), socket[c][i].kind = "frame",
                     socket[c][i].sequence = n
              PROVE  Underway(c, n)'
          <5>1. CASE socket[c][i] = m
            BY <1>9, <4>2, <5>1 DEF Underway
          <5>2. CASE i - 1 \in 1..Len(socket'[c]) /\ socket'[c][i - 1] = socket[c][i]
            BY <4>2, <5>2 DEF Underway
          <5>3. QED  BY <3>1, <5>1, <5>2
        <4>3. CASE \E p \in publishing : p.sequence = n /\ c \in p.left
          BY <1>3, <2>3, <4>3 DEF Underway, Reaches
        <4>4. QED  BY <2>3, <3>3, <4>1, <4>2, <4>3 DEF Underway, Reaches
      <3>4. QED
        BY <1>3, <2>1, <2>3, <3>2, <3>3 DEF Reaches
    <2>4. QED  BY <2>2, <2>3
  <1>11. QED
    BY <1>1, <1>3, <1>10 DEF HeldInv, AllThere, Uncompacted, OwnEdits

(* What leaves the chain is merged or has failed.                          *)
LEMMA HeldChain ==
  ASSUME HeldInv, NEW c \in Clients, Apply(c) \/ Fail(c) \/ FinishSync(c)
  PROVE  HeldInv'
PROOF
  <1>1. SyncTypeInv'
    BY ChainTyped DEF HeldInv
  <1>2. /\ receiving[c] # <<>> /\ receiving' = [receiving EXCEPT ![c] = Tail(@)]
        /\ UNCHANGED <<log, stored, clients, subscribed, publishing, responses, requests,
                       socket, outbox, checkpoint>>
    BY DEF Apply, Fail, FinishSync, NextReceived, serverVars, socketVars
  <1>3. /\ receiving \in [Clients -> Seq(Nat)] /\ receiving[c] \in Seq(Nat)
        /\ doc \in [Clients -> SUBSET Edits] /\ failed \in [Clients -> SUBSET (1..Len(log))]
        /\ DOMAIN log = 1..Len(log) /\ Len(log) \in Nat
    BY DEF HeldInv, SyncTypeInv, LogTyped, DocumentsTyped
  <1>4. /\ receiving'[c] = Tail(receiving[c]) /\ Len(receiving[c]) >= 1
        /\ Len(receiving[c]) \in Nat
        /\ Len(receiving'[c]) = Len(receiving[c]) - 1
        /\ \A i \in 1..Len(receiving'[c]) : receiving'[c][i] = receiving[c][i + 1]
        /\ \A d \in Clients \ {c} : receiving'[d] = receiving[d]
        /\ Head(receiving[c]) = receiving[c][1]
    BY <1>2, <1>3
  <1> DEFINE h == receiving[c][1]
  (* What left the chain is merged, has failed, or was no row. *)
  <1>5. /\ \A d \in Clients : doc[d] \subseteq doc'[d]
        /\ \A d \in Clients \ {c} : failed'[d] = failed[d] /\ doc'[d] = doc[d]
        /\ \A n \in 1..Len(log) : n = h =>
             log[n].content \subseteq doc'[c] \/ n \in failed'[c]
        /\ \A n \in 1..Len(log) : n # h /\ n \in failed[c] => n \in failed'[c]
    <2>1. \A f, n \in 1..Len(log) : f \in failed[c] /\ f # n => f \in OtherFailures(c, n)
      BY DEF OtherFailures, HeldInv, Uncompacted
    <2>2. CASE Apply(c)
      <3>1. PICK n \in 1..Len(log) :
              /\ n = h
              /\ doc' = [doc EXCEPT ![c] = @ \union log[n].content]
              /\ failed' = [failed EXCEPT ![c] =
                   {f \in OtherFailures(c, n) : f > log[n].cutoff}]
        <4>1. PICK n \in DOMAIN log :
                /\ NextReceived(c, n)
                /\ doc' = [doc EXCEPT ![c] = @ \union log[n].content]
                /\ failed' = [failed EXCEPT ![c] =
                     {f \in OtherFailures(c, n) : f > log[n].cutoff}]
          BY <2>2 DEF Apply
        <4>2. n = h /\ n \in 1..Len(log)
          BY <1>3, <1>4, <4>1 DEF NextReceived
        <4>3. QED  BY <4>1, <4>2
      <3>2. log[n].cutoff = 0
        BY DEF HeldInv, Uncompacted
      <3>3. \A f \in 1..Len(log) : f > log[n].cutoff
        BY <1>3, <3>2
      <3>4. QED  BY <1>3, <2>1, <3>1, <3>3
    <2>3. CASE Fail(c)
      <3>1. PICK n \in 1..Len(log) :
              /\ n = h
              /\ failed' = [failed EXCEPT ![c] = OtherFailures(c, n) \union {n}]
              /\ UNCHANGED doc
        BY <1>3, <1>4, <2>3 DEF Fail, NextReceived
      <3>2. QED  BY <1>3, <2>1, <3>1
    <2>4. CASE FinishSync(c)
      <3>1. h = Finish /\ UNCHANGED <<doc, failed>>
        BY <1>4, <2>4 DEF FinishSync, NextReceived
      <3>2. \A n \in 1..Len(log) : n # h
        BY <1>3, <3>1 DEF Finish
      <3>3. QED  BY <3>1, <3>2
    <2>5. QED  BY <2>2, <2>3, <2>4
  <1> HIDE DEF h
  <1>6. EveryRowReaches'
    <2> SUFFICES ASSUME NEW d \in Clients, NEW n \in 1..Len(log) PROVE Reaches(d, n)'
      BY <1>2 DEF EveryRowReaches
    <2>1. Reaches(d, n)
      BY DEF HeldInv, EveryRowReaches
    <2>2. CASE d # c
      BY <1>2, <1>4, <1>5, <2>1, <2>2, ReachesKept
    <2>3. CASE d = c
      <3>1. CASE n = h
        BY <1>2, <1>5, <2>3, <3>1 DEF Reaches
      <3>2. CASE n # h
        <4>1. ASSUME NEW i \in 1..Len(receiving[c]), receiving[c][i] = n
              PROVE  Underway(c, n)'
          <5>1. i # 1
            BY <3>2, <4>1 DEF h
          <5>2. i - 1 \in 1..Len(receiving'[c]) /\ receiving'[c][i - 1] = n
            BY <1>4, <4>1, <5>1
          <5>3. QED  BY <5>2 DEF Underway
        <4>2. Underway(c, n) => Underway(c, n)'
          BY <1>2, <4>1 DEF Underway
        <4>3. Asks(c, n) => Asks(c, n)'
          BY <1>2 DEF Asks
        <4>4. QED
          BY <1>2, <1>5, <2>1, <2>3, <3>2, <4>2, <4>3 DEF Reaches
      <3>3. QED  BY <3>1, <3>2
    <2>4. QED  BY <2>2, <2>3
  <1>7. OwnEdits'
    BY <1>2, <1>5 DEF HeldInv, OwnEdits
  <1>8. QED
    BY <1>1, <1>2, <1>6, <1>7 DEF HeldInv, AllThere, Uncompacted

(* A retry asks for all it forgets.                                        *)
LEMMA HeldAsked ==
  ASSUME HeldInv, NEW c \in Clients, Retry(c) \/ Resubscribe(c)
  PROVE  HeldInv'
PROOF
  <1>1. SyncTypeInv'
    BY AskedTyped DEF HeldInv
  <1>2. /\ UNCHANGED <<log, stored, clients, subscribed, publishing, responses, socket, doc,
                       receiving, outbox, checkpoint>>
        /\ \A d \in Clients : failed'[d] = failed[d] \/ d = c
    BY DEF Retry, Resubscribe, serverVars, clientVars, HeldInv, SyncTypeInv, DocumentsTyped
  <1>3. requests \in [Clients -> Seq(Nat)] /\ requests[c] \in Seq(Nat)
    BY DEF HeldInv, SyncTypeInv, RequestsTyped
  <1>4. Connected(c)
    BY DEF HeldInv, AllThere, Connected
  <1>5. PICK after \in 0..Len(log) :
          /\ requests' = [requests EXCEPT ![c] = Append(@, after)]
          /\ failed'[c] = failed[c] \/ \A n \in failed[c] : after < n
    <2>1. CASE Retry(c)
      <3>1. PICK first \in failed[c] :
              /\ first \in 1..Len(log) /\ \A g \in failed[c] : first <= g
              /\ Request(c, first - 1)
        BY <2>1, FirstFailure DEF HeldInv
      <3>2. first - 1 \in 0..Len(log) /\ \A g \in failed[c] : first - 1 < g
        BY <3>1 DEF HeldInv, SyncTypeInv, LogTyped, DocumentsTyped
      <3>3. QED  BY <1>4, <3>1, <3>2 DEF Request
    <2>2. CASE Resubscribe(c)
      <3>1. observed[c] \in 0..Len(log) /\ failed' = failed /\ Request(c, observed[c])
        BY <2>2 DEF Resubscribe, clientVars, HeldInv, SyncTypeInv, DocumentsTyped
      <3>2. QED  BY <1>4, <3>1 DEF Request
    <2>3. QED  BY <2>1, <2>2
  <1>6. /\ \A i \in 1..Len(requests[c]) :
             i \in 1..Len(requests'[c]) /\ requests'[c][i] = requests[c][i]
        /\ Len(requests[c]) + 1 \in 1..Len(requests'[c])
        /\ requests'[c][Len(requests[c]) + 1] = after
        /\ \A d \in Clients \ {c} : requests'[d] = requests[d]
    BY <1>3, <1>5
  <1>7. EveryRowReaches'
    <2> SUFFICES ASSUME NEW d \in Clients, NEW n \in 1..Len(log) PROVE Reaches(d, n)'
      BY <1>2 DEF EveryRowReaches
    <2>1. Reaches(d, n)
      BY DEF HeldInv, EveryRowReaches
    <2>2. CASE d # c
      BY <1>2, <1>6, <2>1, <2>2, ReachesKept
    <2>3. CASE d = c
      <3>1. Asks(c, n) => Asks(c, n)'
        BY <1>2, <1>6 DEF Asks
      <3>2. n \in failed[c] => n \in failed'[c] \/ Asks(c, n)'
        BY <1>5, <1>6 DEF Asks
      <3>3. Underway(c, n) => Underway(c, n)'
        BY <1>2 DEF Underway
      <3>4. QED
        BY <1>2, <2>1, <2>3, <3>1, <3>2, <3>3 DEF Reaches
    <2>4. QED  BY <2>2, <2>3
  <1>8. QED
    BY <1>1, <1>2, <1>7 DEF HeldInv, AllThere, Uncompacted, OwnEdits

(* Every step keeps the invariant; nobody connects or disconnects.         *)
LEMMA HeldStep ==
  ASSUME HeldInv, ConnectionsHold, SyncNext
  PROVE  HeldInv'
PROOF
  <1>1. CASE HubStep
    BY <1>1, HeldFanOut, HeldPublished, HeldResponded, HeldSubscribed DEF HubStep
  <1>2. ASSUME NEW c \in Clients,
               \/ \E e \in Edits : Edit(c, e)
               \/ \E k \in Checkpoints : BeginCheckpoint(c, k)
               \/ SealCheckpoint(c)
        PROVE  HeldInv'
    BY <1>2, HeldComposing
  <1>3. ASSUME NEW c \in Clients, \E r \in outbox[c] : Deliver(c, r)
        PROVE  HeldInv'
    BY <1>3, HeldDelivery
  <1>4. ASSUME NEW c \in Clients, ReceiveStep(c)
        PROVE  HeldInv'
    BY <1>4, HeldReceived, HeldChain DEF ReceiveStep
  <1>5. ASSUME NEW c \in Clients, Retry(c) \/ Resubscribe(c)
        PROVE  HeldInv'
    BY <1>5, HeldAsked
  <1>6. ASSUME NEW c \in Clients PROVE ~Disconnect(c) /\ ~Connect(c)
    BY DEF Disconnect, Connect, Connected, ConnectionsHold, HeldInv, AllThere, SyncTypeInv
  <1>7. QED
    BY <1>1, <1>2, <1>3, <1>4, <1>5, <1>6 DEF SyncNext

(* NothingPassesBy, for any number of clients, edits, uploads, page sizes, *)
(* failures and retries, with decryption as slow as it may be and any      *)
(* number of publications at a time: while connections hold and nothing is *)
(* compacted, what the hub accepts is merged, on its way, a failure the    *)
(* user sees, or in a page asked for.                                      *)
THEOREM NothingMissed == ConnectionsHold => (SyncSpec => []NothingPassesBy)
PROOF
  <1> SUFFICES ASSUME ConnectionsHold PROVE SyncSpec => []NothingPassesBy
    OBVIOUS
  <1>1. SyncInit => HeldInv
    BY HeldInit
  <1>2. HeldInv /\ [SyncNext]_syncVars => HeldInv'
    <2>1. ASSUME HeldInv, UNCHANGED syncVars PROVE HeldInv'
      <3>1. SyncTypeInv'
        BY <2>1, SyncStutterTyped DEF HeldInv
      <3>2. UNCHANGED <<log, stored, clients, subscribed, publishing, requests, socket, doc,
                        failed, receiving, outbox, checkpoint>>
        BY <2>1 DEF syncVars, serverVars, socketVars, clientVars
      <3>3. AllThere' /\ Uncompacted' /\ OwnEdits'
        BY <2>1, <3>2 DEF HeldInv, AllThere, Uncompacted, OwnEdits
      <3>4. EveryRowReaches'
        BY <2>1, <3>2, ReachesKept DEF HeldInv, EveryRowReaches
      <3>5. QED  BY <3>1, <3>3, <3>4 DEF HeldInv
    <2>2. QED  BY <2>1, HeldStep
  <1>3. HeldInv => NothingPassesBy
    BY HeldSuffices
  <1>4. QED
    BY <1>1, <1>2, <1>3, PTL DEF SyncSpec

-----------------------------------------------------------------------------
(* SectionSync: what the author of a checkpoint had merged. *)

(* Of the rows up to a cutoff, content holds all but the unmerged.         *)
Covers(content, unmerged, cutoff) ==
  \A n \in 1..Len(log) : n <= cutoff => log[n].content \subseteq content \union unmerged

(* A checkpoint begun covers its rows in the document, a record composed   *)
(* covers them in its content.                                             *)
EncodingClaims ==
  \A c \in Clients : checkpoint[c].phase = "encoding" =>
    Covers(doc[c], checkpoint[c].unmerged, checkpoint[c].cutoff)

RecordsClaim ==
  \A c \in Clients : \A r \in outbox[c] : Covers(r.content, r.unmerged, r.cutoff)

(* An edit is stored in its row or a later one, or was unmerged.           *)
LossesClaimed ==
  \A n \in 1..Len(log) : \A e \in log[n].content :
    \/ \E m \in stored : n <= m /\ e \in log[m].content
    \/ \E m \in 1..Len(log) : n <= log[m].cutoff /\ e \in log[m].unmerged

ClaimsInv == SyncTypeInv /\ EncodingClaims /\ RecordsClaim /\ LossesClaimed

(* A document that grows, a record sent over another connection, an end of *)
(* a checkpoint or of a record take no claim back.                         *)
LEMMA ClaimsKept ==
  ASSUME ClaimsInv, SyncTypeInv', UNCHANGED <<log, stored>>,
         \A c \in Clients : doc[c] \subseteq doc'[c],
         \A c \in Clients : checkpoint'[c].phase = "encoding" =>
           checkpoint'[c] = checkpoint[c],
         \A c \in Clients : \A r \in outbox'[c] : \E q \in outbox[c] :
           r.content = q.content /\ r.unmerged = q.unmerged /\ r.cutoff = q.cutoff
  PROVE  ClaimsInv'
PROOF
  <1>1. EncodingClaims'
    <2> SUFFICES ASSUME NEW c \in Clients, checkpoint'[c].phase = "encoding",
                        NEW n \in 1..Len(log), n <= checkpoint[c].cutoff
                 PROVE  log[n].content \subseteq doc'[c] \union checkpoint[c].unmerged
      BY DEF EncodingClaims, Covers
    <2>1. log[n].content \subseteq doc[c] \union checkpoint[c].unmerged
      BY DEF ClaimsInv, EncodingClaims, Covers
    <2>2. QED  BY <2>1
  <1>2. RecordsClaim'
    <2> SUFFICES ASSUME NEW c \in Clients, NEW r \in outbox'[c],
                        NEW n \in 1..Len(log), n <= r.cutoff
                 PROVE  log[n].content \subseteq r.content \union r.unmerged
      BY DEF RecordsClaim, Covers
    <2>1. PICK q \in outbox[c] :
            r.content = q.content /\ r.unmerged = q.unmerged /\ r.cutoff = q.cutoff
      OBVIOUS
    <2>2. log[n].content \subseteq q.content \union q.unmerged
      BY <2>1 DEF ClaimsInv, RecordsClaim, Covers
    <2>3. QED  BY <2>1, <2>2
  <1>3. LossesClaimed'
    BY DEF ClaimsInv, LossesClaimed
  <1>4. QED  BY <1>1, <1>2, <1>3 DEF ClaimsInv

(* Nobody has merged anything, nor claims to.                              *)
LEMMA ClaimsInit ==
  ASSUME SyncInit  PROVE ClaimsInv
PROOF
  <1>1. SyncTypeInv
    BY SyncInitTyped
  <1>2. EncodingClaims
    BY DEF SyncInit, EncodingClaims, NoCheckpoint
  <1>3. RecordsClaim
    BY DEF SyncInit, RecordsClaim
  <1>4. LossesClaimed
    BY DEF SyncInit, LossesClaimed
  <1>5. QED  BY <1>1, <1>2, <1>3, <1>4 DEF ClaimsInv

(* A checkpoint begins with what is not merged, and is encoded with what   *)
(* is merged by then.  An edit compacts nothing.                           *)
LEMMA ClaimsComposing ==
  ASSUME ClaimsInv, NEW c \in Clients,
         \/ \E e \in Edits : Edit(c, e)
         \/ \E k \in Checkpoints : BeginCheckpoint(c, k)
         \/ SealCheckpoint(c)
  PROVE  ClaimsInv'
PROOF
  <1>1. SyncTypeInv /\ SyncTypeInv'
    BY ComposingTyped DEF ClaimsInv
  <1>2. doc \in [Clients -> SUBSET Edits] /\ outbox \in [Clients -> SUBSET Records]
        /\ checkpoint \in [Clients -> [phase : {"none", "encoding", "sent", "orphaned"},
                                       id : Checkpoints \union {None},
                                       cutoff : Sequences0, unmerged : SUBSET Edits]]
    BY <1>1 DEF SyncTypeInv, DocumentsTyped, RecordsTyped
  <1>3. UNCHANGED <<log, stored>>
    BY DEF Edit, BeginCheckpoint, SealCheckpoint, serverVars
  <1>4. LossesClaimed'
    BY <1>3 DEF ClaimsInv, LossesClaimed
  <1>5. CASE \E e \in Edits : Edit(c, e)
    <2>1. PICK e \in Edits : Edit(c, e)
      BY <1>5
    <2> DEFINE r == [id |-> e, cutoff |-> 0, content |-> {e}, unmerged |-> {},
                     relayed |-> FALSE]
    <2>2. /\ outbox' = [outbox EXCEPT ![c] = @ \union {r}]
          /\ checkpoint' = checkpoint /\ doc' = [doc EXCEPT ![c] = @ \union {e}]
      BY <2>1 DEF Edit, Enqueue
    <2>3. r.cutoff = 0
      OBVIOUS
    <2> HIDE DEF r
    <2>4. \A d \in Clients : doc[d] \subseteq doc'[d]
      BY <1>2, <2>2
    <2>5. EncodingClaims'
      <3> SUFFICES ASSUME NEW d \in Clients, checkpoint[d].phase = "encoding",
                          NEW n \in 1..Len(log), n <= checkpoint[d].cutoff
                   PROVE  log[n].content \subseteq doc'[d] \union checkpoint[d].unmerged
        BY <1>3, <2>2 DEF EncodingClaims, Covers
      <3>1. log[n].content \subseteq doc[d] \union checkpoint[d].unmerged
        BY DEF ClaimsInv, EncodingClaims, Covers
      <3>2. QED  BY <2>4, <3>1
    <2>6. RecordsClaim'
      <3> SUFFICES ASSUME NEW d \in Clients, NEW q \in outbox'[d],
                          NEW n \in 1..Len(log), n <= q.cutoff
                   PROVE  log[n].content \subseteq q.content \union q.unmerged
        BY <1>3 DEF RecordsClaim, Covers
      <3>1. q \in outbox[d] \/ q = r
        BY <1>2, <2>2
      <3>2. QED  BY <2>3, <3>1 DEF ClaimsInv, RecordsClaim, Covers
    <2>7. QED  BY <1>1, <1>4, <2>5, <2>6 DEF ClaimsInv
  <1>6. CASE \E k \in Checkpoints : BeginCheckpoint(c, k)
    <2>1. PICK k \in Checkpoints : BeginCheckpoint(c, k)
      BY <1>6
    <2>2. /\ checkpoint' = [checkpoint EXCEPT ![c] =
               [phase |-> "encoding", id |-> k, cutoff |-> observed[c],
                unmerged |-> ContentOf(1..observed[c]) \ doc[c]]]
          /\ doc' = doc /\ outbox' = outbox
      BY <2>1 DEF BeginCheckpoint
    <2>3. observed[c] \in Nat /\ Len(log) \in Nat
      BY <1>1 DEF SyncTypeInv, DocumentsTyped, LogTyped
    <2>4. ASSUME NEW n \in 1..Len(log), n <= observed[c]
          PROVE  log[n].content \subseteq doc[c] \union (ContentOf(1..observed[c]) \ doc[c])
      <3>1. n \in 1..observed[c]
        BY <2>3, <2>4
      <3>2. QED  BY <3>1 DEF ContentOf
    <2>5. EncodingClaims'
      <3> SUFFICES ASSUME NEW d \in Clients, checkpoint'[d].phase = "encoding",
                          NEW n \in 1..Len(log), n <= checkpoint'[d].cutoff
                   PROVE  log[n].content \subseteq doc[d] \union checkpoint'[d].unmerged
        BY <1>3, <2>2 DEF EncodingClaims, Covers
      <3>1. CASE d = c
        <4>1. /\ checkpoint'[c].cutoff = observed[c]
              /\ checkpoint'[c].unmerged = ContentOf(1..observed[c]) \ doc[c]
          BY <1>2, <2>2
        <4>2. QED  BY <2>4, <3>1, <4>1
      <3>2. CASE d # c
        <4>1. checkpoint'[d] = checkpoint[d]
          BY <1>2, <2>2, <3>2
        <4>2. QED  BY <4>1 DEF ClaimsInv, EncodingClaims, Covers
      <3>3. QED  BY <3>1, <3>2
    <2>6. RecordsClaim'
      BY <1>3, <2>2 DEF ClaimsInv, RecordsClaim, Covers
    <2>7. QED  BY <1>1, <1>4, <2>5, <2>6 DEF ClaimsInv
  <1>7. CASE SealCheckpoint(c)
    <2> DEFINE r == [id |-> checkpoint[c].id, cutoff |-> checkpoint[c].cutoff,
                     content |-> doc[c], unmerged |-> checkpoint[c].unmerged,
                     relayed |-> FALSE]
    <2>1. /\ checkpoint' = [checkpoint EXCEPT ![c].phase = "sent"]
          /\ outbox' = [outbox EXCEPT ![c] = @ \union {r}] /\ doc' = doc
          /\ checkpoint[c].phase = "encoding"
      BY <1>7 DEF SealCheckpoint, Enqueue
    <2>2. /\ r.cutoff = checkpoint[c].cutoff /\ r.content = doc[c]
          /\ r.unmerged = checkpoint[c].unmerged
      OBVIOUS
    <2> HIDE DEF r
    <2>3. EncodingClaims'
      <3> SUFFICES ASSUME NEW d \in Clients, checkpoint'[d].phase = "encoding"
                   PROVE  Covers(doc[d], checkpoint'[d].unmerged, checkpoint'[d].cutoff)
        BY <1>3, <2>1 DEF EncodingClaims, Covers
      <3>1. checkpoint'[d] = checkpoint[d]
        BY <1>2, <2>1
      <3>2. QED  BY <3>1 DEF ClaimsInv, EncodingClaims
    <2>4. Covers(r.content, r.unmerged, r.cutoff)
      BY <2>1, <2>2 DEF ClaimsInv, EncodingClaims
    <2>5. RecordsClaim'
      <3> SUFFICES ASSUME NEW d \in Clients, NEW q \in outbox'[d]
                   PROVE  Covers(q.content, q.unmerged, q.cutoff)
        BY <1>3 DEF RecordsClaim, Covers
      <3>1. q \in outbox[d] \/ q = r
        BY <1>2, <2>1
      <3>2. QED  BY <2>4, <3>1 DEF ClaimsInv, RecordsClaim
    <2>6. QED  BY <1>1, <1>4, <2>3, <2>5 DEF ClaimsInv
  <1>8. QED  BY <1>5, <1>6, <1>7

(* A row deletes others: what it does not hold of them was unmerged.       *)
LEMMA ClaimsInsert ==
  ASSUME ClaimsInv, SyncTypeInv', NEW c \in Clients, NEW r \in outbox[c], InsertRow(r),
         UNCHANGED <<doc, outbox, checkpoint>>
  PROVE  ClaimsInv'
PROOF
  <1>1. /\ Len(log') = Len(log) + 1 /\ Len(log) \in Nat
        /\ \A n \in 1..Len(log) : log'[n] = log[n]
        /\ log'[Len(log) + 1] = RowOf(r)
        /\ stored' = {n \in stored : n > r.cutoff} \union {Len(log) + 1}
    BY RowInserted DEF ClaimsInv
  <1>2. stored \subseteq 1..Len(log)
    BY DEF ClaimsInv, SyncTypeInv, LogTyped
  <1>3. \A d \in Clients : /\ checkpoint[d].cutoff \in Nat /\ checkpoint[d].cutoff <= Len(log)
                           /\ \A q \in outbox[d] : q.cutoff \in Nat /\ q.cutoff <= Len(log)
    BY SyncBounds DEF ClaimsInv, SyncTypeInv, RecordsTyped, Records, Sequences0
  <1>4. ASSUME NEW content, NEW unmerged, NEW cutoff \in Nat, cutoff <= Len(log),
               Covers(content, unmerged, cutoff), NEW n \in 1..Len(log'), n <= cutoff
        PROVE  log'[n].content \subseteq content \union unmerged
    <2>1. n \in 1..Len(log)
      BY <1>1, <1>4
    <2>2. QED  BY <1>1, <1>4, <2>1 DEF Covers
  <1>5. EncodingClaims'
    BY <1>3, <1>4 DEF ClaimsInv, EncodingClaims, Covers
  <1>6. RecordsClaim'
    BY <1>3, <1>4 DEF ClaimsInv, RecordsClaim, Covers
  <1>7. LossesClaimed'
    <2> DEFINE new == Len(log) + 1
    <2>1. /\ log'[new].content = r.content /\ log'[new].cutoff = r.cutoff
          /\ log'[new].unmerged = r.unmerged /\ new \in stored' /\ new \in 1..Len(log')
      BY <1>1 DEF RowOf
    <2> SUFFICES ASSUME NEW n \in 1..Len(log'), NEW e \in log'[n].content
                 PROVE  \/ \E m \in stored' : n <= m /\ e \in log'[m].content
                        \/ \E m \in 1..Len(log') : n <= log'[m].cutoff /\ e \in log'[m].unmerged
      BY DEF LossesClaimed
    <2>2. CASE n = new
      BY <1>1, <2>1, <2>2
    <2>3. CASE n \in 1..Len(log)
      <3>1. e \in log[n].content
        BY <1>1, <2>3
      <3>2. CASE \E m \in 1..Len(log) : n <= log[m].cutoff /\ e \in log[m].unmerged
        BY <1>1, <3>2
      <3>3. CASE \E m \in stored : n <= m /\ e \in log[m].content
        <4>1. PICK m \in stored : n <= m /\ e \in log[m].content
          BY <3>3
        <4>2. m \in 1..Len(log)
          BY <1>2
        <4>3. CASE m > r.cutoff
          BY <1>1, <4>1, <4>2, <4>3
        <4>4. CASE m <= r.cutoff
          <5>1. e \in r.content \/ e \in r.unmerged
            BY <4>1, <4>2, <4>4 DEF ClaimsInv, RecordsClaim, Covers
          <5>2. n <= r.cutoff /\ n <= new
            BY <1>1, <1>3, <2>3, <4>1, <4>2, <4>4
          <5>3. QED  BY <2>1, <5>1, <5>2
        <4>5. QED  BY <1>3, <4>2, <4>3, <4>4
      <3>4. QED  BY <2>3, <3>1, <3>2, <3>3 DEF ClaimsInv, LossesClaimed
    <2>4. QED  BY <1>1, <2>2, <2>3
  <1>8. QED  BY <1>5, <1>6, <1>7 DEF ClaimsInv

(* An acknowledgement ends a record and, once it is sent, a checkpoint.    *)
LEMMA ClaimsSettle ==
  ASSUME ClaimsInv, SyncTypeInv', UNCHANGED <<log, stored, doc>>,
         NEW c \in Clients, NEW id, Settle(c, id)
  PROVE  ClaimsInv'
PROOF
  <1>1. \A d \in Clients : outbox'[d] \subseteq outbox[d]
    BY DEF ClaimsInv, SyncTypeInv, RecordsTyped, Settle
  <1>2. \A d \in Clients : checkpoint'[d] \in {checkpoint[d], NoCheckpoint}
    BY DEF ClaimsInv, SyncTypeInv, RecordsTyped, Settle
  <1>3. NoCheckpoint.phase # "encoding"
    BY DEF NoCheckpoint
  <1>4. QED  BY <1>1, <1>2, <1>3, ClaimsKept

(* Storing a record, or finding it stored.                                 *)
LEMMA ClaimsDelivery ==
  ASSUME ClaimsInv, NEW c \in Clients, NEW r \in outbox[c], Deliver(c, r)
  PROVE  ClaimsInv'
PROOF
  <1>1. SyncTypeInv'
    BY DeliveryTyped DEF ClaimsInv
  <1>2. CASE Persist(c, r) \/ CommitManifest(c, r)
    BY <1>1, <1>2, ClaimsInsert DEF Persist, CommitManifest, clientVars
  <1>3. CASE AlreadyPresent(c, r)
    BY <1>1, <1>3, ClaimsSettle DEF AlreadyPresent, serverVars
  <1>4. QED  BY <1>2, <1>3 DEF Deliver

(* The hub's steps end records; what it sends claims nothing.              *)
LEMMA ClaimsHub ==
  ASSUME ClaimsInv, HubStep  PROVE ClaimsInv'
PROOF
  <1>1. SyncTypeInv'
    BY SyncStepTyped DEF ClaimsInv, SyncNext
  <1>2. ASSUME NEW p \in publishing, FinishPublish(p) PROVE ClaimsInv'
    <2>1. p.by \in Clients \union {None}
      BY DEF ClaimsInv, SyncTypeInv, HubTyped
    <2>2. CASE p.by = None
      BY <1>1, <1>2, <2>2, ClaimsKept DEF FinishPublish
    <2>3. CASE p.by # None
      BY <1>1, <1>2, <2>1, <2>3, ClaimsSettle DEF FinishPublish
    <2>4. QED  BY <2>2, <2>3
  <1>3. ASSUME NEW m \in responses, CommitResponse(m) PROVE ClaimsInv'
    <2>1. m.client \in Clients
      BY DEF ClaimsInv, SyncTypeInv, HubTyped
    <2>2. QED  BY <1>1, <1>3, <2>1, ClaimsSettle DEF CommitResponse
  <1>4. ASSUME NEW p \in publishing, FanOut(p) PROVE ClaimsInv'
    BY <1>1, <1>4, ClaimsKept DEF FanOut, clientVars
  <1>5. ASSUME NEW c \in Clients, Subscribe(c) PROVE ClaimsInv'
    BY <1>1, <1>5, ClaimsKept DEF Subscribe, clientVars
  <1>6. QED  BY <1>2, <1>3, <1>4, <1>5 DEF HubStep

(* A client's document only grows.                                         *)
LEMMA ClaimsReceived ==
  ASSUME ClaimsInv, NEW c \in Clients, ReceiveStep(c) \/ Retry(c) \/ Resubscribe(c) \/ Connect(c)
  PROVE  ClaimsInv'
PROOF
  <1>1. SyncTypeInv'
    BY SyncStepTyped DEF ClaimsInv, SyncNext
  <1>2. CASE Apply(c)
    <2>1. PICK n \in DOMAIN log : doc' = [doc EXCEPT ![c] = @ \union log[n].content]
      BY <1>2 DEF Apply
    <2>2. \A d \in Clients : doc[d] \subseteq doc'[d]
      BY <2>1 DEF ClaimsInv, SyncTypeInv, DocumentsTyped
    <2>3. QED  BY <1>1, <1>2, <2>2, ClaimsKept DEF Apply, serverVars
  <1>3. CASE ~Apply(c)
    <2>1. UNCHANGED <<log, stored, doc, outbox, checkpoint>>
      BY <1>3 DEF ReceiveStep, Receive, Fail, FinishSync, Retry, Resubscribe, Connect,
                  serverVars, clientVars
    <2>2. QED  BY <1>1, <2>1, ClaimsKept
  <1>4. QED  BY <1>2, <1>3

(* A lost connection marks its records as composed before.                 *)
LEMMA ClaimsDisconnected ==
  ASSUME ClaimsInv, NEW c \in Clients, Disconnect(c)  PROVE ClaimsInv'
PROOF
  <1>1. SyncTypeInv'
    BY SyncStepTyped DEF ClaimsInv, SyncNext
  <1>2. /\ outbox' = [outbox EXCEPT ![c] = {[r EXCEPT !.relayed = TRUE] : r \in @}]
        /\ checkpoint' = [checkpoint EXCEPT ![c].phase =
             IF @ = "sent" /\ checkpoint[c].id \notin LargeIds THEN "orphaned" ELSE @]
        /\ UNCHANGED <<log, stored, doc>>
    BY DEF Disconnect
  <1>3. /\ outbox \in [Clients -> SUBSET Records]
        /\ checkpoint \in [Clients -> [phase : {"none", "encoding", "sent", "orphaned"},
                                       id : Checkpoints \union {None},
                                       cutoff : Sequences0, unmerged : SUBSET Edits]]
    BY DEF ClaimsInv, SyncTypeInv, RecordsTyped
  <1>4. ASSUME NEW d \in Clients, NEW r \in outbox'[d]
        PROVE  \E q \in outbox[d] :
                 r.content = q.content /\ r.unmerged = q.unmerged /\ r.cutoff = q.cutoff
    <2>1. CASE d # c
      BY <1>2, <1>3, <1>4, <2>1
    <2>2. CASE d = c
      <3>1. PICK q \in outbox[c] : r = [q EXCEPT !.relayed = TRUE]
        BY <1>2, <1>3, <1>4, <2>2
      <3>2. q \in Records
        BY <1>3
      <3>3. QED  BY <2>2, <3>1, <3>2 DEF Records
    <2>3. QED  BY <2>1, <2>2
  <1>5. ASSUME NEW d \in Clients, checkpoint'[d].phase = "encoding"
        PROVE  checkpoint'[d] = checkpoint[d]
    BY <1>2, <1>3, <1>5
  <1>6. QED  BY <1>1, <1>2, <1>4, <1>5, ClaimsKept

(* For any number of clients, edits, uploads, checkpoints, publications at *)
(* a time, page sizes, lost connections, failures and reopened sections,   *)
(* with decryption as slow as it may be: the server loses an accepted edit *)
(* only to a checkpoint whose author counted its row as observed when it   *)
(* had not merged it.                                                      *)
THEOREM LostToUnmerged == SyncSpec => []OnlyUnmergedLost
PROOF
  <1>1. SyncInit => ClaimsInv
    BY ClaimsInit
  <1>2. ClaimsInv /\ [SyncNext]_syncVars => ClaimsInv'
    <2> SUFFICES ASSUME ClaimsInv, [SyncNext]_syncVars PROVE ClaimsInv'
      OBVIOUS
    <2>1. CASE SyncNext
      BY <2>1, ClaimsHub, ClaimsComposing, ClaimsDelivery, ClaimsReceived, ClaimsDisconnected
         DEF SyncNext
    <2>2. CASE UNCHANGED syncVars
      <3>1. SyncTypeInv'
        BY <2>2, SyncStutterTyped DEF ClaimsInv
      <3>2. QED
        BY <2>2, <3>1, ClaimsKept DEF syncVars, serverVars, clientVars
    <2>3. QED  BY <2>1, <2>2
  <1>3. ClaimsInv => OnlyUnmergedLost
    <2> SUFFICES ASSUME ClaimsInv PROVE OnlyUnmergedLost
      OBVIOUS
    <2>1. DOMAIN log = 1..Len(log)
      BY DEF ClaimsInv, SyncTypeInv, LogTyped
    <2>2. QED  BY <2>1 DEF ClaimsInv, LossesClaimed, OnlyUnmergedLost, ContentOf
  <1>4. QED
    BY <1>1, <1>2, <1>3, PTL DEF SyncSpec

=============================================================================
