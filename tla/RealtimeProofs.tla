--------------------------- MODULE RealtimeProofs ---------------------------
(***************************************************************************)
(* Proofs, for every value of the constants, about what the realtime       *)
(* server keeps and sends: the history of a section, the log of note       *)
(* events with its replay, the lists of who views a note.                  *)
(*                                                                         *)
(* SectionHistory: the inductive invariant IInv, the properties that       *)
(* follow from it, and that the history implements DurableSection.         *)
(*                                                                         *)
(* EventReplay: EventsInv, by which pruning never takes the event of a     *)
(* note's last change from a member who has not acknowledged it.  Of what  *)
(* is pruned every member had acknowledged the event, and an event just    *)
(* recorded is the last of its note.                                       *)
(*                                                                         *)
(* NotePresence: nobody is sent a list of viewers composed after his       *)
(* access had ended.  A list is sent by lookups that follow it, and nobody *)
(* who has lost the access gets it back: whoever a lookup finds among the  *)
(* sharers was one of them when the list was composed.                     *)
(***************************************************************************)
EXTENDS SectionHistory, EventReplay, NotePresence, WellFoundedInduction,
        FiniteSetTheorems, TLAPS

-----------------------------------------------------------------------------
(* SectionHistory *)

(* The initial state satisfies the inductive invariant: nothing is stored  *)
(* and nobody reads.                                                       *)
LEMMA InitInvariant == Init => IInv
  <1> SUFFICES ASSUME Init PROVE IInv
    OBVIOUS
  <1> USE DEF Init
  <1>1. TypeOK
    BY OwnerAssumption, BoundsAssumption
       DEF TypeOK, Roles, Epochs, Headers, Rows, Start
  <1>2. SequencesUnique /\ RowsAccepted /\ AcceptedRetained /\ EpochsInOrder
    BY DEF SequencesUnique, RowsAccepted, AcceptedRetained, EpochsInOrder
  <1>3. NothingFromTheFuture /\ ReaderMissesNothing /\ ReadersKnowStored
    BY DEF NothingFromTheFuture, ReaderMissesNothing, ReadersKnowStored, Start
  <1>4. CheckpointsCover
    BY DEF CheckpointsCover
  <1> QED
    BY <1>1, <1>2, <1>3, <1>4 DEF IInv

(* Storing a row (postgresHistory persist, postgresManifestRepository      *)
(* commit) preserves the invariant: what compaction deletes is in the      *)
(* checkpoint that deletes it, and the new row is the last of the section. *)
LEMMA AppendInvariant ==
  ASSUME IInv,
         NEW id \in UpdateIds,
         header[id] # None,
         MayWrite(header[id]),
         header[id].cutoff <= section.currentSequence,
         InsertRow(id, header[id]),
         manifests' \subseteq UpdateIds,
         UNCHANGED <<noteVars, header, reader>>
  PROVE  IInv'
  <1> DEFINE h   == header[id]
             row == [updateId |-> id, sequence |-> section.currentSequence + 1,
                     epoch |-> h.epoch, content |-> h.content]
  <1> USE DEF noteVars
  <1>1. /\ h \in Headers
        /\ section.currentSequence \in 0..MaxSequence
        /\ MaxSequence \in Nat
    BY BoundsAssumption DEF IInv, TypeOK
  <1>2. /\ section.currentSequence < MaxSequence
        /\ rows' = (rows \ Compacted(h)) \union {row}
        /\ accepted' = accepted \union {row}
        /\ section' = [section EXCEPT !.currentSequence = @ + 1]
    BY DEF InsertRow
  <1>3. section'.currentSequence = section.currentSequence + 1
    BY <1>2 DEF IInv, TypeOK
  <1>4. row \in Rows
    BY <1>1, <1>2 DEF Rows, Headers
  <1>5. /\ \A a \in accepted : a \in Rows /\ a.sequence <= section.currentSequence
        /\ rows \subseteq accepted
    BY DEF IInv, TypeOK, SequencesUnique, RowsAccepted
  <1>6. \A a \in accepted : a.sequence \in Nat /\ a.epoch \in Nat
    BY <1>1, <1>5, BoundsAssumption DEF Rows, Epochs
  <1>7. row.sequence = section.currentSequence + 1 /\ row.epoch = note.keyEpoch
        /\ row.content = h.content
    BY DEF MayWrite
  <1>8. TypeOK'
    <2>1. section' \in [currentSequence : 0..MaxSequence, isDeleted : BOOLEAN]
      BY <1>1, <1>2 DEF IInv, TypeOK
    <2>2. rows' \subseteq Rows /\ accepted' \subseteq Rows
      BY <1>2, <1>4 DEF IInv, TypeOK
    <2> QED
      BY <2>1, <2>2 DEF IInv, TypeOK
  <1>9. SequencesUnique'
    <2>1. \A a \in accepted' : a.sequence <= section'.currentSequence
      BY <1>1, <1>2, <1>3, <1>5, <1>6, <1>7
    <2>2. \A a, b \in accepted : a.sequence = b.sequence => a = b
      BY DEF IInv, SequencesUnique
    <2>3. \A a \in accepted : a.sequence # row.sequence
      BY <1>1, <1>5, <1>6, <1>7
    <2> QED
      BY <1>2, <2>1, <2>2, <2>3 DEF SequencesUnique
  <1>10. RowsAccepted'
    BY <1>2, <1>5 DEF RowsAccepted
  <1>11. NothingFromTheFuture'
    <2>1. \A a \in accepted' : a.epoch <= note.keyEpoch
      BY <1>1, <1>2, <1>7 DEF IInv, TypeOK, NothingFromTheFuture, Epochs
    <2>2. \A c \in Readers : reader[c].after <= section'.currentSequence
      BY <1>1, <1>3 DEF IInv, TypeOK, NothingFromTheFuture
    <2> QED
      BY <2>1, <2>2 DEF NothingFromTheFuture
  <1>12. CheckpointsCover'
    <2> SUFFICES ASSUME NEW i \in UpdateIds, header[i] # None
                 PROVE  /\ header[i].cutoff <= section'.currentSequence
                        /\ \A a \in accepted' :
                             a.epoch = header[i].epoch /\ a.sequence <= header[i].cutoff
                               => a.content \subseteq header[i].content
      BY DEF CheckpointsCover, AcceptedThrough
    <2>1. header[i] \in Headers /\ header[i].cutoff \in Nat
          /\ header[i].cutoff <= section.currentSequence
      BY <1>1 DEF IInv, TypeOK, CheckpointsCover, Headers
    <2>2. header[i].cutoff <= section'.currentSequence
      BY <1>1, <1>3, <2>1
    <2>3. ~(row.sequence <= header[i].cutoff)
      BY <1>1, <1>7, <2>1
    <2>4. \A a \in accepted :
            a.epoch = header[i].epoch /\ a.sequence <= header[i].cutoff
              => a.content \subseteq header[i].content
      BY DEF IInv, CheckpointsCover, AcceptedThrough
    <2> QED
      BY <1>2, <2>2, <2>3, <2>4
  <1>13. \A r \in Compacted(h) : r.epoch = row.epoch /\ r.content \subseteq row.content
    BY <1>5, <1>7 DEF Compacted, IInv, CheckpointsCover, AcceptedThrough
  <1>14. \A r \in rows : \A x \in r.content :
           \E s \in rows' : /\ s.epoch = r.epoch
                            /\ s.sequence >= r.sequence
                            /\ x \in s.content
    <2> SUFFICES ASSUME NEW r \in rows, NEW x \in r.content
                 PROVE  \E s \in rows' : /\ s.epoch = r.epoch
                                         /\ s.sequence >= r.sequence
                                         /\ x \in s.content
      OBVIOUS
    <2>1. CASE r \in Compacted(h)
      <3>1. row \in rows' /\ row.epoch = r.epoch /\ x \in row.content
        BY <1>2, <1>13, <2>1
      <3>2. row.sequence >= r.sequence
        BY <1>1, <1>5, <1>6, <1>7
      <3> QED
        BY <3>1, <3>2
    <2>2. CASE r \notin Compacted(h)
      BY <1>2, <1>5, <1>6, <2>2
    <2> QED
      BY <2>1, <2>2
  <1>15. AcceptedRetained'
    <2> SUFFICES ASSUME NEW a \in accepted', NEW x \in a.content
                 PROVE  \E s \in rows' : /\ s.epoch = a.epoch
                                         /\ s.sequence >= a.sequence
                                         /\ x \in s.content
      BY DEF AcceptedRetained, ContentOf
    <2>1. CASE a = row
      BY <1>1, <1>2, <1>7, <2>1
    <2>2. CASE a \in accepted
      <3>1. PICK r \in rows : r.epoch = a.epoch /\ r.sequence >= a.sequence /\ x \in r.content
        BY <2>2 DEF IInv, AcceptedRetained, ContentOf
      <3>2. PICK s \in rows' : s.epoch = r.epoch /\ s.sequence >= r.sequence /\ x \in s.content
        BY <1>14, <3>1
      <3>3. r.sequence \in Nat /\ a.sequence \in Nat /\ s.sequence \in Nat
        BY <1>1, <1>2, <1>5, <1>6, <1>7, <2>2
      <3> QED
        BY <3>1, <3>2, <3>3
    <2> QED
      BY <1>2, <2>1, <2>2
  <1>16. ReaderMissesNothing'
    <2> SUFFICES ASSUME NEW c \in Readers, NEW a \in accepted',
                        a.epoch = reader[c].epoch, NEW x \in a.content,
                        x \notin reader[c].got
                 PROVE  \E s \in rows' : /\ s.epoch = reader[c].epoch
                                         /\ s.sequence > reader[c].after
                                         /\ x \in s.content
      BY DEF ReaderMissesNothing, ContentOf, Visible
    <2>1. reader[c].after \in Nat /\ reader[c].after <= section.currentSequence
      BY DEF IInv, TypeOK, NothingFromTheFuture
    <2>2. CASE a = row
      BY <1>1, <1>2, <1>7, <2>1, <2>2
    <2>3. CASE a \in accepted
      <3>1. PICK r \in rows : /\ r.epoch = reader[c].epoch
                              /\ r.sequence > reader[c].after
                              /\ x \in r.content
        BY <2>3 DEF IInv, ReaderMissesNothing, ContentOf, Visible
      <3>2. PICK s \in rows' : s.epoch = r.epoch /\ s.sequence >= r.sequence /\ x \in s.content
        BY <1>14, <3>1
      <3>3. r.sequence \in Nat /\ s.sequence \in Nat
        BY <1>1, <1>2, <1>5, <1>6, <1>7
      <3> QED
        BY <2>1, <3>1, <3>2, <3>3
    <2> QED
      BY <1>2, <2>2, <2>3
  <1>17. ReadersKnowStored'
    <2> SUFFICES ASSUME NEW c \in Readers, NEW x \in reader[c].got
                 PROVE  \E s \in rows' : s.epoch = reader[c].epoch /\ x \in s.content
      BY DEF ReadersKnowStored, ContentOf
    <2>1. PICK r \in rows : r.epoch = reader[c].epoch /\ x \in r.content
      BY DEF IInv, ReadersKnowStored, ContentOf
    <2> QED
      BY <1>14, <2>1
  <1>18. EpochsInOrder'
    <2>1. \A a \in accepted : a.epoch <= row.epoch /\ a.sequence < row.sequence
      BY <1>1, <1>5, <1>6, <1>7 DEF IInv, NothingFromTheFuture
    <2>2. row.epoch \in Nat /\ row.sequence \in Nat
      BY <1>1, <1>7 DEF Headers, Epochs
    <2>3. \A a, b \in accepted : a.epoch < b.epoch => a.sequence < b.sequence
      BY DEF IInv, EpochsInOrder
    <2> QED
      BY <1>2, <1>6, <2>1, <2>2, <2>3 DEF EpochsInOrder
  <1> QED
    BY <1>8, <1>9, <1>10, <1>11, <1>12, <1>15, <1>16, <1>17, <1>18 DEF IInv

(* Composing a request preserves the invariant when it covers what its     *)
(* cutoff names: an update names nothing, a checkpoint carries it all.     *)
LEMMA ComposeInvariant ==
  ASSUME IInv,
         NEW id \in UpdateIds,
         NEW h \in Headers,
         h.cutoff <= section.currentSequence,
         \A a \in AcceptedThrough(h.epoch, h.cutoff) : a.content \subseteq h.content,
         Compose(id, h)
  PROVE  IInv'
  <1>1. /\ header' = [header EXCEPT ![id] = h]
        /\ UNCHANGED <<access, note, section, rows, manifests, accepted, reader>>
    BY DEF Compose, noteVars, logVars
  <1>2. TypeOK'
    BY <1>1 DEF IInv, TypeOK
  <1>3. CheckpointsCover'
    BY <1>1 DEF IInv, TypeOK, CheckpointsCover, AcceptedThrough
  <1>4. /\ SequencesUnique' /\ RowsAccepted' /\ NothingFromTheFuture'
        /\ AcceptedRetained' /\ EpochsInOrder'
    BY <1>1 DEF IInv, SequencesUnique, RowsAccepted, NothingFromTheFuture,
                AcceptedRetained, EpochsInOrder, ContentOf
  <1>5. ReaderMissesNothing' /\ ReadersKnowStored'
    BY <1>1 DEF IInv, ReaderMissesNothing, ReadersKnowStored, ContentOf, Visible
  <1> QED
    BY <1>2, <1>3, <1>4, <1>5 DEF IInv

(* A page moves a reader past exactly the rows it was given.               *)
LEMMA ReadPageInvariant ==
  ASSUME IInv, NEW c \in Readers, ReadPage(c)
  PROVE  IInv'
  <1> USE DEF noteVars, logVars
  <1>1. PICK last \in Visible(reader[c].epoch, reader[c].after) :
          LET visible == Visible(reader[c].epoch, reader[c].after)
              page == {r \in visible : r.sequence <= last.sequence}
              got == reader[c].got \union ContentOf(page)
          IN  reader' = [reader EXCEPT ![c] =
                [epoch |-> reader[c].epoch, after |-> last.sequence, got |-> got,
                 known |-> IF page # visible THEN reader[c].known ELSE got]]
    BY DEF ReadPage, Turned
  <1> DEFINE visible == Visible(reader[c].epoch, reader[c].after)
             page    == {r \in visible : r.sequence <= last.sequence}
             got     == reader[c].got \union ContentOf(page)
  <1>2. /\ UNCHANGED <<access, note, section, header, rows, manifests, accepted>>
    BY DEF ReadPage, Turned
  <1>3. /\ last \in rows /\ last \in Rows
        /\ last.sequence <= section.currentSequence
        /\ last.sequence \in 0..MaxSequence
    BY BoundsAssumption
       DEF Visible, IInv, TypeOK, RowsAccepted, SequencesUnique, Rows
  <1>4. /\ reader'[c].epoch = reader[c].epoch
        /\ reader'[c].after = last.sequence
        /\ reader'[c].got = got
        /\ \A d \in Readers \ {c} : reader'[d] = reader[d]
    BY <1>1 DEF IInv, TypeOK
  <1>5. \A x : x \in got <=>
                 x \in reader[c].got \/ \E r \in page : x \in r.content
    BY DEF ContentOf
  <1>6. TypeOK'
    <2>1. \A r \in page : r.content \subseteq UpdateIds
      BY DEF Visible, IInv, TypeOK, Rows
    <2>2. got \subseteq UpdateIds
      BY <1>5, <2>1 DEF IInv, TypeOK
    <2>3. reader' \in [Readers -> [epoch : 0..MaxEpoch, after : 0..MaxSequence,
                                   got : SUBSET UpdateIds, known : SUBSET UpdateIds]]
      <3>1. PICK known \in SUBSET UpdateIds :
              reader' = [reader EXCEPT ![c] =
                [epoch |-> reader[c].epoch, after |-> last.sequence,
                 got |-> got, known |-> known]]
        BY <1>1, <2>2 DEF IInv, TypeOK
      <3> HIDE DEF got
      <3> QED
        BY <1>3, <2>2, <3>1 DEF IInv, TypeOK
    <2> QED
      BY <1>2, <2>3 DEF IInv, TypeOK
  <1>7. NothingFromTheFuture'
    BY <1>2, <1>3, <1>4 DEF IInv, NothingFromTheFuture
  <1>8. ReaderMissesNothing'
    <2> SUFFICES ASSUME NEW d \in Readers, NEW a \in accepted,
                        a.epoch = reader'[d].epoch, NEW x \in a.content,
                        x \notin reader'[d].got
                 PROVE  \E s \in rows : /\ s.epoch = reader'[d].epoch
                                        /\ s.sequence > reader'[d].after
                                        /\ x \in s.content
      BY <1>2 DEF ReaderMissesNothing, ContentOf, Visible
    <2>1. CASE d # c
      BY <1>4, <2>1 DEF IInv, ReaderMissesNothing, ContentOf, Visible
    <2>2. CASE d = c
      <3>1. x \notin reader[c].got /\ \A r \in page : x \notin r.content
        BY <1>4, <1>5, <2>2
      <3>2. PICK s \in visible : x \in s.content
        BY <1>4, <2>2, <3>1 DEF IInv, ReaderMissesNothing, ContentOf
      <3>3. ~(s.sequence <= last.sequence)
        BY <3>1, <3>2
      <3>4. s \in rows /\ s.epoch = reader[c].epoch /\ s.sequence \in Nat
        BY <3>2, BoundsAssumption DEF Visible, IInv, TypeOK, Rows
      <3> QED
        BY <1>3, <1>4, <2>2, <3>2, <3>3, <3>4
    <2> QED
      BY <2>1, <2>2
  <1>9. ReadersKnowStored'
    <2> SUFFICES ASSUME NEW d \in Readers, NEW x \in reader'[d].got
                 PROVE  \E s \in rows : s.epoch = reader'[d].epoch /\ x \in s.content
      BY <1>2 DEF ReadersKnowStored, ContentOf
    <2>1. CASE d # c
      BY <1>4, <2>1 DEF IInv, ReadersKnowStored, ContentOf
    <2>2. CASE d = c
      BY <1>4, <1>5, <2>2 DEF IInv, ReadersKnowStored, ContentOf, Visible
    <2> QED
      BY <2>1, <2>2
  <1>10. /\ SequencesUnique' /\ RowsAccepted' /\ CheckpointsCover'
         /\ AcceptedRetained' /\ EpochsInOrder'
    BY <1>2 DEF IInv, SequencesUnique, RowsAccepted, CheckpointsCover,
                AcceptedThrough, AcceptedRetained, EpochsInOrder, ContentOf
  <1> QED
    BY <1>6, <1>7, <1>8, <1>9, <1>10 DEF IInv

(* A change of access, epoch or deletion leaves the log and the outboxes   *)
(* alone; the epoch never goes back.                                       *)
LEMMA FencingInvariant ==
  ASSUME IInv,
         access' \in [Users -> Roles],
         note' \in [keyEpoch : Epochs, isDeleted : BOOLEAN],
         note.keyEpoch <= note'.keyEpoch,
         section' \in [currentSequence : 0..MaxSequence, isDeleted : BOOLEAN],
         section'.currentSequence = section.currentSequence,
         UNCHANGED <<header, rows, manifests, accepted, reader>>
  PROVE  IInv'
  <1>1. TypeOK'
    BY DEF IInv, TypeOK
  <1>2. NothingFromTheFuture'
    <2>1. \A a \in accepted : a.epoch \in Nat /\ a.epoch <= note.keyEpoch
      BY BoundsAssumption DEF IInv, TypeOK, Rows, Epochs, NothingFromTheFuture
    <2>2. note.keyEpoch \in Nat /\ note'.keyEpoch \in Nat
      BY BoundsAssumption DEF IInv, TypeOK, Epochs
    <2> QED
      BY <2>1, <2>2 DEF IInv, NothingFromTheFuture
  <1>3. /\ SequencesUnique' /\ RowsAccepted' /\ CheckpointsCover'
        /\ AcceptedRetained' /\ EpochsInOrder'
    BY DEF IInv, SequencesUnique, RowsAccepted, CheckpointsCover,
           AcceptedThrough, AcceptedRetained, EpochsInOrder, ContentOf
  <1>4. ReaderMissesNothing' /\ ReadersKnowStored'
    BY DEF IInv, ReaderMissesNothing, ReadersKnowStored, ContentOf, Visible
  <1> QED
    BY <1>1, <1>2, <1>3, <1>4 DEF IInv

(* Opening a reader forgets what it had and starts before the first row.   *)
LEMMA OpenReaderInvariant ==
  ASSUME IInv, NEW c \in Readers, OpenReader(c)
  PROVE  IInv'
  <1> USE DEF noteVars, logVars
  <1>1. /\ UNCHANGED <<access, note, section, header, rows, manifests, accepted>>
        /\ reader' = [reader EXCEPT ![c] = Start(note.keyEpoch)]
    BY DEF OpenReader
  <1> DEFINE fresh == [epoch |-> note.keyEpoch, after |-> 0, got |-> {}, known |-> {}]
  <1>2. reader' = [reader EXCEPT ![c] = fresh]
    BY <1>1 DEF Start
  <1>3. reader'[c] = fresh /\ \A d \in Readers \ {c} : reader'[d] = reader[d]
    BY <1>2 DEF IInv, TypeOK
  <1>4. TypeOK'
    <2>1. fresh \in [epoch : 0..MaxEpoch, after : 0..MaxSequence,
                    got : SUBSET UpdateIds, known : SUBSET UpdateIds]
      BY BoundsAssumption DEF IInv, TypeOK, Epochs
    <2> HIDE DEF fresh
    <2> QED
      BY <1>1, <1>2, <2>1 DEF IInv, TypeOK
  <1>5. NothingFromTheFuture'
    BY <1>1, <1>3 DEF IInv, TypeOK, NothingFromTheFuture
  <1>6. ReaderMissesNothing'
    <2> SUFFICES ASSUME NEW d \in Readers, NEW a \in accepted,
                        a.epoch = reader'[d].epoch, NEW x \in a.content
                 PROVE  \/ x \in reader'[d].got
                        \/ \E s \in rows : /\ s.epoch = reader'[d].epoch
                                           /\ s.sequence > reader'[d].after
                                           /\ x \in s.content
      BY <1>1 DEF ReaderMissesNothing, ContentOf, Visible
    <2>1. CASE d # c
      BY <1>3, <2>1 DEF IInv, ReaderMissesNothing, ContentOf, Visible
    <2>2. CASE d = c
      <3>1. PICK s \in rows : s.epoch = a.epoch /\ x \in s.content
        BY DEF IInv, AcceptedRetained, ContentOf
      <3>2. s.sequence \in 1..MaxSequence
        BY DEF IInv, TypeOK, Rows
      <3> QED
        BY <1>3, <2>2, <3>1, <3>2, BoundsAssumption
    <2> QED
      BY <2>1, <2>2
  <1>7. ReadersKnowStored'
    BY <1>1, <1>3 DEF IInv, ReadersKnowStored, ContentOf
  <1>8. /\ SequencesUnique' /\ RowsAccepted' /\ CheckpointsCover'
        /\ AcceptedRetained' /\ EpochsInOrder'
    BY <1>1 DEF IInv, SequencesUnique, RowsAccepted, CheckpointsCover,
                AcceptedThrough, AcceptedRetained, EpochsInOrder, ContentOf
  <1> QED
    BY <1>4, <1>5, <1>6, <1>7, <1>8 DEF IInv

(* Every step of the history preserves the invariant, one case per action. *)
LEMMA NextInvariant == IInv /\ [Next]_vars => IInv'
  <1> SUFFICES ASSUME IInv, [Next]_vars PROVE IInv'
    OBVIOUS
  <1>1. ASSUME NEW id \in UpdateIds, NEW user \in Users, NEW epoch \in Epochs,
               ComposeUpdate(id, user, epoch)
        PROVE  IInv'
    <2> DEFINE h == [user |-> user, epoch |-> epoch, cutoff |-> 0, content |-> {id}]
    <2>1. h \in Headers /\ Compose(id, h)
      BY <1>1, BoundsAssumption DEF ComposeUpdate, Headers
    <2>2. h.cutoff <= section.currentSequence
      BY BoundsAssumption DEF IInv, TypeOK
    <2>3. AcceptedThrough(h.epoch, h.cutoff) = {}
      BY BoundsAssumption DEF AcceptedThrough, IInv, TypeOK, Rows
    <2> HIDE DEF h
    <2> QED
      BY <2>1, <2>2, <2>3, ComposeInvariant
  <1>2. ASSUME NEW id \in UpdateIds, NEW user \in Users, NEW epoch \in Epochs,
               NEW cutoff \in 0..MaxSequence, ComposeCheckpoint(id, user, epoch, cutoff)
        PROVE  IInv'
    <2> DEFINE h == [user |-> user, epoch |-> epoch, cutoff |-> cutoff,
                     content |-> ContentOf(AcceptedThrough(epoch, cutoff))]
    <2>1. ContentOf(AcceptedThrough(epoch, cutoff)) \subseteq UpdateIds
      BY DEF ContentOf, AcceptedThrough, IInv, TypeOK, Rows
    <2>2. h \in Headers /\ Compose(id, h) /\ h.cutoff <= section.currentSequence
      BY <1>2, <2>1 DEF ComposeCheckpoint, Headers
    <2>3. \A a \in AcceptedThrough(h.epoch, h.cutoff) : a.content \subseteq h.content
      BY DEF ContentOf
    <2> HIDE DEF h
    <2> QED
      BY <2>2, <2>3, ComposeInvariant
  <1>3. ASSUME NEW id \in UpdateIds, Persist(id)
        PROVE  IInv'
    <2>1. /\ header[id] # None /\ MayWrite(header[id])
          /\ header[id].cutoff <= section.currentSequence
          /\ InsertRow(id, header[id])
          /\ UNCHANGED <<noteVars, header, reader>> /\ UNCHANGED manifests
      BY <1>3 DEF Persist
    <2> QED
      BY <2>1, AppendInvariant DEF IInv, TypeOK
  <1>4. ASSUME NEW id \in UpdateIds, CommitManifest(id)
        PROVE  IInv'
    <2>1. /\ header[id] # None /\ MayWrite(header[id])
          /\ header[id].cutoff <= section.currentSequence
          /\ InsertRow(id, header[id])
          /\ manifests' = manifests \union {id}
          /\ UNCHANGED <<noteVars, header, reader>>
      BY <1>4 DEF CommitManifest
    <2>2. manifests' \subseteq UpdateIds
      BY <2>1 DEF IInv, TypeOK
    <2> QED
      BY <2>1, <2>2, AppendInvariant
  <1>5. ASSUME NEW user \in Users, NEW role \in Roles, ChangeAccess(user, role)
        PROVE  IInv'
    <2>1. /\ access' \in [Users -> Roles]
          /\ UNCHANGED <<note, section, header, rows, manifests, accepted, reader>>
      BY <1>5 DEF ChangeAccess, logVars, IInv, TypeOK
    <2>2. note.keyEpoch \in Nat
      BY BoundsAssumption DEF IInv, TypeOK, Epochs
    <2> QED
      BY <2>1, <2>2, FencingInvariant DEF IInv, TypeOK
  <1>6. ASSUME NEW user \in Users, Rotate(user)
        PROVE  IInv'
    <2>1. /\ access' = [access EXCEPT ![user] = "none"]
          /\ note' = [note EXCEPT !.keyEpoch = note.keyEpoch + 1]
          /\ note.keyEpoch < MaxEpoch
          /\ UNCHANGED <<section, header, rows, manifests, accepted, reader>>
      BY <1>6 DEF Rotate, logVars
    <2>2. note.keyEpoch \in Nat /\ note.keyEpoch + 1 \in Epochs
      BY <2>1, BoundsAssumption DEF IInv, TypeOK, Epochs
    <2>3. /\ note' \in [keyEpoch : Epochs, isDeleted : BOOLEAN]
          /\ note.keyEpoch <= note'.keyEpoch
      BY <2>1, <2>2 DEF IInv, TypeOK
    <2>4. access' \in [Users -> Roles]
      BY <2>1 DEF IInv, TypeOK, Roles
    <2> QED
      BY <2>1, <2>3, <2>4, FencingInvariant DEF IInv, TypeOK
  <1>7. ASSUME NEW deleted \in BOOLEAN, SetDeleted(deleted)
        PROVE  IInv'
    <2>1. /\ note' = [note EXCEPT !.isDeleted = deleted]
          /\ UNCHANGED <<access, section, header, rows, manifests, accepted, reader>>
      BY <1>7 DEF SetDeleted, logVars
    <2>2. /\ note' \in [keyEpoch : Epochs, isDeleted : BOOLEAN]
          /\ note.keyEpoch <= note'.keyEpoch
      BY <2>1, BoundsAssumption DEF IInv, TypeOK, Epochs
    <2> QED
      BY <2>1, <2>2, FencingInvariant DEF IInv, TypeOK
  <1>8. ASSUME Tombstone
        PROVE  IInv'
    <2>1. /\ section' = [section EXCEPT !.isDeleted = TRUE]
          /\ UNCHANGED <<access, note, header, rows, manifests, accepted, reader>>
      BY <1>8 DEF Tombstone, noteVars
    <2>2. /\ section' \in [currentSequence : 0..MaxSequence, isDeleted : BOOLEAN]
          /\ section'.currentSequence = section.currentSequence
      BY <2>1 DEF IInv, TypeOK
    <2>3. note.keyEpoch <= note'.keyEpoch
      BY <2>1, BoundsAssumption DEF IInv, TypeOK, Epochs
    <2> QED
      BY <2>1, <2>2, <2>3, FencingInvariant DEF IInv, TypeOK
  <1>9. CASE UNCHANGED vars
    BY <1>9 DEF vars, noteVars, logVars, IInv, TypeOK, SequencesUnique,
                RowsAccepted, NothingFromTheFuture, CheckpointsCover,
                AcceptedThrough, AcceptedRetained, ReaderMissesNothing,
                ReadersKnowStored, EpochsInOrder, ContentOf, Visible
  <1> QED
    BY <1>1, <1>2, <1>3, <1>4, <1>5, <1>6, <1>7, <1>8, <1>9,
       OpenReaderInvariant, ReadPageInvariant DEF Next

(* The inductive invariant holds in every reachable state. *)
THEOREM HistoryInvariance == Spec => []IInv
  BY InitInvariant, NextInvariant, PTL DEF Spec

(* Every variable has its type. *)
THEOREM HistoryTyped == Spec => []TypeOK
  <1>1. IInv => TypeOK
    BY DEF IInv
  <1> QED
    BY <1>1, HistoryInvariance, PTL

(* Sequences never run ahead of the counter and never repeat. *)
THEOREM UniqueSequences == Spec => []SequencesUnique
  <1>1. IInv => SequencesUnique
    BY DEF IInv
  <1> QED
    BY <1>1, HistoryInvariance, PTL

(* Compaction never loses an accepted edit, provided every checkpoint in   *)
(* an outbox covers its own cutoff.                                        *)
THEOREM Retention == Spec => []AcceptedRetained
  <1>1. IInv => AcceptedRetained
    BY DEF IInv
  <1> QED
    BY <1>1, HistoryInvariance, PTL

(* Paging through the history while it is written and compacted is         *)
(* complete.                                                               *)
THEOREM PagingComplete == Spec => []ReaderMissesNothing
  <1>1. IInv => ReaderMissesNothing
    BY DEF IInv
  <1> QED
    BY <1>1, HistoryInvariance, PTL

(* The rows of an older epoch all precede those of a newer one. *)
THEOREM EpochFencing == Spec => []EpochsInOrder
  <1>1. IInv => EpochsInOrder
    BY DEF IInv
  <1> QED
    BY <1>1, HistoryInvariance, PTL

(* Storing a row adds its content to its epoch and takes nothing away:     *)
(* seen from outside, compaction does not happen.                          *)
LEMMA AppendAccepts ==
  ASSUME IInv,
         NEW id \in UpdateIds,
         header[id] # None,
         MayWrite(header[id]),
         InsertRow(id, header[id]),
         UNCHANGED <<note, reader>>
  PROVE  Durable!Accept
  <1> DEFINE h   == header[id]
             row == [updateId |-> id, sequence |-> section.currentSequence + 1,
                     epoch |-> h.epoch, content |-> h.content]
  <1>1. /\ rows' = (rows \ Compacted(h)) \union {row}
        /\ row.epoch = note.keyEpoch /\ row.content = h.content
        /\ h.content \subseteq UpdateIds /\ note.keyEpoch \in Epochs
        /\ h.epoch = note.keyEpoch
    BY DEF InsertRow, MayWrite, IInv, TypeOK, Headers
  <1>2. \A r \in Compacted(h) : r.epoch = h.epoch /\ r.content \subseteq h.content
    BY DEF Compacted, IInv, RowsAccepted, CheckpointsCover, AcceptedThrough
  <1>3. \A e \in Epochs : \A x : x \in StoredContent[e] <=>
                              \E r \in rows : r.epoch = e /\ x \in r.content
    BY DEF StoredContent, ContentOf
  <1>4. \A e \in Epochs : \A x : x \in StoredContent'[e] <=>
                              \E r \in rows' : r.epoch = e /\ x \in r.content
    BY DEF StoredContent, ContentOf
  <1>5. \A e \in Epochs : StoredContent'[e] =
          IF e = note.keyEpoch THEN StoredContent[e] \union h.content
                               ELSE StoredContent[e]
    <2> SUFFICES ASSUME NEW e \in Epochs, NEW x
                 PROVE  x \in StoredContent'[e] <=>
                          \/ x \in StoredContent[e]
                          \/ e = note.keyEpoch /\ x \in h.content
      <3> HIDE DEF h, row
      <3> QED OBVIOUS
    <2> HIDE DEF row, h
    <2> QED
      BY <1>1, <1>2, <1>3, <1>4
  <1>6. StoredContent' = [StoredContent EXCEPT ![note.keyEpoch] = @ \union h.content]
    <2>1. StoredContent = [e \in Epochs |-> StoredContent[e]]
          /\ StoredContent' = [e \in Epochs |-> StoredContent'[e]]
      BY DEF StoredContent
    <2> HIDE DEF h, row, StoredContent
    <2> QED
      BY <1>1, <1>5, <2>1
  <1>7. CaughtUp' = CaughtUp /\ note'.keyEpoch = note.keyEpoch
    BY DEF CaughtUp
  <1> QED
    BY <1>1, <1>6, <1>7 DEF Durable!Accept

(* A page either leaves the reader where it was, as an observer of the     *)
(* abstract section sees it, or catches it up with all there is.           *)
LEMMA ReadPageReads ==
  ASSUME IInv, NEW c \in Readers, ReadPage(c)
  PROVE  Durable!Read(c) \/ UNCHANGED Durable!vars
  <1> USE DEF noteVars, logVars
  <1>1. PICK last \in Visible(reader[c].epoch, reader[c].after) :
          LET visible == Visible(reader[c].epoch, reader[c].after)
              page == {r \in visible : r.sequence <= last.sequence}
              got == reader[c].got \union ContentOf(page)
          IN  reader' = [reader EXCEPT ![c] =
                [epoch |-> reader[c].epoch, after |-> last.sequence, got |-> got,
                 known |-> IF page # visible THEN reader[c].known ELSE got]]
    BY DEF ReadPage, Turned
  <1> DEFINE visible == Visible(reader[c].epoch, reader[c].after)
             page    == {r \in visible : r.sequence <= last.sequence}
             got     == reader[c].got \union ContentOf(page)
  <1>2. /\ UNCHANGED <<rows, note>> /\ reader[c].epoch = note.keyEpoch
        /\ note.keyEpoch \in Epochs
    BY DEF ReadPage, Turned, Subscribable, IInv, TypeOK
  <1>3. StoredContent' = StoredContent
    BY <1>2 DEF StoredContent, ContentOf
  <1>4. CASE page # visible
    <2>1. \A d \in Readers : /\ reader'[d].epoch = reader[d].epoch
                             /\ reader'[d].known = reader[d].known
      BY <1>1, <1>4 DEF IInv, TypeOK
    <2>2. CaughtUp' = CaughtUp
      BY <2>1 DEF CaughtUp
    <2> QED
      BY <1>2, <1>3, <2>2 DEF Durable!vars
  <1>5. CASE page = visible
    <2>1. /\ reader'[c].epoch = reader[c].epoch /\ reader'[c].known = got
          /\ \A d \in Readers \ {c} : reader'[d] = reader[d]
      BY <1>1, <1>5 DEF IInv, TypeOK
    <2>2. got = StoredContent[note.keyEpoch]
      <3>1. \A x : x \in StoredContent[note.keyEpoch] <=>
                     \E r \in rows : r.epoch = note.keyEpoch /\ x \in r.content
        BY <1>2 DEF StoredContent, ContentOf
      <3>2. \A x : x \in got <=>
                     x \in reader[c].got \/ \E r \in visible : x \in r.content
        BY <1>5 DEF ContentOf
      <3>3. \A x \in got : \E r \in rows : r.epoch = note.keyEpoch /\ x \in r.content
        BY <1>2, <3>2 DEF IInv, ReadersKnowStored, ContentOf, Visible
      <3>4. \A r \in rows : r.epoch = note.keyEpoch =>
              \A x \in r.content : x \in reader[c].got \/
                                   \E s \in visible : x \in s.content
        BY <1>2 DEF IInv, RowsAccepted, ReaderMissesNothing, ContentOf
      <3> HIDE DEF got, page, visible
      <3> QED
        BY <3>1, <3>2, <3>3, <3>4
    <2>3. CaughtUp' = [CaughtUp EXCEPT ![c].ids = StoredContent[note.keyEpoch]]
      <3>1. CaughtUp = [d \in Readers |-> [epoch |-> reader[d].epoch,
                                           ids |-> reader[d].known]]
            /\ CaughtUp' = [d \in Readers |-> [epoch |-> reader'[d].epoch,
                                               ids |-> reader'[d].known]]
        BY DEF CaughtUp
      <3> HIDE DEF got, page, visible
      <3> QED
        BY <2>1, <2>2, <3>1
    <2>4. CaughtUp[c].epoch = note.keyEpoch
      BY <1>2 DEF CaughtUp
    <2> QED
      BY <1>2, <1>3, <2>3, <2>4 DEF Durable!Read
  <1> QED
    BY <1>4, <1>5

(* The history implements DurableSection: content accepted in an epoch     *)
(* only grows, closed epochs are final, and a reader that reached the last *)
(* page knows what an atomic read at that moment would return.             *)
THEOREM Refinement == Spec => ImplementsDurableSection
  <1>1. Init => Durable!Init
    <2> SUFFICES ASSUME Init PROVE Durable!Init
      OBVIOUS
    <2>1. StoredContent = [e \in 1..MaxEpoch |-> {}]
      BY DEF Init, StoredContent, ContentOf, Epochs
    <2>2. CaughtUp = [c \in Readers |-> [epoch |-> 0, ids |-> {}]]
      BY DEF Init, CaughtUp, Start
    <2> QED
      BY <2>1, <2>2 DEF Init, Durable!Init
  <1>2. IInv /\ [Next]_vars => [Durable!Next]_(Durable!vars)
    <2> SUFFICES ASSUME IInv, [Next]_vars PROVE Durable!Next \/ UNCHANGED Durable!vars
      OBVIOUS
    <2>1. (UNCHANGED <<rows, reader>> /\ note'.keyEpoch = note.keyEpoch)
            => UNCHANGED Durable!vars
      BY DEF Durable!vars, StoredContent, CaughtUp, ContentOf
    <2>2. ASSUME NEW id \in UpdateIds, NEW user \in Users, NEW epoch \in Epochs,
                 \/ ComposeUpdate(id, user, epoch)
                 \/ \E cutoff \in 0..MaxSequence :
                      ComposeCheckpoint(id, user, epoch, cutoff)
          PROVE  UNCHANGED Durable!vars
      BY <2>1, <2>2 DEF ComposeUpdate, ComposeCheckpoint, Compose, noteVars, logVars
    <2>3. ASSUME NEW id \in UpdateIds, Persist(id) \/ CommitManifest(id)
          PROVE  Durable!Accept
      BY <2>3, AppendAccepts DEF Persist, CommitManifest, noteVars
    <2>4. ASSUME NEW user \in Users, Rotate(user)
          PROVE  Durable!Rotate
      <3>1. StoredContent' = StoredContent /\ CaughtUp' = CaughtUp
        BY <2>4 DEF Rotate, logVars, StoredContent, CaughtUp, ContentOf
      <3>2. note'.keyEpoch = note.keyEpoch + 1 /\ note.keyEpoch < MaxEpoch
        BY <2>4 DEF Rotate, IInv, TypeOK
      <3> QED
        BY <3>1, <3>2 DEF Durable!Rotate
    <2>5. ASSUME NEW user \in Users, NEW role \in Roles, ChangeAccess(user, role)
          PROVE  UNCHANGED Durable!vars
      BY <2>1, <2>5 DEF ChangeAccess, logVars
    <2>6. ASSUME NEW deleted \in BOOLEAN, SetDeleted(deleted)
          PROVE  UNCHANGED Durable!vars
      BY <2>1, <2>6 DEF SetDeleted, logVars, IInv, TypeOK
    <2>7. ASSUME Tombstone
          PROVE  UNCHANGED Durable!vars
      BY <2>1, <2>7 DEF Tombstone, noteVars
    <2>8. ASSUME NEW c \in Readers, OpenReader(c)
          PROVE  Durable!Open(c)
      <3>1. UNCHANGED <<rows, note>> /\ reader' = [reader EXCEPT ![c] = Start(note.keyEpoch)]
        BY <2>8 DEF OpenReader, noteVars, logVars
      <3>2. StoredContent' = StoredContent
        BY <3>1 DEF StoredContent, ContentOf
      <3>3. /\ reader'[c].epoch = note.keyEpoch /\ reader'[c].known = {}
            /\ \A d \in Readers \ {c} : reader'[d] = reader[d]
        BY <3>1 DEF IInv, TypeOK, Start
      <3>4. CaughtUp' = [CaughtUp EXCEPT ![c] = [epoch |-> note.keyEpoch, ids |-> {}]]
        BY <3>3 DEF CaughtUp
      <3> QED
        BY <3>1, <3>2, <3>4 DEF Durable!Open
    <2>9. CASE UNCHANGED vars
      BY <2>1, <2>9 DEF vars
    <2> QED
      BY <2>2, <2>3, <2>4, <2>5, <2>6, <2>7, <2>8, <2>9, ReadPageReads
         DEF Next, Durable!Next
  <1> QED
    BY <1>1, <1>2, HistoryInvariance, PTL DEF Spec, ImplementsDurableSection, Durable!Spec

-----------------------------------------------------------------------------
(* EventReplay *)

(* What the server keeps of changes, members and acknowledgements.         *)
LogTypes ==
  /\ members \in [Notes -> SUBSET Accounts] /\ former \in [Notes -> SUBSET Accounts]
  /\ \A n \in Notes : members[n] \intersect former[n] = {}
  /\ used \subseteq 1..MaxEvents
  /\ log \subseteq Events /\ CursorsOf(log) \subseteq used
  /\ cursors \in [Accounts -> Cursors]
  /\ told \in [Accounts -> [Notes -> Cursors]]
  /\ changed \in [Notes -> [mine : Cursors, others : Cursors]]
  /\ unpublished \subseteq used

(* Nothing empty is sent.                                                  *)
Batches == (SUBSET Events) \ {{}}

LinkTypes ==
  /\ link \in {"off", "asked", "on", "ending"}
  /\ revokedNote \subseteq Notes /\ (revokedNote # {} <=> link = "ending")
  /\ inbox \in Seq(Batches) /\ (link = "off" => inbox = <<>>)

(* What the client does with its first batch, which has the loads of the   *)
(* list asked for by events.                                               *)
ClientTypes ==
  /\ position \in Cursors
  /\ batches \in Seq(Batches)
  /\ stage \in {"idle", "loading", "failed", "acking"}
  /\ stage = "idle" <=> batches = <<>>
  /\ loads \in [{"events", "other"} -> Loads]
  /\ newest \in {"events", "other"}
  /\ view \in Lists
  /\ loads["events"].state # "none" => stage = "loading"
  /\ faults \in 0..MaxFaults

EventsTypes == LogTypes /\ LinkTypes /\ ClientTypes

(* Every variable has its type, and the log keeps what members lack.       *)
EventsInv == EventsTypes /\ UnacknowledgedKept

-----------------------------------------------------------------------------
LEMMA EventsBounded ==
  MaxEvents \in Nat /\ MaxFaults \in Nat /\ ReplayLimit \in Nat /\ User \in Accounts
  BY EventsBounds, MembersAssumption

LEMMA EventsTypesOK == EventsTypes => EventsTypeOK
  <1>1. \A q \in Seq(Batches) : q \in Seq(SUBSET Events)
    BY DEF Batches
  <1> QED BY <1>1 DEF EventsTypes, LogTypes, LinkTypes, ClientTypes, EventsTypeOK

LEMMA LeastCursor ==
  ASSUME NEW S \in SUBSET Nat, S # {}
  PROVE  MinOf(S) \in S /\ \A m \in S : MinOf(S) <= m
  <1>1. PICK n \in S : \A m \in S : ~ (<<m, n>> \in OpToRel(<, Nat))
    BY NatLessThanWellFounded, WFMin
  <1>2. \A m \in S : ~ (m < n)
    BY <1>1 DEF OpToRel
  <1>3. \A m \in S : n <= m
    BY <1>2
  <1> QED BY <1>3 DEF MinOf

LEMMA LastCursor ==
  ASSUME NEW S \in SUBSET Cursors, S # {}
  PROVE  MaxOf(S) \in S /\ MaxOf(S) \in Cursors /\ \A m \in S : m <= MaxOf(S)
  <1> DEFINE T == {MaxEvents - k : k \in S}
  <1>1. T # {} /\ T \subseteq Nat
    <2>1. ASSUME NEW k \in S PROVE MaxEvents - k \in Nat
      BY EventsBounded DEF Cursors
    <2> QED BY <2>1
  <1>2. MinOf(T) \in T /\ \A m \in T : MinOf(T) <= m
    BY <1>1, LeastCursor
  <1>3. PICK k \in S : MinOf(T) = MaxEvents - k
    BY <1>2
  <1>4. ASSUME NEW m \in S PROVE m <= k
    <2>1. MaxEvents - m \in T
      OBVIOUS
    <2>2. MaxEvents - k <= MaxEvents - m
      BY <1>2, <1>3, <2>1
    <2> QED BY <2>2, EventsBounded DEF Cursors
  <1>5. \E x \in S : \A y \in S : y <= x
    BY <1>3, <1>4
  <1> QED BY <1>5 DEF MaxOf

LEMMA LaterOf ==
  ASSUME NEW a \in Cursors, NEW b \in Cursors
  PROVE  MaxOf({a, b}) \in {a, b} /\ a <= MaxOf({a, b}) /\ b <= MaxOf({a, b})
  <1>1. {a, b} \in SUBSET Cursors /\ {a, b} # {}
    OBVIOUS
  <1> QED BY <1>1, LastCursor

(* The cursors of events are cursors.                                      *)
LEMMA CursorsTyped ==
  ASSUME NEW E \in SUBSET Events
  PROVE  /\ CursorsOf(E) \in SUBSET Cursors
         /\ \A e \in E : e.cursor \in CursorsOf(E) /\ e.cursor \in 1..MaxEvents
         /\ E # {} => CursorsOf(E) # {}
  BY EventsBounded DEF CursorsOf, Events, Cursors

LEMMA LastOf ==
  ASSUME NEW n \in Notes, LogTypes
  PROVE  /\ Last(n) \in Cursors /\ Last(n) \in {changed[n].mine, changed[n].others}
         /\ changed[n].mine <= Last(n) /\ changed[n].others <= Last(n)
  <1>1. changed[n].mine \in Cursors /\ changed[n].others \in Cursors
    BY DEF LogTypes
  <1> QED BY <1>1, LaterOf DEF Last

-----------------------------------------------------------------------------
(* An acknowledgement: what is gone, everyone had.                         *)
LEMMA Acknowledged ==
  ASSUME EventsTypes, NEW u \in Accounts, NEW through \in Cursors,
         RecordAcknowledgement(u, through)
  PROVE  /\ cursors' \in [Accounts -> Cursors]
         /\ cursors'[u] \in {cursors[u], through}
         /\ cursors[u] <= cursors'[u] /\ through <= cursors'[u]
         /\ \A w \in Accounts \ {u} : cursors'[w] = cursors[w]
         /\ log' \subseteq log
         /\ \A e \in log \ log' : Everyone(e, cursors')
         /\ told' \in [Accounts -> [Notes -> Cursors]]
         /\ \A n \in Notes : told'[u][n] <= told[u][n] \/ told'[u][n] <= through
         /\ \A w \in Accounts \ {u}, n \in Notes : told'[w][n] <= told[w][n]
         /\ UNCHANGED <<members, former, used, changed, unpublished>>
  <1> DEFINE acknowledged == [cursors EXCEPT ![u] = MaxOf({@, through})]
             kept == log \ Pruned(through, acknowledged)
             removals(w, n, k) ==
               {e \in log : e.note = n /\ e.cursor <= k /\ Removes(w, e)}
             toldNow == [told EXCEPT ![u] =
               [n \in Notes |->
                  MaxOf({@[n]} \union CursorsOf(removals(u, n, through)))]]
  <1>1. /\ cursors' = acknowledged /\ log' = kept
        /\ told' = [w \in Accounts |-> [n \in Notes |->
             IF removals(w, n, toldNow[w][n]) \intersect kept = {}
             THEN 0 ELSE toldNow[w][n]]]
        /\ UNCHANGED <<members, former, used, changed, unpublished>>
    BY DEF RecordAcknowledgement
  <1>2. /\ cursors \in [Accounts -> Cursors] /\ told \in [Accounts -> [Notes -> Cursors]]
        /\ log \subseteq Events
    BY DEF EventsTypes, LogTypes
  <1>3. MaxOf({cursors[u], through}) \in {cursors[u], through} /\
        cursors[u] <= MaxOf({cursors[u], through}) /\ through <= MaxOf({cursors[u], through})
    BY <1>2, LaterOf
  <1>4. /\ acknowledged \in [Accounts -> Cursors]
        /\ acknowledged[u] = MaxOf({cursors[u], through})
        /\ \A w \in Accounts \ {u} : acknowledged[w] = cursors[w]
    BY <1>2, <1>3
  <1>5. \A e \in log \ kept : Everyone(e, acknowledged)
    BY DEF Pruned
  <1>6. \A n \in Notes :
          LET S == {told[u][n]} \union CursorsOf(removals(u, n, through))
          IN /\ MaxOf(S) \in Cursors
             /\ MaxOf(S) <= told[u][n] \/ MaxOf(S) <= through
    <2> SUFFICES ASSUME NEW n \in Notes
                 PROVE  LET S == {told[u][n]} \union CursorsOf(removals(u, n, through))
                        IN /\ MaxOf(S) \in Cursors
                           /\ MaxOf(S) <= told[u][n] \/ MaxOf(S) <= through
      OBVIOUS
    <2> DEFINE R == removals(u, n, through)
               S == {told[u][n]} \union CursorsOf(R)
    <2>1. R \in SUBSET Events /\ \A e \in R : e.cursor <= through
      BY <1>2
    <2>2. told[u][n] \in Cursors
      BY <1>2
    <2> HIDE DEF R
    <2>3. S \in SUBSET Cursors /\ S # {}
      BY <2>1, <2>2, CursorsTyped
    <2>4. MaxOf(S) \in S /\ MaxOf(S) \in Cursors
      BY <2>3, LastCursor
    <2>5. \A k \in S : k <= told[u][n] \/ k <= through
      BY <2>1, <2>2, EventsBounded DEF CursorsOf, Cursors
    <2> QED BY <2>4, <2>5 DEF R
  <1>7. /\ toldNow \in [Accounts -> [Notes -> Cursors]]
        /\ \A n \in Notes : toldNow[u][n] <= told[u][n] \/ toldNow[u][n] <= through
        /\ \A w \in Accounts \ {u}, n \in Notes : toldNow[w][n] = told[w][n]
    BY <1>2, <1>6
  <1>8. \A k \in Cursors : 0 \in Cursors /\ 0 <= k /\ k <= k
    BY EventsBounded DEF Cursors
  <1>9. told' \in [Accounts -> [Notes -> Cursors]]
    BY <1>1, <1>7, <1>8
  <1>10. \A w \in Accounts, n \in Notes : told'[w][n] = 0 \/ told'[w][n] = toldNow[w][n]
    BY <1>1
  <1>11. /\ \A n \in Notes : told'[u][n] <= told[u][n] \/ told'[u][n] <= through
         /\ \A w \in Accounts \ {u}, n \in Notes : told'[w][n] <= told[w][n]
    BY <1>2, <1>7, <1>8, <1>10
  <1> HIDE DEF acknowledged, kept, toldNow
  <1> QED BY <1>1, <1>3, <1>4, <1>5, <1>9, <1>11 DEF kept

-----------------------------------------------------------------------------
(* Types. *)

LEMMA EventsInitTypes == EventsInit => EventsTypes
  <1> SUFFICES ASSUME EventsInit PROVE EventsTypes
    OBVIOUS
  <1> USE DEF EventsInit
  <1>1. 0 \in Cursors /\ NothingListed \in Lists /\ NoLoad \in Loads
    BY EventsBounded DEF Cursors, NothingListed, Lists, NoLoad, Loads
  <1>2. LogTypes
    <2>1. members \in [Notes -> SUBSET Accounts]
      BY MembersAssumption
    <2>2. changed \in [Notes -> [mine : Cursors, others : Cursors]]
      BY <1>1
    <2>3. CursorsOf(log) = {}
      BY DEF CursorsOf
    <2> QED BY <1>1, <2>1, <2>2, <2>3 DEF LogTypes
  <1>3. LinkTypes
    BY DEF LinkTypes
  <1>4. ClientTypes
    <2>1. view \in Lists
      BY <1>1 DEF Lists
    <2>2. /\ loads \in [{"events", "other"} -> Loads] /\ loads["events"].state = "none"
      BY <1>1 DEF NoLoad
    <2> QED BY <1>1, <2>1, <2>2, EventsBounded DEF ClientTypes
  <1> QED BY <1>2, <1>3, <1>4 DEF EventsTypes

LEMMA RecordTypes ==
  ASSUME EventsTypes, NEW e \in Events, e.cursor \notin used,
         NEW remaining \in SUBSET Accounts, NEW revoked \in SUBSET Accounts,
         Record(e, remaining, revoked)
  PROVE  EventsTypes'
  <1>1. e.cursor \in 1..MaxEvents /\ e.cursor \in Cursors /\ e.note \in Notes
    BY CursorsTyped, EventsBounded DEF Events, Cursors
  <1>2. LogTypes /\ LinkTypes /\ ClientTypes
    BY DEF EventsTypes
  <1> DEFINE closes == User \in revoked /\ link \in {"asked", "on"}
  <1>3. /\ used' = used \union {e.cursor} /\ log' = log \union {e}
        /\ members' = [members EXCEPT ![e.note] = remaining]
        /\ former' = [former EXCEPT ![e.note] = (@ \union revoked) \ remaining]
        /\ changed' = IF e.mine
                THEN [changed EXCEPT ![e.note].mine = e.cursor]
                ELSE [changed EXCEPT ![e.note].others = e.cursor]
        /\ unpublished' = unpublished \union {e.cursor}
        /\ link' = IF closes THEN "ending" ELSE link
        /\ revokedNote' = IF closes THEN {e.note} ELSE revokedNote
        /\ UNCHANGED <<cursors, told, inbox, clientVars, faults>>
    BY DEF Record
  <1> HIDE DEF closes
  <1>4. LogTypes'
    <2>1. /\ members' \in [Notes -> SUBSET Accounts]
          /\ former' \in [Notes -> SUBSET Accounts]
          /\ \A n \in Notes : members'[n] \intersect former'[n] = {}
      BY <1>1, <1>2, <1>3 DEF LogTypes
    <2>2. changed' \in [Notes -> [mine : Cursors, others : Cursors]]
      <3>1. [changed EXCEPT ![e.note].mine = e.cursor]
              \in [Notes -> [mine : Cursors, others : Cursors]]
        BY <1>1, <1>2 DEF LogTypes
      <3>2. [changed EXCEPT ![e.note].others = e.cursor]
              \in [Notes -> [mine : Cursors, others : Cursors]]
        BY <1>1, <1>2 DEF LogTypes
      <3> QED BY <1>3, <3>1, <3>2
    <2>3. CursorsOf(log') = CursorsOf(log) \union {e.cursor}
      BY <1>3 DEF CursorsOf
    <2> QED BY <1>1, <1>2, <1>3, <2>1, <2>2, <2>3 DEF LogTypes
  <1>5. LinkTypes'
    BY <1>1, <1>2, <1>3 DEF LinkTypes, closes
  <1>6. ClientTypes'
    BY <1>2, <1>3 DEF ClientTypes, clientVars
  <1> QED BY <1>4, <1>5, <1>6 DEF EventsTypes

Change(n, k, mine) ==
  \/ Update(n, k, mine)
  \/ \E u \in Accounts : Invite(n, k, mine, u) \/ Revoke(n, k, mine, u)
  \/ PermanentlyDelete(n, k, mine)

(* A change is recorded under a cursor nobody has taken.                   *)
LEMMA ChangesTypes ==
  ASSUME EventsTypes, Changes
  PROVE  EventsTypes'
  <1>1. PICK n \in Notes, mine \in BOOLEAN : \E k \in Free(n) : Change(n, k, mine)
    BY DEF Changes, Change
  <1>11. PICK k \in Free(n) : Change(n, k, mine)
    BY <1>1
  <1>2. k \in 1..MaxEvents /\ k \notin used
    BY DEF Free
  <1>3. members[n] \in SUBSET Accounts
    BY DEF EventsTypes, LogTypes
  <1>4. ASSUME NEW kind \in {"updated", "added", "revoked", "deleted"},
               NEW whom \in SUBSET Accounts
        PROVE  Event(k, n, mine, kind, whom) \in Events
               /\ Event(k, n, mine, kind, whom).cursor = k
    BY <1>2 DEF Event, Events
  <1>5. CASE Update(n, k, mine)
    BY <1>2, <1>3, <1>4, <1>5, RecordTypes DEF Update
  <1>6. ASSUME NEW u \in Accounts, Invite(n, k, mine, u) PROVE EventsTypes'
    <2>1. {u} \in SUBSET Accounts /\ members[n] \union {u} \in SUBSET Accounts
      BY <1>3
    <2> QED BY <1>2, <1>4, <1>6, <2>1, RecordTypes DEF Invite
  <1>7. ASSUME NEW u \in Accounts, Revoke(n, k, mine, u) PROVE EventsTypes'
    <2>1. {u} \in SUBSET Accounts /\ members[n] \ {u} \in SUBSET Accounts
      BY <1>3
    <2> QED BY <1>2, <1>4, <1>7, <2>1, RecordTypes DEF Revoke
  <1>8. CASE PermanentlyDelete(n, k, mine)
    BY <1>2, <1>3, <1>4, <1>8, RecordTypes DEF PermanentlyDelete
  <1> QED BY <1>11, <1>5, <1>6, <1>7, <1>8 DEF Change

LEMMA ElsewhereTypes ==
  ASSUME EventsTypes, NEW u \in Accounts, NEW k \in used, AcknowledgeElsewhere(u, k)
  PROVE  EventsTypes'
  <1>1. k \in Cursors
    BY EventsBounded DEF EventsTypes, LogTypes, Cursors
  <1>2. LogTypes'
    BY <1>1, Acknowledged DEF AcknowledgeElsewhere, EventsTypes, LogTypes, CursorsOf
  <1>3. LinkTypes' /\ ClientTypes'
    BY DEF AcknowledgeElsewhere, EventsTypes, LinkTypes, ClientTypes, linkVars, clientVars
  <1> QED BY <1>2, <1>3 DEF EventsTypes

(* What goes to the client is among what the user may see.                 *)
LEMMA Sent ==
  ASSUME EventsTypes, NEW E \in SUBSET log, E # {}
  PROVE  E \in Batches /\ Append(inbox, E) \in Seq(Batches)
  <1>1. E \in Batches
    <2>1. E \in SUBSET Events
      BY DEF EventsTypes, LogTypes
    <2> QED BY <2>1 DEF Batches
  <1> QED BY <1>1 DEF EventsTypes, LinkTypes

LEMMA HubTypes ==
  ASSUME EventsTypes, Hub
  PROVE  EventsTypes'
  <1>1. CASE Replay
    <2>1. PICK first \in SUBSET log :
            inbox' = IF first = {} THEN inbox ELSE Append(inbox, first)
      BY <1>1 DEF Replay, VisibleAfter
    <2>2. LinkTypes'
      BY <1>1, <2>1, Sent DEF Replay, EventsTypes, LinkTypes
    <2>3. LogTypes' /\ ClientTypes'
      BY <1>1 DEF Replay, EventsTypes, LogTypes, ClientTypes, serverVars, clientVars, CursorsOf
    <2> QED BY <2>2, <2>3 DEF EventsTypes
  <1>2. ASSUME NEW k \in unpublished, Publish(k) PROVE EventsTypes'
    <2>1. PICK event \in SUBSET log :
            inbox' = IF link \in {"asked", "on"} /\ event # {}
                     THEN Append(inbox, event) ELSE inbox
      BY <1>2 DEF Publish, VisibleAfter
    <2>2. LinkTypes'
      BY <1>2, <2>1, Sent DEF Publish, EventsTypes, LinkTypes
    <2>3. LogTypes' /\ ClientTypes'
      BY <1>2 DEF Publish, EventsTypes, LogTypes, ClientTypes, clientVars, CursorsOf
    <2> QED BY <2>2, <2>3 DEF EventsTypes
  <1> QED BY <1>1, <1>2 DEF Hub

(* The client's own steps leave the log alone, all but one.                *)
LEMMA LogSame ==
  ASSUME EventsTypes, UNCHANGED serverVars
  PROVE  LogTypes'
  BY DEF EventsTypes, LogTypes, serverVars, CursorsOf

LEMMA ConnectionTypes ==
  ASSUME EventsTypes, Closed \/ Connect \/ Disconnect
  PROVE  EventsTypes'
  <1>1. LogTypes'
    BY LogSame DEF Closed, Connect, Disconnect
  <1>2. LinkTypes'
    <2>1. <<>> \in Seq(Batches)
      OBVIOUS
    <2>2. CASE Closed \/ Disconnect
      BY <2>1, <2>2 DEF Closed, Disconnect, Drop, LinkTypes
    <2>3. CASE Connect
      BY <2>3 DEF Connect, EventsTypes, LinkTypes
    <2> QED BY <2>2, <2>3
  <1>3. ClientTypes'
    <2>1. CASE Closed
      <3>1. view' = [n \in Notes |-> IF n \in revokedNote THEN Absent ELSE view[n]]
        BY <2>1 DEF Closed
      <3>2. view' \in Lists
        BY <3>1 DEF EventsTypes, ClientTypes, Lists
      <3> QED BY <2>1, <3>2 DEF Closed, EventsTypes, ClientTypes
    <2>2. CASE Connect
      BY <2>2 DEF Connect, EventsTypes, ClientTypes, clientVars
    <2>3. CASE Disconnect
      BY <2>3, EventsBounded DEF Disconnect, EventsTypes, ClientTypes, clientVars
    <2> QED BY <2>1, <2>2, <2>3
  <1> QED BY <1>1, <1>2, <1>3 DEF EventsTypes

LEMMA LoadsTyped ==
  /\ NothingListed \in Lists /\ NoLoad \in Loads /\ Asked \in Loads
  /\ NoLoad.state = "none" /\ Asked.state = "asked"
  BY DEF NothingListed, Lists, NoLoad, Asked, Loads

LEMMA RestartTypes ==
  ASSUME EventsTypes, Restart
  PROVE  EventsTypes'
  <1>1. LogTypes'
    BY LogSame DEF Restart
  <1>2. LinkTypes'
    BY DEF Restart, Drop, EventsTypes, LinkTypes
  <1>3. loads' = [events |-> NoLoad, other |-> Asked]
    BY DEF Restart
  <1>4. loads' \in [{"events", "other"} -> Loads] /\ loads'["events"].state = "none"
    BY <1>3, LoadsTyped
  <1>5. cursors[User] \in Cursors
    BY EventsBounded DEF EventsTypes, LogTypes
  <1>6. <<>> \in Seq(Batches)
    OBVIOUS
  <1>7. ClientTypes'
    BY <1>4, <1>5, <1>6, LoadsTyped, EventsBounded DEF Restart, EventsTypes, ClientTypes
  <1> QED BY <1>1, <1>2, <1>7 DEF EventsTypes

LEMMA ApplyTypes ==
  ASSUME EventsTypes, NEW E \in Batches, Apply(E), stage \in {"idle", "acking"}
  PROVE  /\ position' \in Cursors /\ position <= position'
         /\ \A e \in E : e.cursor <= position'
         /\ position' = position \/ \E e \in E : position' = e.cursor
         /\ view' \in Lists /\ stage' \in {"loading", "acking"}
         /\ loads' \in [{"events", "other"} -> Loads] /\ newest' \in {"events", "other"}
         /\ loads'["events"].state # "none" => stage' = "loading"
  <1>1. ClientTypes /\ E \in SUBSET Events
    BY DEF EventsTypes, Batches
  <1>2. {position} \union CursorsOf(E) \in SUBSET Cursors
    BY <1>1, CursorsTyped DEF ClientTypes
  <1>3. /\ position' \in {position} \union CursorsOf(E) /\ position' \in Cursors
        /\ \A k \in {position} \union CursorsOf(E) : k <= position'
    BY <1>2, LastCursor DEF Apply
  <1>4. \A e \in E : e.cursor <= position'
    BY <1>1, <1>3, CursorsTyped
  <1>5. position' = position \/ \E e \in E : position' = e.cursor
    BY <1>3 DEF CursorsOf
  <1>6. view' \in Lists
    <2>1. view' = [n \in Notes |-> IF \E e \in E : OwnRevocation(e) /\ e.note = n
                                   THEN Absent ELSE view[n]]
      BY DEF Apply
    <2> QED BY <1>1, <2>1 DEF ClientTypes, Lists
  <1>7. loads["events"].state = "none"
    BY <1>1 DEF ClientTypes
  <1>8. CASE ForReload(E) = {}
    BY <1>1, <1>3, <1>4, <1>5, <1>6, <1>7, <1>8 DEF Apply, ClientTypes
  <1>9. CASE ForReload(E) # {}
    <2>1. /\ stage' = "loading" /\ loads' = [loads EXCEPT !["events"] = Asked]
          /\ newest' = "events"
      BY <1>9 DEF Apply, Ask
    <2>2. loads' \in [{"events", "other"} -> Loads]
      BY <1>1, <2>1, LoadsTyped DEF ClientTypes
    <2> QED BY <1>3, <1>4, <1>5, <1>6, <2>1, <2>2
  <1> QED BY <1>8, <1>9

LEMMA ReceiveTypes ==
  ASSUME EventsTypes, Receive
  PROVE  EventsTypes'
  <1>1. LogTypes'
    BY LogSame DEF Receive
  <1>2. /\ inbox # <<>> /\ inbox' = Tail(inbox) /\ batches' = Append(batches, Head(inbox))
        /\ UNCHANGED <<serverVars, link, revokedNote, faults>>
    BY DEF Receive
  <1>3. inbox \in Seq(Batches) /\ batches \in Seq(Batches)
    BY DEF EventsTypes, LinkTypes, ClientTypes
  <1>4. Head(inbox) \in Batches /\ Tail(inbox) \in Seq(Batches)
    BY <1>2, <1>3
  <1>5. LinkTypes'
    BY <1>2, <1>4 DEF EventsTypes, LinkTypes
  <1>6. batches' \in Seq(Batches) /\ batches' # <<>>
    BY <1>2, <1>3, <1>4
  <1>7. CASE batches = <<>>
    <2>1. Apply(Head(inbox)) /\ stage = "idle"
      BY <1>7 DEF Receive, EventsTypes, ClientTypes
    <2>2. ClientTypes'
      BY <1>2, <1>4, <1>6, <2>1, ApplyTypes DEF EventsTypes, ClientTypes
    <2> QED BY <1>1, <1>5, <2>2 DEF EventsTypes
  <1>8. CASE batches # <<>>
    <2>1. UNCHANGED <<position, stage, loads, newest, view>>
      BY <1>8 DEF Receive
    <2>2. ClientTypes'
      BY <1>2, <1>6, <1>8, <2>1 DEF EventsTypes, ClientTypes
    <2> QED BY <1>1, <1>5, <2>2 DEF EventsTypes
  <1> QED BY <1>7, <1>8

LEMMA AnswerTypes ==
  ASSUME EventsTypes, NEW k \in {"events", "other"}, Answer(k)
  PROVE  EventsTypes'
  <1> DEFINE list == [n \in Notes |-> IF User \in members[n] THEN Last(n) ELSE Absent]
             answer == [state |-> "answered", list |-> list]
  <1>1. /\ loads[k].state = "asked" /\ loads' = [loads EXCEPT ![k] = answer]
        /\ UNCHANGED <<serverVars, linkVars, position, batches, stage, newest, view, faults>>
    BY DEF Answer
  <1>2. list \in Lists
    BY LastOf DEF EventsTypes, Lists
  <1>3. answer \in Loads
    BY <1>2 DEF Loads
  <1> HIDE DEF answer
  <1>4. loads' \in [{"events", "other"} -> Loads]
    BY <1>1, <1>3 DEF EventsTypes, ClientTypes
  <1>5. loads'["events"].state # "none" => stage' = "loading"
    BY <1>1 DEF EventsTypes, ClientTypes
  <1>6. ClientTypes'
    BY <1>1, <1>4, <1>5 DEF EventsTypes, ClientTypes
  <1>7. LogTypes' /\ LinkTypes'
    BY <1>1, LogSame DEF EventsTypes, LinkTypes, linkVars
  <1> QED BY <1>6, <1>7 DEF EventsTypes

LEMMA ShowTypes ==
  ASSUME EventsTypes, NEW k \in {"events", "other"}, Show(k)
  PROVE  EventsTypes'
  <1>1. /\ loads[k].state = "answered" /\ loads' = [loads EXCEPT ![k] = NoLoad]
        /\ view' = IF newest = k THEN loads[k].list ELSE view
        /\ stage' = IF k = "events" THEN "acking" ELSE stage
        /\ UNCHANGED <<serverVars, linkVars, position, batches, newest, faults>>
    BY DEF Show
  <1>2. loads[k] \in Loads /\ loads' \in [{"events", "other"} -> Loads]
    BY <1>1, LoadsTyped DEF EventsTypes, ClientTypes
  <1>3. view' \in Lists
    BY <1>1, <1>2 DEF EventsTypes, ClientTypes, Loads
  <1>4. loads'["events"].state # "none" => stage' = "loading"
    BY <1>1, LoadsTyped DEF EventsTypes, ClientTypes
  <1>5. k = "events" => batches # <<>>
    BY <1>1 DEF EventsTypes, ClientTypes
  <1>6. ClientTypes'
    BY <1>1, <1>2, <1>3, <1>4, <1>5 DEF EventsTypes, ClientTypes
  <1>7. LogTypes' /\ LinkTypes'
    BY <1>1, LogSame DEF EventsTypes, LinkTypes, linkVars
  <1> QED BY <1>6, <1>7 DEF EventsTypes

LEMMA LoadingTypes ==
  ASSUME EventsTypes, Retry \/ LoadList \/ \E k \in {"events", "other"} : FailLoad(k)
  PROVE  EventsTypes'
  <1>1. LogTypes' /\ LinkTypes'
    BY LogSame DEF Retry, LoadList, FailLoad, EventsTypes, LinkTypes, linkVars
  <1>2. CASE Retry
    <2>1. loads' \in [{"events", "other"} -> Loads]
      BY <1>2, LoadsTyped DEF Retry, Ask, EventsTypes, ClientTypes
    <2> QED BY <1>1, <1>2, <2>1 DEF Retry, Ask, EventsTypes, ClientTypes
  <1>3. CASE LoadList
    <2>1. /\ loads' \in [{"events", "other"} -> Loads]
          /\ loads'["events"] = loads["events"]
      BY <1>3, LoadsTyped DEF LoadList, EventsTypes, ClientTypes
    <2> QED BY <1>1, <1>3, <2>1, EventsBounded DEF LoadList, EventsTypes, ClientTypes
  <1>4. ASSUME NEW k \in {"events", "other"}, FailLoad(k) PROVE EventsTypes'
    <2>1. /\ loads[k].state = "asked" /\ loads' = [loads EXCEPT ![k] = NoLoad]
          /\ faults < MaxFaults /\ faults' = faults + 1
          /\ stage' = IF k = "events" THEN "failed" ELSE stage
          /\ UNCHANGED <<serverVars, linkVars, position, batches, newest, view>>
      BY <1>4 DEF FailLoad
    <2>2. loads' \in [{"events", "other"} -> Loads]
      BY <2>1, LoadsTyped DEF EventsTypes, ClientTypes
    <2>3. loads'["events"].state # "none" => stage' = "loading"
      BY <2>1, LoadsTyped DEF EventsTypes, ClientTypes
    <2>4. k = "events" => batches # <<>>
      BY <2>1 DEF EventsTypes, ClientTypes
    <2>5. faults' \in 0..MaxFaults
      BY <2>1, EventsBounded DEF EventsTypes, ClientTypes
    <2>6. ClientTypes'
      BY <2>1, <2>2, <2>3, <2>4, <2>5 DEF EventsTypes, ClientTypes
    <2> QED BY <1>1, <2>6 DEF EventsTypes
  <1> QED BY <1>2, <1>3, <1>4

LEMMA NothingLeft == ASSUME NEW S, NEW q \in Seq(S) PROVE q = <<>> <=> Len(q) = 0
  OBVIOUS

(* The last event of the first batch.                                      *)
LEMMA FirstBatch ==
  ASSUME EventsTypes, batches # <<>>
  PROVE  /\ Head(batches) \in Batches /\ Tail(batches) \in Seq(Batches)
         /\ MaxOf(CursorsOf(Head(batches))) \in Cursors
         /\ MaxOf(CursorsOf(Head(batches))) \in CursorsOf(Head(batches))
  <1>1. batches \in Seq(Batches)
    BY DEF EventsTypes, ClientTypes
  <1>2. Head(batches) \in Batches /\ Tail(batches) \in Seq(Batches)
    BY <1>1
  <1>3. CursorsOf(Head(batches)) \in SUBSET Cursors /\ CursorsOf(Head(batches)) # {}
    <2>1. Head(batches) \in SUBSET Events /\ Head(batches) # {}
      BY <1>2 DEF Batches
    <2> QED BY <2>1, CursorsTyped
  <1> QED BY <1>2, <1>3, LastCursor

LEMMA AcknowledgeTypes ==
  ASSUME EventsTypes, Acknowledge
  PROVE  EventsTypes'
  <1> DEFINE through == MaxOf(CursorsOf(Head(batches)))
  <1>1. /\ stage = "acking" /\ RecordAcknowledgement(User, through)
        /\ batches' = Tail(batches)
        /\ IF Len(batches) > 1
           THEN Apply(batches[2])
           ELSE stage' = "idle" /\ UNCHANGED <<position, loads, newest, view>>
        /\ UNCHANGED <<linkVars, faults>>
    BY DEF Acknowledge
  <1>2. batches # <<>> /\ batches \in Seq(Batches)
    BY <1>1 DEF EventsTypes, ClientTypes
  <1>3. through \in Cursors
    BY <1>2, FirstBatch
  <1> HIDE DEF through
  <1>4. LogTypes'
    BY <1>1, <1>3, EventsBounded, Acknowledged DEF EventsTypes, LogTypes, CursorsOf
  <1>5. LinkTypes'
    BY <1>1 DEF EventsTypes, LinkTypes, linkVars
  <1>6. batches' \in Seq(Batches) /\ (batches' = <<>> <=> ~(Len(batches) > 1))
    <2>1. Len(batches) \in Nat /\ Len(batches) >= 1 /\ batches' = Tail(batches)
      BY <1>1, <1>2
    <2>2. Tail(batches) \in Seq(Batches) /\ Len(Tail(batches)) = Len(batches) - 1
      BY <1>2
    <2>3. Tail(batches) = <<>> <=> Len(Tail(batches)) = 0
      BY <2>2, NothingLeft
    <2> QED BY <2>1, <2>2, <2>3
  <1>7. CASE Len(batches) > 1
    <2>1. batches[2] \in Batches
      BY <1>2, <1>7
    <2>2. ClientTypes'
      BY <1>1, <1>6, <1>7, <2>1, ApplyTypes DEF EventsTypes, ClientTypes
    <2> QED BY <1>4, <1>5, <2>2 DEF EventsTypes
  <1>8. CASE ~(Len(batches) > 1)
    <2>1. ClientTypes'
      BY <1>1, <1>6, <1>8 DEF EventsTypes, ClientTypes
    <2> QED BY <1>4, <1>5, <2>1 DEF EventsTypes
  <1> QED BY <1>7, <1>8

LEMMA EventsNextTypes == EventsTypes /\ [EventsNext]_eventVars => EventsTypes'
  <1> SUFFICES ASSUME EventsTypes, [EventsNext]_eventVars PROVE EventsTypes'
    OBVIOUS
  <1>1. CASE Changes \/ Hub
    BY <1>1, ChangesTypes, HubTypes
  <1>2. CASE \E u \in Accounts, k \in used : AcknowledgeElsewhere(u, k)
    BY <1>2, ElsewhereTypes
  <1>3. CASE Client
    BY <1>3, ConnectionTypes, ReceiveTypes, LoadingTypes, AcknowledgeTypes, AnswerTypes,
       ShowTypes DEF Client
  <1>4. CASE Faults
    BY <1>4, ConnectionTypes, RestartTypes, LoadingTypes DEF Faults
  <1>5. CASE UNCHANGED eventVars
    <2>1. LogTypes'
      BY <1>5, LogSame DEF eventVars
    <2>2. LinkTypes' /\ ClientTypes'
      BY <1>5 DEF EventsTypes, LinkTypes, ClientTypes, eventVars, linkVars, clientVars
    <2> QED BY <2>1, <2>2 DEF EventsTypes
  <1> QED BY <1>1, <1>2, <1>3, <1>4, <1>5 DEF EventsNext

-----------------------------------------------------------------------------
(* What members have not acknowledged. *)

(* A step that leaves the log, the members and the acknowledgements alone. *)
LEMMA KeptSame ==
  ASSUME UnacknowledgedKept, UNCHANGED <<log, members, changed, cursors>>
  PROVE  UnacknowledgedKept'
  BY DEF UnacknowledgedKept, VisibleAfter, VisibleTo, Last

(* The event of a change is the last of its note, and in the log; the      *)
(* events of other notes stay as visible to their members as they were.    *)
LEMMA RecordKept ==
  ASSUME EventsTypes, UnacknowledgedKept, NEW n \in Notes, NEW k \in Free(n),
         NEW e \in Events, e.note = n, e.cursor = k,
         NEW remaining \in SUBSET Accounts, NEW revoked, Record(e, remaining, revoked)
  PROVE  UnacknowledgedKept'
  <1>1. /\ log' = log \union {e} /\ cursors' = cursors
        /\ members' = [members EXCEPT ![n] = remaining]
        /\ changed' = IF e.mine THEN [changed EXCEPT ![n].mine = k]
                      ELSE [changed EXCEPT ![n].others = k]
    BY DEF Record
  <1>2. /\ members \in [Notes -> SUBSET Accounts]
        /\ changed \in [Notes -> [mine : Cursors, others : Cursors]]
        /\ k > Last(n) /\ k \in Cursors
    BY EventsBounded DEF EventsTypes, LogTypes, Free, Cursors
  <1>3. Last(n)' = k
    <2>1. LogTypes
      BY DEF EventsTypes
    <2>2. changed[n].mine < k /\ changed[n].others < k
      BY <1>2, <2>1, LastOf DEF Cursors
    <2>3. changed'[n].mine \in Cursors /\ changed'[n].others \in Cursors
      BY <1>1, <1>2
    <2>4. /\ k \in {changed'[n].mine, changed'[n].others}
          /\ changed'[n].mine <= k /\ changed'[n].others <= k
      BY <1>1, <1>2, <2>2 DEF Cursors
    <2>5. LET m == MaxOf({changed'[n].mine, changed'[n].others})
          IN /\ m \in {changed'[n].mine, changed'[n].others}
             /\ changed'[n].mine <= m /\ changed'[n].others <= m
      BY <2>3, LaterOf
    <2> QED BY <1>2, <2>3, <2>4, <2>5 DEF Last, Cursors
  <1>4. ASSUME NEW u \in members'[n], cursors'[u] < Last(n)'
        PROVE  \E f \in VisibleAfter(u, cursors[u])' : f.note = n /\ f.cursor = Last(n)'
    BY <1>1, <1>3, <1>4 DEF VisibleAfter, VisibleTo
  <1>5. ASSUME NEW o \in Notes \ {n}, NEW u \in members'[o], cursors'[u] < Last(o)'
        PROVE  \E f \in VisibleAfter(u, cursors[u])' : f.note = o /\ f.cursor = Last(o)'
    <2>1. members'[o] = members[o] /\ changed'[o] = changed[o]
      BY <1>1, <1>2
    <2>2. Last(o)' = Last(o)
      BY <2>1 DEF Last
    <2>3. PICK f \in VisibleAfter(u, cursors[u]) : f.note = o /\ f.cursor = Last(o)
      BY <1>1, <1>5, <2>1, <2>2 DEF UnacknowledgedKept
    <2>4. f \in VisibleAfter(u, cursors[u])'
      BY <1>1, <1>5, <2>1, <2>3 DEF VisibleAfter, VisibleTo
    <2> QED BY <2>2, <2>3, <2>4
  <1> QED BY <1>4, <1>5, <1>1 DEF UnacknowledgedKept

LEMMA ChangesKept ==
  ASSUME EventsTypes, UnacknowledgedKept, Changes
  PROVE  UnacknowledgedKept'
  <1>1. PICK n \in Notes, mine \in BOOLEAN : \E k \in Free(n) : Change(n, k, mine)
    BY DEF Changes, Change
  <1>2. PICK k \in Free(n) : Change(n, k, mine)
    BY <1>1
  <1>3. k \in 1..MaxEvents /\ members[n] \in SUBSET Accounts
    BY DEF Free, EventsTypes, LogTypes
  <1>4. ASSUME NEW kind \in {"updated", "added", "revoked", "deleted"},
               NEW whom \in SUBSET Accounts
        PROVE  LET e == Event(k, n, mine, kind, whom)
               IN e \in Events /\ e.note = n /\ e.cursor = k
    BY <1>3 DEF Event, Events
  <1>5. CASE Update(n, k, mine)
    BY <1>3, <1>4, <1>5, RecordKept DEF Update
  <1>6. ASSUME NEW u \in Accounts, Invite(n, k, mine, u) PROVE UnacknowledgedKept'
    <2>1. {u} \in SUBSET Accounts /\ members[n] \union {u} \in SUBSET Accounts
      BY <1>3
    <2> QED BY <1>4, <1>6, <2>1, RecordKept DEF Invite
  <1>7. ASSUME NEW u \in Accounts, Revoke(n, k, mine, u) PROVE UnacknowledgedKept'
    <2>1. {u} \in SUBSET Accounts /\ members[n] \ {u} \in SUBSET Accounts
      BY <1>3
    <2> QED BY <1>4, <1>7, <2>1, RecordKept DEF Revoke
  <1>8. CASE PermanentlyDelete(n, k, mine)
    BY <1>3, <1>4, <1>8, RecordKept DEF PermanentlyDelete
  <1> QED BY <1>2, <1>5, <1>6, <1>7, <1>8 DEF Change

(* An event that goes was acknowledged by every member, so that of a       *)
(* member still behind it stays.                                           *)
LEMMA AcknowledgementKept ==
  ASSUME EventsTypes, UnacknowledgedKept, NEW w \in Accounts, NEW through \in Cursors,
         RecordAcknowledgement(w, through)
  PROVE  UnacknowledgedKept'
  <1>1. /\ cursors' \in [Accounts -> Cursors] /\ cursors[w] <= cursors'[w]
        /\ \A v \in Accounts \ {w} : cursors'[v] = cursors[v]
        /\ \A e \in log \ log' : Everyone(e, cursors')
        /\ members' = members /\ changed' = changed
    BY Acknowledged
  <1>2. LogTypes
    BY DEF EventsTypes
  <1> SUFFICES ASSUME NEW n \in Notes, NEW u \in members[n], cursors'[u] < Last(n)
               PROVE  \E e \in VisibleAfter(u, cursors[u])' : e.note = n /\ e.cursor = Last(n)
    BY <1>1 DEF UnacknowledgedKept, Last
  <1>3. u \in Accounts /\ cursors[u] \in Cursors /\ cursors'[u] \in Cursors
        /\ Last(n) \in Cursors
    BY <1>1, <1>2, LastOf DEF LogTypes
  <1>4. cursors[u] <= cursors'[u]
    BY <1>1, <1>3 DEF Cursors
  <1>5. cursors[u] < Last(n)
    BY <1>3, <1>4 DEF Cursors
  <1>6. PICK e \in VisibleAfter(u, cursors[u]) : e.note = n /\ e.cursor = Last(n)
    BY <1>5 DEF UnacknowledgedKept
  <1>7. e \in log /\ ~Everyone(e, cursors')
    <2>1. ~(cursors'[u] >= e.cursor)
      BY <1>3, <1>6 DEF Cursors
    <2>2. members'[e.note] = members[n]
      BY <1>1, <1>6
    <2> QED BY <1>6, <1>1, <2>1 DEF VisibleAfter, Everyone
  <1>8. e \in log' /\ e.cursor > cursors'[u] /\ u \in members'[e.note]
    BY <1>1, <1>3, <1>6, <1>7 DEF Cursors
  <1> QED BY <1>6, <1>8 DEF VisibleAfter, VisibleTo

(* Of the client's steps only an acknowledgement reaches the log.          *)
LEMMA ClientKept ==
  ASSUME EventsTypes, UnacknowledgedKept, Client
  PROVE  UnacknowledgedKept'
  <1>1. CASE Acknowledge
    <2>1. batches # <<>> /\ batches \in Seq(Batches)
      BY <1>1 DEF Acknowledge, EventsTypes, ClientTypes
    <2>2. MaxOf(CursorsOf(Head(batches))) \in Cursors
      BY <2>1, FirstBatch
    <2> QED BY <1>1, <2>2, AcknowledgementKept, EventsBounded DEF Acknowledge
  <1>2. CASE ~Acknowledge
    <2>1. UNCHANGED serverVars
      BY <1>2 DEF Client, Connect, Closed, Receive, Answer, Show, Retry
    <2> QED BY <2>1, KeptSame DEF serverVars
  <1> QED BY <1>1, <1>2

LEMMA EventsFirst == EventsInit => EventsInv
  <1> SUFFICES ASSUME EventsInit PROVE EventsInv
    OBVIOUS
  <1>1. EventsTypes
    BY EventsInitTypes
  <1>2. ASSUME NEW n \in Notes, NEW u \in members[n] PROVE ~(cursors[u] < Last(n))
    <2>1. LogTypes /\ u \in Accounts
      BY <1>1 DEF EventsTypes, LogTypes
    <2>2. Last(n) = 0
      BY <2>1, LastOf DEF EventsInit
    <2> QED BY <2>1, <2>2 DEF EventsInit
  <1> QED BY <1>1, <1>2 DEF EventsInv, UnacknowledgedKept

LEMMA EventsKept == EventsInv /\ [EventsNext]_eventVars => EventsInv'
  <1> SUFFICES ASSUME EventsInv, [EventsNext]_eventVars PROVE EventsInv'
    OBVIOUS
  <1>1. EventsTypes /\ EventsTypes' /\ UnacknowledgedKept
    BY EventsNextTypes DEF EventsInv
  <1>2. CASE Changes
    BY <1>1, <1>2, ChangesKept DEF EventsInv
  <1>3. ASSUME NEW u \in Accounts, NEW k \in used, AcknowledgeElsewhere(u, k)
        PROVE  EventsInv'
    <2>1. k \in Cursors
      BY <1>1, EventsBounded DEF EventsTypes, LogTypes, Cursors
    <2> QED BY <1>1, <1>3, <2>1, AcknowledgementKept DEF AcknowledgeElsewhere, EventsInv
  <1>4. CASE Hub
    BY <1>1, <1>4, KeptSame DEF Hub, Replay, Publish, serverVars, EventsInv
  <1>5. CASE Client
    BY <1>1, <1>5, ClientKept DEF EventsInv
  <1>6. CASE Faults
    BY <1>1, <1>6, KeptSame
       DEF Faults, Disconnect, Restart, FailLoad, LoadList, serverVars, EventsInv
  <1>7. CASE UNCHANGED eventVars
    BY <1>1, <1>7, KeptSame DEF eventVars, serverVars, EventsInv
  <1> QED BY <1>2, <1>3, <1>4, <1>5, <1>6, <1>7 DEF EventsNext

(* The log, the connection and the client fit together, and what is pruned *)
(* every member had acknowledged.                                          *)
THEOREM EventsInvariance == EventsSpec => []EventsInv
  BY EventsFirst, EventsKept, PTL DEF EventsSpec

(* Every variable has its type: what is queued was committed, a client     *)
(* that waits for a list has a batch it waits for.                         *)
THEOREM EventsTyped == EventsSpec => []EventsTypeOK
  <1>1. EventsInv => EventsTypeOK
    BY EventsTypesOK DEF EventsInv
  <1> QED BY <1>1, EventsInvariance, PTL

(* For every number of notes, users and clients, in whatever order cursors *)
(* are committed, published, replayed and acknowledged: a member who has   *)
(* not acknowledged the last change of a note finds its event in a replay. *)
THEOREM LastChangeKept == EventsSpec => []UnacknowledgedKept
  <1>1. EventsInv => UnacknowledgedKept
    BY DEF EventsInv
  <1> QED BY <1>1, EventsInvariance, PTL

-----------------------------------------------------------------------------
(* NotePresence *)

Broadcasts == [list : ListsOfUsers, to : SUBSET Conns, sending : BOOLEAN]

(* A report waits, and its access is looked up, on a connection that was   *)
(* opened: a new connection starts with neither.                           *)
OpenedOnly ==
  /\ \A d \in Devices : conn[d] >= 1
  /\ \A c \in Conns : c \in allowed \/ reports[c] # <<>> => c[2] <= conn[c[1]]

(* A sharer of now was a sharer when the list under way was composed.      *)
SharersWereSharers == cast.list.outsiders \intersect sharers = {}

PresenceInv ==
  /\ PresenceTypeOK /\ cast \in Broadcasts
  /\ OpenedOnly /\ SharersWereSharers
  /\ \A d \in Devices : UserOf[d] \notin shown[d].outsiders

-----------------------------------------------------------------------------
LEMMA CurrentIsConn ==
  ASSUME PresenceInv, NEW d \in Devices
  PROVE  Current(d) \in Conns /\ Current(d)[1] = d /\ Current(d)[2] = conn[d]
  BY PresenceAssumption DEF PresenceInv, PresenceTypeOK, OpenedOnly, Current, Conns

(* One more report waits, on the connection of the device.                 *)
LEMMA Reported ==
  ASSUME PresenceInv, NEW d \in Devices, NEW state \in {"idle", "left"}, Report(d, state)
  PROVE  /\ reports' \in [Conns -> Seq({"idle", "left"})]
         /\ \A c \in Conns : reports[c] # <<>> => reports'[c] # <<>>
         /\ \A c \in Conns : reports'[c] # <<>> => reports[c] # <<>> \/ c = Current(d)
  <1>1. reports \in [Conns -> Seq({"idle", "left"})]
    BY DEF PresenceInv, PresenceTypeOK
  <1>2. \A q \in Seq({"idle", "left"}) :
          Append(q, state) \in Seq({"idle", "left"}) /\ Append(q, state) # <<>>
    OBVIOUS
  <1>3. CASE d \in online
    BY <1>1, <1>2, <1>3, CurrentIsConn DEF Report
  <1>4. CASE d \notin online
    BY <1>1, <1>4 DEF Report
  <1> QED BY <1>3, <1>4

LEMMA PresenceFirst == PresenceInit => PresenceInv
  <1> SUFFICES ASSUME PresenceInit PROVE PresenceInv
    OBVIOUS
  <1>1. /\ {<<d, 1>> : d \in Viewers} \subseteq Conns
        /\ {<<d, 1>> : d \in Devices} \subseteq Conns
    BY PresenceAssumption DEF Conns
  <1>2. /\ {UserOf[e] : e \in Viewers} \subseteq People
        /\ [users |-> {UserOf[e] : e \in Viewers}, outsiders |-> {}] \in ListsOfUsers
    BY PresenceAssumption DEF People, ListsOfUsers
  <1>3. NoCast \in Broadcasts
    BY DEF NoCast, Broadcasts, NoUsers, ListsOfUsers
  <1>4. PresenceTypeOK
    <2>1. /\ shown \in [Devices -> ListsOfUsers]
          /\ conn \in [Devices -> 0..MaxConns]
      <3>1. 1 \in 0..MaxConns
        BY PresenceAssumption
      <3> DEFINE shownFirst == [users |-> {UserOf[e] : e \in Viewers}, outsiders |-> {}]
      <3>2. shownFirst \in ListsOfUsers /\ shown = [d \in Devices |-> shownFirst]
        BY <1>2 DEF PresenceInit
      <3> HIDE DEF shownFirst
      <3>3. shown \in [Devices -> ListsOfUsers]
        BY <3>2
      <3>4. conn \in [Devices -> 0..MaxConns]
        BY <3>1 DEF PresenceInit
      <3> QED BY <3>3, <3>4
    <2>2. /\ reports \in [Conns -> Seq({"idle", "left"})]
          /\ allowed \subseteq {c \in Conns : reports[c] # <<>>}
      <3>1. <<>> \in Seq({"idle", "left"})
        OBVIOUS
      <3> QED BY <3>1 DEF PresenceInit
    <2>3. /\ cast.list \in ListsOfUsers /\ cast.to \subseteq Conns
          /\ cast.sending \in BOOLEAN
      BY <1>3 DEF PresenceInit, Broadcasts
    <2>4. /\ sharers \subseteq People /\ closing \subseteq People \ sharers
          /\ online \subseteq Devices /\ viewing \subseteq Devices
          /\ clients \subseteq Conns /\ entries \subseteq Conns /\ stale \subseteq entries
          /\ queued \in BOOLEAN
      BY <1>1, PresenceAssumption DEF PresenceInit
    <2>5. moves \in 0..MaxMoves /\ breaks \in 0..MaxBreaks
      BY PresenceAssumption DEF PresenceInit
    <2> QED BY <2>1, <2>2, <2>3, <2>4, <2>5 DEF PresenceTypeOK
  <1>5. OpenedOnly
    BY PresenceAssumption DEF PresenceInit, OpenedOnly, Conns
  <1>6. SharersWereSharers
    BY DEF PresenceInit, SharersWereSharers, NoCast, NoUsers
  <1> QED BY <1>3, <1>4, <1>5, <1>6 DEF PresenceInv, PresenceInit

-----------------------------------------------------------------------------
(* Devices. *)

(* A report changes neither the lists nor the access.                      *)
LEMMA DeviceReports ==
  ASSUME PresenceInv, NEW d \in Devices, NEW state \in {"idle", "left"}, Report(d, state), Move(d),
         viewing' \subseteq Devices,
         UNCHANGED <<sharers, closing, conn, online, shown, breaks, clients,
                     allowed, entries, stale, queued, cast>>
  PROVE  PresenceInv'
  <1>1. PresenceTypeOK'
    <2>1. allowed' \subseteq {c \in Conns : reports'[c] # <<>>}
      BY Reported DEF PresenceInv, PresenceTypeOK
    <2>2. moves' \in 0..MaxMoves
      BY PresenceAssumption DEF PresenceInv, PresenceTypeOK, Move
    <2> QED BY <2>1, <2>2, Reported DEF PresenceInv, PresenceTypeOK, ListsOfUsers
  <1>2. OpenedOnly'
    <2>1. Current(d)[1] = d /\ Current(d)[2] = conn[d] /\ conn[d] \in Int
      BY CurrentIsConn DEF PresenceInv, PresenceTypeOK
    <2> QED BY <2>1, Reported DEF PresenceInv, OpenedOnly
  <1> QED BY <1>1, <1>2 DEF PresenceInv, SharersWereSharers

LEMMA ViewStep == ASSUME PresenceInv, NEW d \in Devices, View(d) PROVE PresenceInv'
  <1>1. viewing' \subseteq Devices
    BY DEF View, PresenceInv, PresenceTypeOK
  <1> QED BY <1>1, DeviceReports DEF View

LEMMA LeaveStep == ASSUME PresenceInv, NEW d \in Devices, Leave(d) PROVE PresenceInv'
  <1>1. viewing' \subseteq Devices
    BY DEF Leave, PresenceInv, PresenceTypeOK
  <1> QED BY <1>1, DeviceReports DEF Leave

LEMMA HeartbeatStep == ASSUME PresenceInv, NEW d \in Devices, Heartbeat(d) PROVE PresenceInv'
  <1>1. viewing' \subseteq Devices
    BY DEF Heartbeat, PresenceInv, PresenceTypeOK
  <1> QED BY <1>1, DeviceReports DEF Heartbeat

(* A new connection: nothing waited on it.                                 *)
LEMMA OpenConnectionStep == ASSUME PresenceInv, NEW d \in Devices, OpenConnection(d) PROVE PresenceInv'
  <1> DEFINE c == <<d, conn[d] + 1>>
  <1>1. c \in Conns /\ conn[d] \in Int
    BY PresenceAssumption DEF OpenConnection, PresenceInv, PresenceTypeOK, Conns
  <1>2. c \notin allowed
    BY <1>1 DEF PresenceInv, OpenedOnly
  <1>3. /\ reports' \in [Conns -> Seq({"idle", "left"})]
        /\ \A x \in Conns : x # c => reports'[x] = reports[x]
    <2>1. <<"idle">> \in Seq({"idle", "left"}) /\ <<>> \in Seq({"idle", "left"})
      OBVIOUS
    <2> QED BY <1>1, <2>1 DEF OpenConnection, PresenceInv, PresenceTypeOK
  <1>4. /\ conn' \in [Devices -> 0..MaxConns] /\ conn'[d] = conn[d] + 1
        /\ \A x \in Devices : conn'[x] >= conn[x]
    BY PresenceAssumption DEF OpenConnection, PresenceInv, PresenceTypeOK
  <1>5. PresenceTypeOK'
    BY <1>1, <1>2, <1>3, <1>4 DEF OpenConnection, PresenceInv, PresenceTypeOK, ListsOfUsers
  <1>6. OpenedOnly'
    <2>1. \A x \in Devices : conn'[x] >= 1
      BY <1>4 DEF PresenceInv, OpenedOnly, PresenceTypeOK
    <2>2. ASSUME NEW x \in Conns, x \in allowed' \/ reports'[x] # <<>>
          PROVE  x[2] <= conn'[x[1]]
      <3>1. CASE x = c
        BY <1>1, <1>4, <3>1
      <3>2. CASE x # c
        <4>1. x[2] <= conn[x[1]] /\ x[1] \in Devices /\ x[2] \in Int
          BY <1>3, <2>2, <3>2 DEF OpenConnection, PresenceInv, OpenedOnly, Conns
        <4> QED BY <1>4, <4>1 DEF PresenceInv, PresenceTypeOK
      <3> QED BY <3>1, <3>2
    <2> QED BY <2>1, <2>2 DEF OpenedOnly
  <1> QED BY <1>5, <1>6 DEF OpenConnection, PresenceInv, SharersWereSharers

(* What is lost with the connection is not what was found allowed.         *)
LEMMA BreakStep == ASSUME PresenceInv, NEW d \in Devices, Break(d) PROVE PresenceInv'
  <1>1. /\ reports' \in [Conns -> Seq({"idle", "left"})]
        /\ \A c \in Conns : reports'[c] # <<>> => reports[c] # <<>>
        /\ \A c \in allowed : reports'[c] # <<>>
    <2>1. reports \in [Conns -> Seq({"idle", "left"})] /\ Current(d) \in Conns
      BY CurrentIsConn DEF PresenceInv, PresenceTypeOK
    <2>2. allowed \subseteq {c \in Conns : reports[c] # <<>>}
      BY DEF PresenceInv, PresenceTypeOK
    <2>3. CASE UNCHANGED reports
      BY <2>1, <2>2, <2>3
    <2>4. CASE reports' = [reports EXCEPT ![Current(d)] =
                             IF Current(d) \in allowed THEN <<Head(@)>> ELSE <<>>]
      <3>1. CASE Current(d) \in allowed
        <4>1. Head(reports[Current(d)]) \in {"idle", "left"}
          BY <2>1, <2>2, <3>1
        <4>2. /\ <<Head(reports[Current(d)])>> \in Seq({"idle", "left"})
              /\ <<Head(reports[Current(d)])>> # <<>>
          BY <4>1
        <4> QED BY <2>1, <2>2, <2>4, <3>1, <4>2
      <3>2. CASE Current(d) \notin allowed
        <4>1. <<>> \in Seq({"idle", "left"})
          OBVIOUS
        <4> QED BY <2>1, <2>2, <2>4, <3>2, <4>1
      <3> QED BY <3>1, <3>2
    <2> QED BY <2>3, <2>4 DEF Break
  <1>2. PresenceTypeOK'
    BY <1>1, PresenceAssumption DEF Break, PresenceInv, PresenceTypeOK, ListsOfUsers
  <1>3. OpenedOnly'
    BY <1>1 DEF Break, PresenceInv, OpenedOnly
  <1> QED BY <1>2, <1>3 DEF Break, PresenceInv, SharersWereSharers

-----------------------------------------------------------------------------
(* The hub. *)

(* Whatever is cleared, the entries that stay are of connections.         *)
LEMMA Cleared ==
  ASSUME PresenceInv, NEW C, Clear(C)
  PROVE  entries' \subseteq Conns /\ stale' \subseteq entries' /\ queued' \in BOOLEAN
  BY DEF PresenceInv, PresenceTypeOK, Clear

LEMMA HangUpStep == ASSUME PresenceInv, NEW c \in clients, HangUp(c) PROVE PresenceInv'
  <1>1. entries' \subseteq Conns /\ stale' \subseteq entries' /\ queued' \in BOOLEAN
    BY Cleared DEF HangUp
  <1> QED BY <1>1 DEF HangUp, deviceVars, PresenceInv, PresenceTypeOK, ListsOfUsers, OpenedOnly,
                      SharersWereSharers

LEMMA TakeUpStep == ASSUME PresenceInv, NEW c \in Conns, TakeUp(c) PROVE PresenceInv'
  <1>1. UNCHANGED <<sharers, closing, conn, online, viewing, shown, moves, breaks, clients, cast>>
    BY DEF TakeUp, deviceVars
  <1>2. CASE Head(reports[c]) = "idle" /\ Person(c) \in sharers
    BY <1>1, <1>2 DEF TakeUp, PresenceInv, PresenceTypeOK, ListsOfUsers, OpenedOnly, SharersWereSharers
  <1>3. CASE ~(Head(reports[c]) = "idle" /\ Person(c) \in sharers)
    <2>1. /\ reports' \in [Conns -> Seq({"idle", "left"})]
          /\ \A x \in Conns : reports'[x] # <<>> => reports[x] # <<>>
          /\ \A x \in allowed : reports'[x] # <<>>
      <3>1. reports \in [Conns -> Seq({"idle", "left"})] /\ reports[c] # <<>>
        BY DEF TakeUp, PresenceInv, PresenceTypeOK
      <3>2. Tail(reports[c]) \in Seq({"idle", "left"})
        BY <3>1
      <3> QED BY <1>3, <3>1, <3>2 DEF TakeUp, PresenceInv, PresenceTypeOK
    <2>2. entries' \subseteq Conns /\ stale' \subseteq entries' /\ queued' \in BOOLEAN
      <3>1. CASE Clear({c})
        BY <3>1, Cleared
      <3>2. CASE UNCHANGED <<entries, stale, queued>>
        BY <3>2 DEF PresenceInv, PresenceTypeOK
      <3> QED BY <1>3, <3>1, <3>2 DEF TakeUp
    <2>3. allowed' = allowed
      BY <1>3 DEF TakeUp
    <2> QED BY <1>1, <2>1, <2>2, <2>3
            DEF PresenceInv, PresenceTypeOK, ListsOfUsers, OpenedOnly, SharersWereSharers
  <1> QED BY <1>2, <1>3

LEMMA EnterStep == ASSUME PresenceInv, NEW c \in Conns, Enter(c) PROVE PresenceInv'
  <1>1. UNCHANGED <<sharers, closing, conn, online, viewing, shown, moves, breaks, clients, cast>>
    BY DEF Enter, deviceVars
  <1>2. reports \in [Conns -> Seq({"idle", "left"})] /\ reports[c] # <<>>
    BY DEF Enter, PresenceInv, PresenceTypeOK
  <1>3. Tail(reports[c]) \in Seq({"idle", "left"})
    BY <1>2
  <1>4. /\ reports' \in [Conns -> Seq({"idle", "left"})]
        /\ \A x \in Conns : reports'[x] # <<>> => reports[x] # <<>>
        /\ \A x \in allowed' : reports'[x] # <<>>
    BY <1>2, <1>3 DEF Enter, PresenceInv, PresenceTypeOK
  <1>5. /\ entries' \subseteq Conns /\ stale' \subseteq entries' /\ queued' \in BOOLEAN
        /\ allowed' \subseteq allowed
    BY DEF Enter, PresenceInv, PresenceTypeOK
  <1> QED BY <1>1, <1>4, <1>5
          DEF PresenceInv, PresenceTypeOK, ListsOfUsers, OpenedOnly, SharersWereSharers

(* The list is composed: its outsiders are those who have no access now.   *)
LEMMA ComposeStep == ASSUME PresenceInv, ComposeList PROVE PresenceInv'
  <1>1. {Person(c) : c \in entries} \subseteq People
    BY DEF PresenceInv, PresenceTypeOK, Person, People, Conns
  <1>2. /\ cast' \in Broadcasts
        /\ cast'.list.outsiders = People \ sharers
    BY <1>1 DEF ComposeList, Broadcasts, ListsOfUsers, PresenceInv, PresenceTypeOK
  <1> QED BY <1>2 DEF ComposeList, deviceVars, Broadcasts, PresenceInv, PresenceTypeOK, OpenedOnly,
                      SharersWereSharers

(* It is sent to a user whose access was looked up after that.             *)
LEMMA SendListStep == ASSUME PresenceInv, NEW u \in People, SendList(u) PROVE PresenceInv'
  <1>1. cast' \in Broadcasts /\ cast'.list = cast.list
    BY DEF SendList, PresenceInv, Broadcasts
  <1>2. shown' \in [Devices -> ListsOfUsers]
    BY DEF SendList, PresenceInv, PresenceTypeOK
  <1>3. ASSUME NEW d \in Devices PROVE UserOf[d] \notin shown'[d].outsiders
    <2>1. CASE shown'[d] = shown[d]
      BY <2>1 DEF PresenceInv
    <2>2. CASE shown'[d] = cast.list /\ Receives(Current(d))
      <3>1. UserOf[d] \in sharers
        BY <2>2 DEF Receives, Person, Current
      <3> QED BY <2>2, <3>1 DEF PresenceInv, SharersWereSharers
    <2> QED BY <2>1, <2>2 DEF SendList
  <1> QED BY <1>1, <1>2, <1>3 DEF SendList, Broadcasts, PresenceInv, PresenceTypeOK, OpenedOnly,
                                  SharersWereSharers

LEMMA EndCastStep == ASSUME PresenceInv, EndCast PROVE PresenceInv'
  <1>1. cast' \in Broadcasts /\ cast'.list.outsiders = {}
    BY DEF EndCast, NoCast, NoUsers, Broadcasts, ListsOfUsers
  <1> QED BY <1>1 DEF EndCast, deviceVars, Broadcasts, PresenceInv, PresenceTypeOK, ListsOfUsers,
                      OpenedOnly, SharersWereSharers

LEMMA GrowStaleStep == ASSUME PresenceInv, NEW c \in entries, GrowStale(c) PROVE PresenceInv'
  BY DEF GrowStale, deviceVars, PresenceInv, PresenceTypeOK, ListsOfUsers, OpenedOnly,
         SharersWereSharers

LEMMA SweepStep == ASSUME PresenceInv, Sweep PROVE PresenceInv'
  <1>1. entries' \subseteq Conns /\ stale' \subseteq entries' /\ queued' \in BOOLEAN
    BY Cleared DEF Sweep
  <1> QED BY <1>1 DEF Sweep, deviceVars, PresenceInv, PresenceTypeOK, ListsOfUsers, OpenedOnly,
                      SharersWereSharers

(* The access ends: fewer are sharers.                                     *)
LEMMA RevokeMemberStep == ASSUME PresenceInv, NEW u \in Revocable, RevokeMember(u) PROVE PresenceInv'
  BY DEF RevokeMember, deviceVars, hubVars, PresenceInv, PresenceTypeOK, ListsOfUsers, OpenedOnly,
         SharersWereSharers

(* And the device drops the note.                                          *)
LEMMA CloseNoteAccessStep == ASSUME PresenceInv, NEW u \in closing, CloseNoteAccess(u) PROVE PresenceInv'
  <1>1. entries' \subseteq Conns /\ stale' \subseteq entries' /\ queued' \in BOOLEAN
    BY Cleared DEF CloseNoteAccess
  <1>2. NoUsers \in ListsOfUsers /\ NoUsers.outsiders = {}
    BY DEF NoUsers, ListsOfUsers
  <1>3. /\ shown' \in [Devices -> ListsOfUsers]
        /\ \A d \in Devices : UserOf[d] \notin shown'[d].outsiders
    BY <1>2 DEF CloseNoteAccess, PresenceInv, PresenceTypeOK
  <1> QED BY <1>1, <1>3 DEF CloseNoteAccess, PresenceInv, PresenceTypeOK, OpenedOnly,
                            SharersWereSharers

-----------------------------------------------------------------------------
LEMMA PresenceKept == PresenceInv /\ [PresenceNext]_presenceVars => PresenceInv'
  <1> SUFFICES ASSUME PresenceInv, [PresenceNext]_presenceVars PROVE PresenceInv'
    OBVIOUS
  <1>1. CASE \E d \in Devices : DeviceStep(d)
    BY <1>1, ViewStep, LeaveStep, HeartbeatStep, OpenConnectionStep, BreakStep DEF DeviceStep
  <1>2. CASE \E u \in Revocable : RevokeMember(u)
    BY <1>2, RevokeMemberStep
  <1>3. CASE HubSteps
    BY <1>3, HangUpStep, CloseNoteAccessStep, TakeUpStep, EnterStep, ComposeStep, EndCastStep,
       SendListStep, SweepStep, GrowStaleStep DEF HubSteps
  <1>4. CASE UNCHANGED presenceVars
    BY <1>4 DEF presenceVars, deviceVars, hubVars, PresenceInv, PresenceTypeOK, ListsOfUsers,
                OpenedOnly, SharersWereSharers
  <1> QED BY <1>1, <1>2, <1>3, <1>4 DEF PresenceNext

(* The invariant holds in every behaviour of the hub and its devices       *)
(* (realtime/hub.ts).                                                      *)
THEOREM PresenceInvariance == PresenceSpec => []PresenceInv
  BY PresenceFirst, PresenceKept, PTL DEF PresenceSpec

(* For every number of devices, users and connections, nobody is sent a    *)
(* list composed after his access had ended: broadcastPresence looks up    *)
(* the access of each user after it has read the list (realtime/hub.ts).   *)
THEOREM RevokedAreNotTold == PresenceSpec => []RevokedNotTold
  <1>1. PresenceInv => RevokedNotTold
    BY DEF PresenceInv, RevokedNotTold
  <1> QED BY <1>1, PresenceInvariance, PTL
=============================================================================
