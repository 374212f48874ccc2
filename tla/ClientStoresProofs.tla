------------------------- MODULE ClientStoresProofs -------------------------
(***************************************************************************)
(* Proofs, for every value of the constants, about what a client keeps in  *)
(* its browser's stores: the outbox of encrypted updates and the index of  *)
(* its search.                                                             *)
(*                                                                         *)
(* EncryptedOutbox: for any number of tabs, updates and faults, a record   *)
(* leaves the store only when the server has its update, and only a flush  *)
(* in progress can undo a draft.  IInv is preserved by every step: one     *)
(* lemma per action, and under it one step per conjunct.                   *)
(*                                                                         *)
(* SearchIndex: SearchInv says that a record of the index holds every edit *)
(* up to its label, and that the session is ready only once the records    *)
(* of all sections are labelled with the sequences listed or later ones.   *)
(* The first leaves out what a list counted before an open section had it; *)
(* the second needs the batches, each of which takes the first sections    *)
(* that are due.                                                           *)
(***************************************************************************)
EXTENDS EncryptedOutbox, SearchIndex, WellFoundedInduction, FiniteSetTheorems, TLAPS

-----------------------------------------------------------------------------
(* EncryptedOutbox *)

LEMMA InitInvariant ==
  ASSUME Init
  PROVE  IInv
  <1>1. TypeOK
    <2>1. Idle \in Flushes /\ flush \in [Tabs -> Flushes]
      BY DEF Init, Idle, Flushes
    <2>2. records \in [Updates -> States] /\ lease \in Tabs \union {None}
      BY DEF Init, States
    <2>3. /\ editing \in [Tabs -> SUBSET Updates]
          /\ sent \in [Tabs -> SUBSET Updates]
          /\ replies \in [Tabs -> SUBSET Replies]
      BY DEF Init
    <2>4. faults \in 0..MaxFaults
      BY OutboxBounds, SMT DEF Init
    <2>6. fenced \in BOOLEAN
      BY DEF Init
    <2>5. /\ acknowledged \subseteq accepted /\ recent \subseteq Updates
          /\ transport \subseteq Tabs /\ active \subseteq Tabs
          /\ terminal \subseteq Tabs /\ timer \subseteq active \intersect transport
          /\ accepted \subseteq Updates
      BY DEF Init
    <2> QED
      BY <2>1, <2>2, <2>3, <2>4, <2>5, <2>6 DEF TypeOK
  <1>2. AcksTrue /\ CarriedKnown /\ EditsNew
    BY UpdatesAssumption
       DEF Init, AcksTrue, CarriedKnown, EditsNew, KnownUpdates, Present, Idle
  <1> QED
    BY <1>1, <1>2 DEF IInv

(* What the steps of a flush make of it is a flush again. *)
LEMMA FlushUpdates ==
  ASSUME NEW g \in Flushes, NEW place \in {"idle", "lease", "loop"} \union Updates,
         NEW u \in Updates, NEW p \in BOOLEAN
  PROVE  /\ [g EXCEPT !.at = place] \in Flushes
         /\ [g EXCEPT !.at = place, !.pending = p] \in Flushes
         /\ [g EXCEPT !.todo = @ \ {u}] \in Flushes
         /\ [g EXCEPT !.todo = @ \ {u}, !.pending = p] \in Flushes
         /\ [g EXCEPT !.todo = @ \ {u}, !.at = place] \in Flushes
  BY DEF Flushes

(* Activating the fence may turn every record into a draft, and adds none. *)
LEMMA EditInvariant ==
  ASSUME IInv, NEW t \in Tabs, NEW u \in Updates, Edit(t, u)
  PROVE  IInv'
  <1> USE UpdatesAssumption DEF Edit, IInv, serverVars, Unused, Rejected,
                                Preserved, Present, Notified
  <1>1. TypeOK'
    BY OutboxBounds DEF TypeOK, States, Flushes, Replies, Idle
  <1>2. KnownUpdates \subseteq KnownUpdates' /\ accepted \subseteq accepted'
    BY DEF TypeOK, AcksTrue, KnownUpdates, States
  <1>3. AcksTrue'
    BY <1>2 DEF TypeOK, AcksTrue, Replies
  <1>4. CarriedKnown'
    BY <1>2 DEF TypeOK, CarriedKnown, KnownUpdates, Flushes, Idle
  <1>5. EditsNew'
    BY <1>2 DEF TypeOK, EditsNew, KnownUpdates, CarriedKnown, AcksTrue, States
  <1> QED
    BY <1>1, <1>3, <1>4, <1>5

(* The stored record stops being an edit on its way. *)
LEMMA EnqueueInvariant ==
  ASSUME IInv, NEW t \in Tabs, NEW u \in Updates, Enqueue(t, u)
  PROVE  IInv'
  <1> USE UpdatesAssumption DEF Enqueue, IInv, serverVars, Present, Notified
  <1>1. TypeOK'
    BY OutboxBounds DEF TypeOK, States, Flushes, Replies, Idle
  <1>2. KnownUpdates \subseteq KnownUpdates' /\ accepted \subseteq accepted'
    BY DEF TypeOK, AcksTrue, KnownUpdates, States
  <1>3. AcksTrue'
    BY <1>2 DEF TypeOK, AcksTrue, Replies
  <1>4. CarriedKnown'
    BY <1>2 DEF TypeOK, CarriedKnown, KnownUpdates, Flushes, Idle
  <1>5. EditsNew'
    BY <1>2 DEF TypeOK, EditsNew, KnownUpdates, CarriedKnown, AcksTrue, States
  <1> QED
    BY <1>1, <1>3, <1>4, <1>5

(* A flush carries records it read from the store. *)
LEMMA StartFlushInvariant ==
  ASSUME IInv, NEW t \in Tabs, StartFlush(t)
  PROVE  IInv'
  <1> USE UpdatesAssumption DEF StartFlush, IInv, storeVars, serverVars, Live,
                                Rejected, Present
  <1>1. TypeOK'
    BY OutboxBounds DEF TypeOK, States, Flushes, Replies, Idle
  <1>2. KnownUpdates \subseteq KnownUpdates' /\ accepted \subseteq accepted'
    BY DEF TypeOK, AcksTrue, KnownUpdates, States
  <1>3. AcksTrue'
    BY <1>2 DEF TypeOK, AcksTrue, Replies
  <1>4. CarriedKnown'
    BY <1>2 DEF TypeOK, CarriedKnown, KnownUpdates, Flushes, Idle
  <1>5. EditsNew'
    BY <1>2 DEF TypeOK, EditsNew, KnownUpdates, CarriedKnown, AcksTrue, States
  <1> QED
    BY <1>1, <1>3, <1>4, <1>5

(* The lease is taken, or another attempt scheduled. *)
LEMMA AcquireLeaseInvariant ==
  ASSUME IInv, NEW t \in Tabs, AcquireLease(t)
  PROVE  IInv'
  <1> USE UpdatesAssumption DEF AcquireLease, IInv, serverVars, Notified,
                                Present
  <1>0. flush' \in [Tabs -> Flushes]
    <2>1. flush[t] \in Flushes /\ flush \in [Tabs -> Flushes]
      BY DEF TypeOK
    <2>2. [flush[t] EXCEPT !.at = "loop"] \in Flushes /\ Idle \in Flushes
      BY <2>1, FlushUpdates DEF Flushes, Idle
    <2> QED
      BY <2>1, <2>2
  <1>1. TypeOK'
    BY <1>0 DEF TypeOK
  <1>2. KnownUpdates \subseteq KnownUpdates' /\ accepted \subseteq accepted'
    BY DEF TypeOK, AcksTrue, KnownUpdates, States
  <1>3. AcksTrue'
    BY <1>2 DEF TypeOK, AcksTrue, Replies
  <1>4. CarriedKnown'
    <2>1. \A s \in Tabs : /\ flush'[s].todo \subseteq flush[s].todo
                          /\ flush'[s].at \in Updates => flush'[s].at = flush[s].at
      <3>1. CASE flush' = [flush EXCEPT ![t].at = "loop"]
        BY <3>1 DEF TypeOK, Flushes
      <3>2. CASE flush' = [flush EXCEPT ![t] = Idle]
        BY <3>2 DEF TypeOK, Idle
      <3> QED
        BY <3>1, <3>2
    <2> QED
      BY <1>2, <2>1 DEF CarriedKnown
  <1>5. EditsNew'
    BY <1>2 DEF TypeOK, EditsNew, KnownUpdates, CarriedKnown, AcksTrue, States
  <1> QED
    BY <1>1, <1>3, <1>4, <1>5

(* A record is removed from the store only when it is acknowledged. *)
LEMMA NextRecordInvariant ==
  ASSUME IInv, NEW t \in Tabs, NEW u \in Updates, NEW f \in BOOLEAN, NextRecord(t, u, f)
  PROVE  IInv'
  <1> USE UpdatesAssumption DEF NextRecord, IInv, serverVars, Cleaned, Present
  <1>0. flush' \in [Tabs -> Flushes]
    <2>1. flush[t] \in Flushes /\ flush \in [Tabs -> Flushes]
      BY DEF TypeOK
    <2>2. /\ [flush[t] EXCEPT !.todo = @ \ {u}] \in Flushes
          /\ [flush[t] EXCEPT !.todo = @ \ {u}, !.pending = TRUE] \in Flushes
          /\ [flush[t] EXCEPT !.todo = @ \ {u}, !.at = u] \in Flushes
      BY <2>1, FlushUpdates
    <2> QED
      BY <2>1, <2>2
  <1>1. TypeOK'
    BY <1>0 DEF TypeOK, States
  <1>2. KnownUpdates \subseteq KnownUpdates' /\ accepted \subseteq accepted'
    BY DEF TypeOK, AcksTrue, KnownUpdates, States
  <1>3. AcksTrue'
    BY <1>2 DEF TypeOK, AcksTrue, Replies
  <1>4. CarriedKnown'
    <2>1. u \in KnownUpdates
      BY DEF TypeOK, CarriedKnown
    <2>2. \A s \in Tabs : /\ flush'[s].todo \subseteq flush[s].todo
                          /\ flush'[s].at \in {flush[s].at, u}
      <3>1. CASE flush' = [flush EXCEPT ![t].todo = @ \ {u}]
        BY <3>1 DEF TypeOK, Flushes
      <3>2. CASE flush' = [flush EXCEPT ![t].todo = @ \ {u}, ![t].pending = TRUE]
        BY <3>2 DEF TypeOK, Flushes
      <3>3. CASE flush' = [flush EXCEPT ![t].todo = @ \ {u}, ![t].at = u]
        BY <3>3 DEF TypeOK, Flushes
      <3> QED
        BY <3>1, <3>2, <3>3
    <2> QED
      BY <1>2, <2>1, <2>2 DEF TypeOK, CarriedKnown
  <1>5. EditsNew'
    BY <1>2 DEF TypeOK, EditsNew, KnownUpdates, CarriedKnown, AcksTrue, States
  <1> QED
    BY <1>1, <1>3, <1>4, <1>5

(* The record that is put back was known before. *)
LEMMA SendInvariant ==
  ASSUME IInv, NEW t \in Tabs, NEW u \in Updates, Send(t, u)
  PROVE  IInv'
  <1> USE UpdatesAssumption DEF Send, IInv, Notified, Present
  <1>0. flush' \in [Tabs -> Flushes]
    <2>1. flush[t] \in Flushes /\ flush \in [Tabs -> Flushes]
      BY DEF TypeOK
    <2> DEFINE out == t \in active \intersect transport
               new == [flush[t] EXCEPT !.at = "loop", !.pending = @ \/ out]
    <2>2. new \in Flushes
      BY <2>1 DEF Flushes
    <2>3. flush' = [flush EXCEPT ![t] = new]
      BY <2>1
    <2> QED
      BY <2>1, <2>2, <2>3
  <1>1. TypeOK'
    BY <1>0 DEF TypeOK, States
  <1>2. KnownUpdates \subseteq KnownUpdates' /\ accepted \subseteq accepted'
    BY DEF TypeOK, AcksTrue, KnownUpdates, States
  <1>3. AcksTrue'
    BY <1>2 DEF TypeOK, AcksTrue, Replies
  <1>4. CarriedKnown'
    BY <1>2 DEF TypeOK, CarriedKnown, KnownUpdates, Flushes, Idle
  <1>5. EditsNew'
    BY <1>2 DEF TypeOK, EditsNew, KnownUpdates, CarriedKnown, AcksTrue, States
  <1> QED
    BY <1>1, <1>3, <1>4, <1>5

(* The end of a flush touches only the timer. *)
LEMMA FinishFlushInvariant ==
  ASSUME IInv, NEW t \in Tabs, FinishFlush(t)
  PROVE  IInv'
  <1> USE UpdatesAssumption DEF FinishFlush, IInv, storeVars, serverVars,
                                Notified, Present
  <1>1. TypeOK'
    BY OutboxBounds DEF TypeOK, States, Flushes, Replies, Idle
  <1>2. KnownUpdates \subseteq KnownUpdates' /\ accepted \subseteq accepted'
    BY DEF TypeOK, AcksTrue, KnownUpdates, States
  <1>3. AcksTrue'
    BY <1>2 DEF TypeOK, AcksTrue, Replies
  <1>4. CarriedKnown'
    BY <1>2 DEF TypeOK, CarriedKnown, KnownUpdates, Flushes, Idle
  <1>5. EditsNew'
    BY <1>2 DEF TypeOK, EditsNew, KnownUpdates, CarriedKnown, AcksTrue, States
  <1> QED
    BY <1>1, <1>3, <1>4, <1>5

(* An acknowledgement is sent for what was accepted. *)
LEMMA ServeInvariant ==
  ASSUME IInv, NEW t \in Tabs, NEW u \in Updates, Serve(t, u)
  PROVE  IInv'
  <1> USE UpdatesAssumption DEF Serve, IInv, storeVars, tabVars, Present
  <1>1. TypeOK'
    BY OutboxBounds DEF TypeOK, States, Flushes, Replies, Idle
  <1>2. KnownUpdates \subseteq KnownUpdates' /\ accepted \subseteq accepted'
    BY DEF TypeOK, AcksTrue, KnownUpdates, States
  <1>3. AcksTrue'
    BY <1>2 DEF TypeOK, AcksTrue, Replies
  <1>4. CarriedKnown'
    BY <1>2 DEF TypeOK, CarriedKnown, KnownUpdates, Flushes, Idle
  <1>5. EditsNew'
    BY <1>2 DEF TypeOK, EditsNew, KnownUpdates, CarriedKnown, AcksTrue, States
  <1> QED
    BY <1>1, <1>3, <1>4, <1>5

(* A temporary refusal loses a frame. *)
LEMMA RefuseForNowInvariant ==
  ASSUME IInv, NEW t \in Tabs, NEW u \in Updates, RefuseForNow(t, u)
  PROVE  IInv'
  <1> USE UpdatesAssumption DEF RefuseForNow, IInv, storeVars, tabVars, Present
  <1>1. TypeOK'
    BY OutboxBounds DEF TypeOK, States, Flushes, Replies, Idle
  <1>2. KnownUpdates \subseteq KnownUpdates' /\ accepted \subseteq accepted'
    BY DEF TypeOK, AcksTrue, KnownUpdates, States
  <1>3. AcksTrue'
    BY <1>2 DEF TypeOK, AcksTrue, Replies
  <1>4. CarriedKnown'
    BY <1>2 DEF TypeOK, CarriedKnown, KnownUpdates, Flushes, Idle
  <1>5. EditsNew'
    BY <1>2 DEF TypeOK, EditsNew, KnownUpdates, CarriedKnown, AcksTrue, States
  <1> QED
    BY <1>1, <1>3, <1>4, <1>5

(* The refusal by itself changes no record. *)
LEMMA FenceInvariant ==
  ASSUME IInv, Fence
  PROVE  IInv'
  <1> USE UpdatesAssumption DEF Fence, IInv, storeVars, tabVars, Present
  <1>1. TypeOK'
    BY OutboxBounds DEF TypeOK, States, Flushes, Replies, Idle
  <1>2. KnownUpdates \subseteq KnownUpdates' /\ accepted \subseteq accepted'
    BY DEF TypeOK, AcksTrue, KnownUpdates, States
  <1>3. AcksTrue'
    BY <1>2 DEF TypeOK, AcksTrue, Replies
  <1>4. CarriedKnown'
    BY <1>2 DEF TypeOK, CarriedKnown, KnownUpdates, Flushes, Idle
  <1>5. EditsNew'
    BY <1>2 DEF TypeOK, EditsNew, KnownUpdates, CarriedKnown, AcksTrue, States
  <1> QED
    BY <1>1, <1>3, <1>4, <1>5

(* The acknowledged record was accepted. *)
LEMMA ReceiveAckInvariant ==
  ASSUME IInv, NEW t \in Tabs, NEW u \in Updates, NEW f \in BOOLEAN, ReceiveAck(t, u, f)
  PROVE  IInv'
  <1> USE UpdatesAssumption DEF ReceiveAck, IInv, tabVars, Cleaned, Present
  <1>1. TypeOK'
    BY DEF TypeOK, AcksTrue, States, Replies
  <1>2. KnownUpdates \subseteq KnownUpdates' /\ accepted \subseteq accepted'
    BY DEF TypeOK, AcksTrue, KnownUpdates, States
  <1>3. AcksTrue'
    BY <1>2 DEF TypeOK, AcksTrue, Replies
  <1>4. CarriedKnown'
    BY <1>2 DEF TypeOK, CarriedKnown, KnownUpdates, Flushes, Idle
  <1>5. EditsNew'
    BY <1>2 DEF TypeOK, EditsNew, KnownUpdates, CarriedKnown, AcksTrue, States
  <1> QED
    BY <1>1, <1>3, <1>4, <1>5

(* A rejection turns records into drafts and removes none. *)
LEMMA ReceiveRejectInvariant ==
  ASSUME IInv, NEW t \in Tabs, NEW u \in Updates, ReceiveReject(t, u)
  PROVE  IInv'
  <1> USE UpdatesAssumption DEF ReceiveReject, IInv, Preserved, Present,
                                Notified
  <1>1. TypeOK'
    BY OutboxBounds DEF TypeOK, States, Flushes, Replies, Idle
  <1>2. KnownUpdates \subseteq KnownUpdates' /\ accepted \subseteq accepted'
    BY DEF TypeOK, AcksTrue, KnownUpdates, States
  <1>3. AcksTrue'
    BY <1>2 DEF TypeOK, AcksTrue, Replies
  <1>4. CarriedKnown'
    BY <1>2 DEF TypeOK, CarriedKnown, KnownUpdates, Flushes, Idle
  <1>5. EditsNew'
    BY <1>2 DEF TypeOK, EditsNew, KnownUpdates, CarriedKnown, AcksTrue, States
  <1> QED
    BY <1>1, <1>3, <1>4, <1>5

LEMMA ExpireLeaseInvariant ==
  ASSUME IInv, ExpireLease
  PROVE  IInv'
  <1> USE UpdatesAssumption DEF ExpireLease, IInv, tabVars, serverVars, Present
  <1>1. TypeOK'
    BY OutboxBounds DEF TypeOK, States, Flushes, Replies, Idle
  <1>2. KnownUpdates \subseteq KnownUpdates' /\ accepted \subseteq accepted'
    BY DEF TypeOK, AcksTrue, KnownUpdates, States
  <1>3. AcksTrue'
    BY <1>2 DEF TypeOK, AcksTrue, Replies
  <1>4. CarriedKnown'
    BY <1>2 DEF TypeOK, CarriedKnown, KnownUpdates, Flushes, Idle
  <1>5. EditsNew'
    BY <1>2 DEF TypeOK, EditsNew, KnownUpdates, CarriedKnown, AcksTrue, States
  <1> QED
    BY <1>1, <1>3, <1>4, <1>5

LEMMA RetryDueInvariant ==
  ASSUME IInv, NEW u \in Updates, RetryDue(u)
  PROVE  IInv'
  <1> USE UpdatesAssumption DEF RetryDue, IInv, tabVars, serverVars, Present
  <1>1. TypeOK'
    BY OutboxBounds DEF TypeOK, States, Flushes, Replies, Idle
  <1>2. KnownUpdates \subseteq KnownUpdates' /\ accepted \subseteq accepted'
    BY DEF TypeOK, AcksTrue, KnownUpdates, States
  <1>3. AcksTrue'
    BY <1>2 DEF TypeOK, AcksTrue, Replies
  <1>4. CarriedKnown'
    BY <1>2 DEF TypeOK, CarriedKnown, KnownUpdates, Flushes, Idle
  <1>5. EditsNew'
    BY <1>2 DEF TypeOK, EditsNew, KnownUpdates, CarriedKnown, AcksTrue, States
  <1> QED
    BY <1>1, <1>3, <1>4, <1>5

(* What was on its way is lost; the store is not. *)
LEMMA DisconnectInvariant ==
  ASSUME IInv, NEW t \in Tabs, Disconnect(t)
  PROVE  IInv'
  <1> USE UpdatesAssumption DEF Disconnect, IInv, storeVars, Present
  <1>1. TypeOK'
    BY OutboxBounds DEF TypeOK, States, Flushes, Replies, Idle
  <1>2. KnownUpdates \subseteq KnownUpdates' /\ accepted \subseteq accepted'
    BY DEF TypeOK, AcksTrue, KnownUpdates, States
  <1>3. AcksTrue'
    BY <1>2 DEF TypeOK, AcksTrue, Replies
  <1>4. CarriedKnown'
    BY <1>2 DEF TypeOK, CarriedKnown, KnownUpdates, Flushes, Idle
  <1>5. EditsNew'
    BY <1>2 DEF TypeOK, EditsNew, KnownUpdates, CarriedKnown, AcksTrue, States
  <1> QED
    BY <1>1, <1>3, <1>4, <1>5

(* A new outbox object starts from the store. *)
LEMMA ConnectInvariant ==
  ASSUME IInv, NEW t \in Tabs, Connect(t)
  PROVE  IInv'
  <1> USE UpdatesAssumption DEF Connect, IInv, serverVars, Rejected, Preserved,
                                Present, Notified
  <1>1. TypeOK'
    BY OutboxBounds DEF TypeOK, States, Flushes, Replies, Idle
  <1>2. KnownUpdates \subseteq KnownUpdates' /\ accepted \subseteq accepted'
    BY DEF TypeOK, AcksTrue, KnownUpdates, States
  <1>3. AcksTrue'
    BY <1>2 DEF TypeOK, AcksTrue, Replies
  <1>4. CarriedKnown'
    BY <1>2 DEF TypeOK, CarriedKnown, KnownUpdates, Flushes, Idle
  <1>5. EditsNew'
    BY <1>2 DEF TypeOK, EditsNew, KnownUpdates, CarriedKnown, AcksTrue, States
  <1> QED
    BY <1>1, <1>3, <1>4, <1>5

(* The invariant holds in every state. *)
LEMMA NextInvariant ==
  ASSUME IInv, [Next]_vars
  PROVE  IInv'
  <1>1. CASE Next
    BY <1>1, EditInvariant, EnqueueInvariant, StartFlushInvariant,
       AcquireLeaseInvariant, NextRecordInvariant, SendInvariant,
       FinishFlushInvariant, ServeInvariant, RefuseForNowInvariant,
       FenceInvariant, ReceiveAckInvariant, ReceiveRejectInvariant,
       ExpireLeaseInvariant, RetryDueInvariant, DisconnectInvariant,
       ConnectInvariant
       DEF Next, FlushStep, ReplyStep
  <1>2. CASE UNCHANGED vars
    BY <1>2 DEF vars, storeVars, tabVars, serverVars, IInv, TypeOK, AcksTrue,
                CarriedKnown, EditsNew, KnownUpdates, Present
  <1> QED
    BY <1>1, <1>2

(* The strengthened invariant: acknowledgements are true, what a flush or a *)
(* frame carries was stored, and an edit is enqueued once.                 *)
THEOREM OutboxInvariance == Spec => []IInv
  <1>1. Init => IInv
    BY InitInvariant
  <1>2. IInv /\ [Next]_vars => IInv'
    BY NextInvariant
  <1> QED
    BY <1>1, <1>2, PTL DEF Spec

(* The variables keep their types whatever tabs, server and network do. *)
THEOREM OutboxTyped == Spec => []TypeOK
  <1>1. IInv => TypeOK
    BY DEF IInv
  <1> QED
    BY <1>1, OutboxInvariance, PTL

-----------------------------------------------------------------------------
(* What a step does to one record. *)

(* Only an acknowledged update's record goes away: NextRecord and          *)
(* ReceiveAck are the only steps that delete.                              *)
LEMMA Deletion ==
  ASSUME IInv, [Next]_vars, NEW u \in Updates,
         records[u] # "absent", records'[u] = "absent"
  PROVE  u \in accepted
  <1> USE DEF IInv, TypeOK, States, Preserved, Present, storeVars, tabVars,
              serverVars
  <1>1. CASE Next
    <2>1. CASE \E t \in Tabs, v \in Updates :
                 Edit(t, v) \/ Enqueue(t, v) \/ Serve(t, v) \/ RefuseForNow(t, v)
      BY <2>1 DEF Edit, Enqueue, Serve, RefuseForNow
    <2>2. CASE \E t \in Tabs :
                 \/ StartFlush(t) \/ AcquireLease(t) \/ FinishFlush(t)
                 \/ Disconnect(t) \/ Connect(t)
      BY <2>2 DEF StartFlush, AcquireLease, FinishFlush, Disconnect, Connect
    <2>3. CASE \E t \in Tabs, v \in Updates : Send(t, v) \/ ReceiveReject(t, v)
      BY <2>3 DEF Send, ReceiveReject
    <2>4. CASE \E t \in Tabs, v \in Updates, f \in BOOLEAN : NextRecord(t, v, f)
      BY <2>4 DEF NextRecord, Cleaned
    <2>5. CASE \E t \in Tabs, v \in Updates, f \in BOOLEAN : ReceiveAck(t, v, f)
      BY <2>5 DEF ReceiveAck, Cleaned, AcksTrue, Replies
    <2>6. CASE ExpireLease \/ Fence \/ \E v \in Updates : RetryDue(v)
      BY <2>6 DEF ExpireLease, Fence, RetryDue
    <2> QED
      BY <1>1, <2>1, <2>2, <2>3, <2>4, <2>5, <2>6 DEF Next, FlushStep, ReplyStep
  <1>2. CASE UNCHANGED vars
    BY <1>2 DEF vars
  <1> QED
    BY <1>1, <1>2

(* A draft changes only when a flush puts back what it had read. *)
LEMMA DraftChange ==
  ASSUME IInv, [Next]_vars, NEW u \in Updates,
         records[u] = "terminal-rejected", records'[u] # "terminal-rejected"
  PROVE  \E t \in Tabs : flush[t].at = u
  <1> USE DEF IInv, TypeOK, States, Preserved, Present, storeVars, tabVars,
              serverVars
  <1>1. CASE Next
    <2>1. CASE \E t \in Tabs, v \in Updates :
                 Edit(t, v) \/ Serve(t, v) \/ RefuseForNow(t, v)
      BY <2>1 DEF Edit, Serve, RefuseForNow
    <2>2. CASE \E t \in Tabs, v \in Updates : Enqueue(t, v)
      BY <2>2 DEF Enqueue, EditsNew, KnownUpdates
    <2>3. CASE \E t \in Tabs :
                 \/ StartFlush(t) \/ AcquireLease(t) \/ FinishFlush(t)
                 \/ Disconnect(t) \/ Connect(t)
      BY <2>3 DEF StartFlush, AcquireLease, FinishFlush, Disconnect, Connect
    <2>4. CASE \E t \in Tabs, v \in Updates : Send(t, v) \/ ReceiveReject(t, v)
      BY <2>4 DEF Send, ReceiveReject
    <2>5. CASE \E t \in Tabs, v \in Updates, f \in BOOLEAN :
                 NextRecord(t, v, f) \/ ReceiveAck(t, v, f)
      BY <2>5 DEF NextRecord, ReceiveAck, Cleaned
    <2>6. CASE ExpireLease \/ Fence \/ \E v \in Updates : RetryDue(v)
      BY <2>6 DEF ExpireLease, Fence, RetryDue
    <2> QED
      BY <1>1, <2>1, <2>2, <2>3, <2>4, <2>5, <2>6 DEF Next, FlushStep, ReplyStep
  <1>2. CASE UNCHANGED vars
    BY <1>2 DEF vars
  <1> QED
    BY <1>1, <1>2

(* No edit is lost: a record leaves the outbox only once the server has    *)
(* stored its update.                                                      *)
THEOREM NoEditLost == Spec => KeptUntilAccepted
  <1>1. IInv /\ [Next]_vars =>
          [\A u \in Updates : records[u] # "absent" /\ records'[u] = "absent"
             => u \in accepted]_vars
    BY Deletion
  <1> QED
    BY <1>1, OutboxInvariance, PTL DEF Spec, KeptUntilAccepted

(* The only way to lose a draft is the stale write of flushFence. *)
THEOREM DraftsSafeFromReplies == Spec => DraftsOutliveReplies
  <1>1. IInv /\ [Next]_vars =>
          [\A u \in Updates :
             records[u] = "terminal-rejected" /\ records'[u] # "terminal-rejected"
               => \E t \in Tabs : flush[t].at = u]_vars
    BY DraftChange
  <1> QED
    BY <1>1, OutboxInvariance, PTL DEF Spec, DraftsOutliveReplies

-----------------------------------------------------------------------------
(* SearchIndex *)

Loads == [section : Sections, label : Labels]
Tasks == [at : Stages, batch : Seq(Loads), lost : BOOLEAN, query : BOOLEAN]
Records ==
  [section : Sections, label : Labels, edits : SUBSET Edits, writer : Writers]

BindingTypes ==
  /\ stored \in [Sections -> Labels]
  /\ doc \in [Sections -> SUBSET Edits] /\ observed \in [Sections -> Labels]
  /\ \A s \in Sections : doc[s] \subseteq 1..stored[s] /\ observed[s] <= stored[s]
  /\ holder \in [Sections -> Writers] /\ synced \subseteq OpenSections

SessionTypes ==
  /\ target \in [Sections -> Labels \union {Unindexed}]
  /\ listed \in [Sections -> Labels \union {Unindexed}]
  /\ unseen \in [Sections -> SUBSET Edits]
  /\ dirty \subseteq Sections
  /\ task \in Tasks /\ Len(task.batch) <= BatchSize

StoreTypes ==
  /\ index \in [Sections -> [label : Labels \union {Unindexed}, edits : SUBSET Edits]]
  /\ writes \subseteq Records

CountTypes ==
  counts \in [searches : 0..MaxSearches, moves : 0..MaxSwitches, faults : 0..MaxFailures]

(* A target is between what was listed and what the server has.            *)
TargetsKnown ==
  /\ \A s \in Sections : listed[s] <= target[s] /\ target[s] <= stored[s]
  /\ \A s \in dirty : target[s] # Unindexed

(* Loads are under way while there is a batch, none for more than a target. *)
LoadsKnown ==
  /\ task.at \in {"loading", "waiting", "writing"} <=> task.batch # <<>>
  /\ \A i \in DOMAIN task.batch :
       task.batch[i].label <= target[task.batch[i].section]

(* A synced document has every edit up to the sequence, and up to the      *)
(* target those that a list has not counted too soon.                      *)
DocsHaveTargets ==
  \A s \in synced : /\ 1..observed[s] \subseteq doc[s]
                    /\ 1..target[s] \subseteq doc[s] \union unseen[s]

(* So has a record, up to its label.                                       *)
RecordsHaveLabels ==
  /\ \A w \in writes : 1..w.label \subseteq w.edits \union unseen[w.section]
  /\ \A s \in Sections : 1..index[s].label \subseteq index[s].edits \union unseen[s]

ListedIndexed ==
  task.at = "ready" => \A s \in Sections : listed[s] <= index[s].label

SearchInv ==
  /\ BindingTypes /\ SessionTypes /\ StoreTypes /\ CountTypes
  /\ TargetsKnown /\ LoadsKnown /\ ListedIndexed
  /\ DocsHaveTargets /\ RecordsHaveLabels

-----------------------------------------------------------------------------
LEMMA SearchBounds ==
  /\ MaxEdits \in Nat /\ MaxSearches \in Nat /\ MaxSwitches \in Nat /\ MaxFailures \in Nat
  /\ BatchSize \in Nat /\ BatchSize >= 1
  BY SearchAssumption

LEMMA SearchTypes == SearchInv => SearchTypeOK
  <1> SUFFICES ASSUME SearchInv PROVE SearchTypeOK
    OBVIOUS
  <1>1. \A s \in Sections : doc[s] \subseteq 1..stored[s] /\ observed[s] \in 0..stored[s]
    BY SearchBounds DEF SearchInv, BindingTypes, Labels
  <1>2. \A w \in writes : w.writer \in Writers /\ w.edits \subseteq Edits
    BY DEF SearchInv, StoreTypes, Records
  <1>3. task.at \in Stages
    BY DEF SearchInv, SessionTypes, Tasks
  <1> QED
    BY <1>1, <1>2, <1>3
       DEF SearchInv, BindingTypes, SessionTypes, StoreTypes, CountTypes, SearchTypeOK

LEMMA SearchInitHolds == SearchInit => SearchInv
  <1> SUFFICES ASSUME SearchInit PROVE SearchInv
    OBVIOUS
  <1>1. 0 \in Labels
    BY SearchBounds DEF Labels
  <1>2. BindingTypes
    BY <1>1 DEF SearchInit, BindingTypes, OpenSections, Writers
  <1>3. NoTask \in Tasks /\ NoTask.batch = <<>> /\ NoTask.at = "off"
    BY DEF NoTask, Tasks, Stages
  <1>4. SessionTypes
    BY <1>1, <1>3, SearchBounds DEF SearchInit, SessionTypes
  <1>5. StoreTypes
    BY DEF SearchInit, StoreTypes
  <1>6. CountTypes
    BY SearchBounds DEF SearchInit, CountTypes
  <1>7. TargetsKnown
    BY DEF SearchInit, TargetsKnown, Unindexed
  <1>8. LoadsKnown /\ ListedIndexed
    BY <1>3 DEF SearchInit, LoadsKnown, ListedIndexed
  <1>9. DocsHaveTargets /\ RecordsHaveLabels
    BY DEF SearchInit, DocsHaveTargets, RecordsHaveLabels, Unindexed
  <1> QED BY <1>2, <1>4, <1>5, <1>6, <1>7, <1>8, <1>9 DEF SearchInv

(* A counter stays within its bound.                                       *)
LEMMA Counted ==
  ASSUME CountTypes, NEW what \in {"searches", "moves", "faults"},
         NEW bound, bound = CASE what = "searches" -> MaxSearches
                              [] what = "moves" -> MaxSwitches
                              [] what = "faults" -> MaxFailures,
         Count(what, bound)
  PROVE  CountTypes'
  BY SearchBounds DEF Count, CountTypes

-----------------------------------------------------------------------------
(* What a change of a section may do to the targets: raise its own, as far *)
(* as the sequence it was told of.                                         *)
TargetsRaised(s, sequence) ==
  /\ target' \in [Sections -> Labels \union {Unindexed}]
  /\ \A t \in Sections : target[t] <= target'[t]
  /\ \A t \in Sections \ {s} : target'[t] = target[t]
  /\ target'[s] = target[s] \/ target'[s] = sequence
  /\ dirty' \subseteq Sections
  /\ \A t \in dirty' : target'[t] # Unindexed

LEMMA NotifyRaises ==
  ASSUME SearchInv, NEW s \in Sections, NEW sequence \in Labels, Notify(s, sequence)
  PROVE  TargetsRaised(s, sequence)
  <1>1. target \in [Sections -> Labels \union {Unindexed}] /\ dirty \subseteq Sections
    BY DEF SearchInv, SessionTypes
  <1>2. \A t \in dirty : target[t] # Unindexed
    BY DEF SearchInv, TargetsKnown
  <1>3. \A n \in Labels \union {Unindexed} : n \in Int /\ (n # Unindexed => n >= 0)
    BY SearchBounds DEF Labels, Unindexed
  <1>4. CASE target[s] = Unindexed
    BY <1>1, <1>2, <1>3, <1>4 DEF Notify, TargetsRaised
  <1>5. CASE target[s] # Unindexed
    <2>1. /\ target' = [target EXCEPT ![s] = IF sequence > @ THEN sequence ELSE @]
          /\ dirty' = dirty \union {s}
      BY <1>5 DEF Notify
    <2>2. target'[s] = IF sequence > target[s] THEN sequence ELSE target[s]
      BY <1>1, <2>1
    <2>3. target'[s] \in Labels /\ target[s] <= target'[s]
      BY <1>1, <1>3, <1>5, <2>2
    <2>4. target'[s] # Unindexed
      BY <1>3, <1>5, <2>2, <2>3, <1>1 DEF Unindexed, Labels
    <2> QED BY <1>1, <1>2, <1>3, <2>1, <2>2, <2>3, <2>4 DEF TargetsRaised
  <1> QED BY <1>4, <1>5

(* Raised targets keep what the session knows.                             *)
LEMMA RaisedKeeps ==
  ASSUME SearchInv, NEW s \in Sections, NEW sequence \in Labels, TargetsRaised(s, sequence),
         stored' \in [Sections -> Labels],
         \A t \in Sections : stored[t] <= stored'[t],
         sequence <= stored'[s], UNCHANGED <<listed, unseen, task>>
  PROVE  SessionTypes' /\ TargetsKnown' /\ LoadsKnown'
  <1>1. \A n \in Labels \union {Unindexed} : n \in Int
    BY SearchBounds DEF Labels, Unindexed
  <1>2. SessionTypes'
    BY DEF SearchInv, SessionTypes, TargetsRaised
  <1>3. TargetsKnown'
    <2> SUFFICES ASSUME NEW t \in Sections
                 PROVE  listed'[t] <= target'[t] /\ target'[t] <= stored'[t]
      BY DEF TargetsKnown, TargetsRaised
    <2>1. /\ listed[t] \in Int /\ target[t] \in Int /\ target'[t] \in Int
          /\ stored[t] \in Int /\ stored'[t] \in Int /\ sequence \in Int
      BY <1>1 DEF SearchInv, SessionTypes, BindingTypes, TargetsRaised
    <2>2. listed[t] <= target[t] /\ target[t] <= stored[t]
      BY DEF SearchInv, TargetsKnown
    <2>3. target[t] <= target'[t] /\ (target'[t] = target[t] \/ (t = s /\ target'[t] = sequence))
      BY DEF TargetsRaised
    <2> QED BY <2>1, <2>2, <2>3
  <1>4. LoadsKnown'
    <2> SUFFICES ASSUME NEW i \in DOMAIN task.batch
                 PROVE  task.batch[i].label <= target'[task.batch[i].section]
      BY DEF SearchInv, LoadsKnown
    <2>1. task.batch[i] \in Loads
      BY DEF SearchInv, SessionTypes, Tasks
    <2>2. task.batch[i].section \in Sections /\ task.batch[i].label \in Int
      BY <2>1, <1>1 DEF Loads
    <2>3. task.batch[i].label <= target[task.batch[i].section]
      BY DEF SearchInv, LoadsKnown
    <2>4. /\ target[task.batch[i].section] \in Int /\ target'[task.batch[i].section] \in Int
          /\ target[task.batch[i].section] <= target'[task.batch[i].section]
      BY <1>1, <2>2 DEF SearchInv, SessionTypes, TargetsRaised
    <2> QED BY <2>2, <2>3, <2>4
  <1> QED BY <1>2, <1>3, <1>4

(* What opening and releasing bindings keeps: those that stay synced stay  *)
(* as they are.                                                            *)
BindingsKept ==
  /\ stored' = stored /\ synced' \subseteq synced
  /\ \A t \in synced' : doc'[t] = doc[t] /\ observed'[t] = observed[t]

LEMMA OpenedKeeps ==
  ASSUME SearchInv, NEW s \in Sections, NEW who \in {Editor, Search}, Opened(s, who)
  PROVE  BindingTypes' /\ BindingsKept
  <1>1. BindingTypes /\ synced \subseteq OpenSections
    BY DEF SearchInv, BindingTypes
  <1>2. holder' \in [Sections -> Writers] /\ OpenSections \subseteq OpenSections'
    BY <1>1 DEF Opened, BindingTypes, OpenSections, Writers, Editor, Search, Nobody
  <1>3. CASE s \in OpenSections
    BY <1>1, <1>2, <1>3 DEF Opened, BindingTypes, BindingsKept
  <1>4. CASE s \notin OpenSections
    <2>1. /\ doc' = [doc EXCEPT ![s] = {}] /\ observed' = [observed EXCEPT ![s] = 0]
          /\ stored' = stored /\ synced' = synced
      BY <1>4 DEF Opened
    <2>2. s \notin synced
      BY <1>1, <1>4
    <2>3. BindingsKept
      BY <1>1, <2>1, <2>2 DEF BindingTypes, BindingsKept, OpenSections
    <2>4. 0 \in Labels /\ \A n \in Labels : 0 <= n
      BY SearchBounds DEF Labels
    <2>5. doc' \in [Sections -> SUBSET Edits] /\ observed' \in [Sections -> Labels]
      BY <1>1, <2>1, <2>4 DEF BindingTypes
    <2>6. \A t \in Sections : doc'[t] \subseteq 1..stored'[t] /\ observed'[t] <= stored'[t]
      BY <1>1, <2>1, <2>4 DEF BindingTypes
    <2> QED BY <1>1, <1>2, <2>1, <2>3, <2>5, <2>6 DEF BindingTypes
  <1> QED BY <1>3, <1>4

LEMMA ReleasedKeeps ==
  ASSUME SearchInv, NEW s \in Sections, NEW who, Released(s, who)
  PROVE  BindingTypes' /\ BindingsKept
  <1>1. BindingTypes /\ synced \subseteq OpenSections
    BY DEF SearchInv, BindingTypes
  <1>2. CASE holder[s] # who
    BY <1>1, <1>2 DEF Released, BindingTypes, BindingsKept, bindingVars, OpenSections
  <1>3. CASE holder[s] = who
    <2>1. /\ doc' = [doc EXCEPT ![s] = {}] /\ observed' = [observed EXCEPT ![s] = 0]
          /\ holder' = [holder EXCEPT ![s] = Nobody]
          /\ stored' = stored /\ synced' = synced \ {s}
      BY <1>3 DEF Released
    <2>2. BindingsKept
      BY <1>1, <2>1 DEF BindingTypes, BindingsKept, OpenSections
    <2>3. holder' \in [Sections -> Writers] /\ synced' \subseteq OpenSections'
      BY <1>1, <2>1 DEF BindingTypes, OpenSections, Writers
    <2>4. 0 \in Labels /\ \A n \in Labels : 0 <= n
      BY SearchBounds DEF Labels
    <2>5. doc' \in [Sections -> SUBSET Edits] /\ observed' \in [Sections -> Labels]
      BY <1>1, <2>1, <2>4 DEF BindingTypes
    <2>6. \A t \in Sections : doc'[t] \subseteq 1..stored'[t] /\ observed'[t] <= stored'[t]
      BY <1>1, <2>1, <2>4 DEF BindingTypes
    <2> QED BY <1>1, <2>1, <2>2, <2>3, <2>5, <2>6 DEF BindingTypes
  <1> QED BY <1>2, <1>3

LEMMA UnchangedKeeps ==
  ASSUME SearchInv, UNCHANGED bindingVars
  PROVE  BindingTypes' /\ BindingsKept
  BY DEF SearchInv, BindingTypes, BindingsKept, bindingVars, OpenSections

LEMMA DocsKept ==
  ASSUME SearchInv, DocsHaveTargets, BindingsKept, UNCHANGED <<target, unseen>>
  PROVE  DocsHaveTargets'
  BY DEF DocsHaveTargets, BindingsKept

(* A step of the search that keeps its batch.                              *)
LEMMA BatchKept ==
  ASSUME SearchInv, stored' = stored, UNCHANGED <<target, listed, unseen, dirty>>,
         task' \in Tasks, task'.batch = task.batch,
         task'.at \in {"loading", "waiting", "writing"}
           <=> task.at \in {"loading", "waiting", "writing"}
  PROVE  SessionTypes' /\ TargetsKnown' /\ LoadsKnown'
  <1>1. SessionTypes'
    BY DEF SearchInv, SessionTypes
  <1>2. TargetsKnown'
    BY DEF SearchInv, TargetsKnown
  <1>3. LoadsKnown'
    BY DEF SearchInv, LoadsKnown
  <1> QED BY <1>1, <1>2, <1>3

LEMMA SessionSame ==
  ASSUME SearchInv, stored' = stored, UNCHANGED sessionVars
  PROVE  SessionTypes' /\ TargetsKnown' /\ LoadsKnown'
  BY BatchKept DEF SearchInv, SessionTypes, sessionVars

LEMMA StoreSame ==
  ASSUME SearchInv, UNCHANGED <<index, writes, unseen>>
  PROVE  StoreTypes' /\ (RecordsHaveLabels => RecordsHaveLabels')
  BY DEF SearchInv, StoreTypes, RecordsHaveLabels

LEMMA ReadySame ==
  ASSUME SearchInv, UNCHANGED <<index, listed, unseen>>, task'.at = "ready" => task.at = "ready"
  PROVE  ListedIndexed'
  BY DEF SearchInv, ListedIndexed

(* The load under way is one of the batch.                                 *)
LEMMA HeadLoad ==
  ASSUME SearchInv, task.batch # <<>>
  PROVE  /\ Head(task.batch) \in Loads
         /\ Head(task.batch).section \in Sections
         /\ Head(task.batch).label \in Labels
         /\ Head(task.batch).label <= target[Head(task.batch).section]
  <1>1. task.batch \in Seq(Loads)
    BY DEF SearchInv, SessionTypes, Tasks
  <1>2. Head(task.batch) = task.batch[1] /\ 1 \in DOMAIN task.batch
    BY <1>1
  <1>3. Head(task.batch) \in Loads
    BY <1>1, <1>2
  <1>4. Head(task.batch).label <= target[Head(task.batch).section]
    BY <1>2 DEF SearchInv, LoadsKnown
  <1> QED BY <1>3, <1>4 DEF Loads

-----------------------------------------------------------------------------
LEMMA OpenInEditorKeeps ==
  ASSUME SearchInv, NEW s \in Sections, OpenInEditor(s)
  PROVE  SearchInv'
  <1>1. BindingTypes' /\ BindingsKept
    BY OpenedKeeps DEF OpenInEditor
  <1>2. CountTypes'
    BY Counted DEF OpenInEditor, SearchInv
  <1>3. SessionTypes' /\ TargetsKnown' /\ LoadsKnown'
    BY <1>1, SessionSame DEF OpenInEditor, BindingsKept
  <1>4. StoreTypes' /\ (RecordsHaveLabels => RecordsHaveLabels')
    BY StoreSame DEF OpenInEditor, sessionVars
  <1>5. ListedIndexed'
    BY ReadySame DEF OpenInEditor, sessionVars
  <1>6. DocsHaveTargets => DocsHaveTargets'
    BY <1>1, DocsKept DEF OpenInEditor, sessionVars
  <1> QED BY <1>1, <1>2, <1>3, <1>4, <1>5, <1>6 DEF SearchInv

LEMMA CloseInEditorKeeps ==
  ASSUME SearchInv, NEW s \in Sections, CloseInEditor(s)
  PROVE  SearchInv'
  <1>1. BindingTypes' /\ BindingsKept
    BY ReleasedKeeps DEF CloseInEditor
  <1>2. CountTypes'
    BY DEF CloseInEditor, SearchInv, CountTypes
  <1>3. task' \in Tasks /\ task'.at = task.at /\ task'.batch = task.batch
    <2>1. (task.lost \/ WaitsFor(s)) \in BOOLEAN
      OBVIOUS
    <2> QED BY <2>1 DEF CloseInEditor, SearchInv, SessionTypes, Tasks
  <1>4. SessionTypes' /\ TargetsKnown' /\ LoadsKnown'
    BY <1>1, <1>3, BatchKept DEF CloseInEditor, BindingsKept
  <1>5. StoreTypes' /\ (RecordsHaveLabels => RecordsHaveLabels')
    BY StoreSame DEF CloseInEditor
  <1>6. ListedIndexed'
    BY <1>3, ReadySame DEF CloseInEditor
  <1>7. DocsHaveTargets => DocsHaveTargets'
    BY <1>1, DocsKept DEF CloseInEditor
  <1> QED BY <1>1, <1>2, <1>4, <1>5, <1>6, <1>7 DEF SearchInv

LEMMA SynchronizeKeeps ==
  ASSUME SearchInv, NEW s \in Sections, Synchronize(s)
  PROVE  SearchInv'
  <1>1. /\ s \in OpenSections /\ synced' = synced \union {s}
        /\ doc' = [doc EXCEPT ![s] = 1..stored[s]]
        /\ observed' = [observed EXCEPT ![s] = stored[s]]
        /\ Notify(s, stored[s])
        /\ UNCHANGED <<stored, holder, index, listed, unseen, task, writes, counts>>
    BY DEF Synchronize
  <1>2. BindingTypes /\ stored[s] \in Labels
    BY DEF SearchInv, BindingTypes
  <1>3. 1..stored[s] \subseteq Edits /\ stored[s] <= stored[s]
    BY <1>2, SearchBounds DEF Labels, Edits
  <1>4. BindingTypes'
    BY <1>1, <1>2, <1>3 DEF BindingTypes, OpenSections
  <1>5. TargetsRaised(s, stored[s])
    BY <1>1, <1>2, NotifyRaises
  <1>6. SessionTypes' /\ TargetsKnown' /\ LoadsKnown'
    <2>1. \A t \in Sections : stored[t] <= stored'[t]
      BY <1>1, <1>2, SearchBounds DEF BindingTypes, Labels
    <2> QED BY <1>1, <1>2, <1>3, <1>5, <2>1, RaisedKeeps DEF BindingTypes
  <1>7. StoreTypes' /\ (RecordsHaveLabels => RecordsHaveLabels')
    BY <1>1, StoreSame
  <1>8. ListedIndexed'
    BY <1>1, ReadySame
  <1>9. ASSUME DocsHaveTargets PROVE DocsHaveTargets'
    <2> SUFFICES ASSUME NEW t \in synced'
                 PROVE  /\ 1..observed'[t] \subseteq doc'[t]
                        /\ 1..target'[t] \subseteq doc'[t] \union unseen'[t]
      BY DEF DocsHaveTargets
    <2>1. t \in Sections
      BY <1>1, <1>2 DEF BindingTypes, OpenSections
    <2>2. CASE t = s
      <3>1. doc'[s] = 1..stored[s] /\ observed'[s] = stored[s]
        BY <1>1, <1>2 DEF BindingTypes
      <3>2. target'[s] <= stored[s] /\ target'[s] \in Int
        BY <1>1, <1>6, SearchBounds DEF TargetsKnown, SessionTypes, Labels, Unindexed
      <3> QED BY <1>2, <2>2, <3>1, <3>2, SearchBounds DEF Labels
    <2>3. CASE t # s
      BY <1>1, <1>2, <1>5, <1>9, <2>1, <2>3 DEF BindingTypes, TargetsRaised, DocsHaveTargets
    <2> QED BY <2>2, <2>3
  <1>10. CountTypes'
    BY <1>1 DEF SearchInv, CountTypes
  <1> QED BY <1>4, <1>6, <1>7, <1>8, <1>9, <1>10 DEF SearchInv

(* There is a first among the edits a document misses.                     *)
LEMMA FirstOf ==
  ASSUME NEW S \in SUBSET Nat, S # {}
  PROVE  \E n \in S : \A m \in S : n <= m
  <1>1. PICK n \in S : \A m \in S : ~ (<<m, n>> \in OpToRel(<, Nat))
    BY NatLessThanWellFounded, WFMin
  <1>2. \A m \in S : ~ (m < n)
    BY <1>1 DEF OpToRel
  <1> QED BY <1>2

LEMMA FirstMissing ==
  ASSUME SearchInv, NEW s \in Sections, Missing(s) # {}
  PROVE  LET edit == CHOOSE e \in Missing(s) : \A f \in Missing(s) : e <= f
         IN edit \in Missing(s) /\ \A f \in Missing(s) : edit <= f
  <1>1. Missing(s) \subseteq Nat
    BY SearchBounds DEF Missing, SearchInv, BindingTypes, Labels
  <1>2. \E e \in Missing(s) : \A f \in Missing(s) : e <= f
    BY <1>1, FirstOf
  <1> QED BY <1>2

LEMMA DeliverKeeps ==
  ASSUME SearchInv, NEW s \in Sections, Deliver(s)
  PROVE  SearchInv'
  <1> DEFINE edit == CHOOSE e \in Missing(s) : \A f \in Missing(s) : e <= f
             seen == IF edit > observed[s] THEN edit ELSE observed[s]
  <1>1. edit \in Missing(s) /\ \A f \in Missing(s) : edit <= f
    BY FirstMissing DEF Deliver
  <1>2. BindingTypes /\ stored[s] \in Labels /\ observed[s] \in Labels
    BY DEF SearchInv, BindingTypes
  <1>3. /\ s \in synced /\ doc' = [doc EXCEPT ![s] = @ \union {edit}]
        /\ observed' = [observed EXCEPT ![s] = seen]
        /\ Notify(s, observed'[s])
        /\ UNCHANGED <<stored, synced, holder, index, listed, unseen, task, writes, counts>>
    BY DEF Deliver
  <1> HIDE DEF edit
  <1>4. edit \in 1..stored[s] /\ edit \in Edits
    BY <1>1, <1>2, SearchBounds DEF Missing, Labels, Edits
  <1>5. seen \in Labels /\ seen <= stored[s] /\ (seen = edit \/ seen = observed[s])
    BY <1>2, <1>4, SearchBounds DEF Labels, Edits, BindingTypes
  <1> HIDE DEF seen
  <1>6. /\ doc'[s] = doc[s] \union {edit} /\ observed'[s] = seen
        /\ \A t \in Sections \ {s} : doc'[t] = doc[t] /\ observed'[t] = observed[t]
    BY <1>2, <1>3 DEF BindingTypes
  <1>7. BindingTypes'
    <2>1. doc' \in [Sections -> SUBSET Edits] /\ observed' \in [Sections -> Labels]
      BY <1>2, <1>3, <1>4, <1>5 DEF BindingTypes
    <2>2. \A t \in Sections : doc'[t] \subseteq 1..stored'[t] /\ observed'[t] <= stored'[t]
      BY <1>2, <1>3, <1>4, <1>5, <1>6 DEF BindingTypes
    <2> QED BY <1>2, <1>3, <2>1, <2>2 DEF BindingTypes, OpenSections
  <1>8. TargetsRaised(s, seen)
    BY <1>3, <1>5, <1>6, NotifyRaises
  <1>9. SessionTypes' /\ TargetsKnown' /\ LoadsKnown'
    <2>1. \A t \in Sections : stored[t] <= stored'[t]
      BY <1>2, <1>3, SearchBounds DEF BindingTypes, Labels
    <2> QED BY <1>2, <1>3, <1>5, <1>8, <2>1, RaisedKeeps DEF BindingTypes
  <1>10. StoreTypes' /\ (RecordsHaveLabels => RecordsHaveLabels')
    BY <1>3, StoreSame
  <1>11. ListedIndexed'
    BY <1>3, ReadySame
  <1>12. ASSUME DocsHaveTargets PROVE DocsHaveTargets'
    <2> SUFFICES ASSUME NEW t \in synced'
                 PROVE  /\ 1..observed'[t] \subseteq doc'[t]
                        /\ 1..target'[t] \subseteq doc'[t] \union unseen'[t]
      BY DEF DocsHaveTargets
    <2>1. t \in Sections /\ t \in synced
      BY <1>2, <1>3 DEF BindingTypes, OpenSections
    <2>2. CASE t = s
      <3>1. 1..observed[s] \subseteq doc[s] /\ 1..target[s] \subseteq doc[s] \union unseen[s]
        BY <1>3, <1>12 DEF DocsHaveTargets
      <3>2. 1..edit \subseteq doc[s] \union {edit}
        BY <1>1, <1>2, <1>4, SearchBounds DEF Missing, Labels
      <3>3. 1..seen \subseteq doc'[s]
        BY <1>5, <1>6, <3>1, <3>2
      <3>4. target'[s] = target[s] \/ target'[s] = seen
        BY <1>8 DEF TargetsRaised
      <3> QED BY <1>3, <1>6, <2>2, <3>1, <3>3, <3>4
    <2>3. CASE t # s
      BY <1>3, <1>6, <1>8, <1>12, <2>1, <2>3 DEF TargetsRaised, DocsHaveTargets
    <2> QED BY <2>2, <2>3
  <1>13. CountTypes'
    BY <1>3 DEF SearchInv, CountTypes
  <1> QED BY <1>7, <1>9, <1>10, <1>11, <1>12, <1>13 DEF SearchInv

LEMMA EditElsewhereKeeps ==
  ASSUME SearchInv, NEW s \in Sections, EditElsewhere(s)
  PROVE  SearchInv'
  <1>1. BindingTypes /\ stored[s] \in Labels /\ stored[s] < MaxEdits
    BY DEF SearchInv, BindingTypes, EditElsewhere
  <1>2. /\ stored' = [stored EXCEPT ![s] = @ + 1]
        /\ UNCHANGED <<doc, observed, synced, holder, index, sessionVars, writes, counts>>
    BY DEF EditElsewhere
  <1>3. stored[s] + 1 \in Labels
    BY <1>1, SearchBounds DEF Labels
  <1>4. stored' \in [Sections -> Labels] /\ \A t \in Sections : stored[t] <= stored'[t]
    BY <1>1, <1>2, <1>3, SearchBounds DEF BindingTypes, Labels
  <1>5. BindingTypes'
    <2>1. \A t \in Sections : doc'[t] \subseteq 1..stored'[t] /\ observed'[t] <= stored'[t]
      BY <1>1, <1>2, <1>4, SearchBounds DEF BindingTypes, Labels
    <2> QED BY <1>1, <1>2, <1>4, <2>1 DEF BindingTypes, OpenSections
  <1>6. SessionTypes' /\ LoadsKnown'
    BY <1>2 DEF SearchInv, SessionTypes, LoadsKnown, sessionVars
  <1>7. TargetsKnown'
    <2>1. target' = target /\ listed' = listed /\ dirty' = dirty
      BY <1>2 DEF sessionVars
    <2>2. ASSUME NEW t \in Sections
          PROVE  listed[t] <= target[t] /\ target[t] <= stored'[t]
      <3>1. listed[t] <= target[t] /\ target[t] <= stored[t] /\ stored[t] <= stored'[t]
        BY <1>4 DEF SearchInv, TargetsKnown
      <3>2. target[t] \in Int /\ stored[t] \in Int /\ stored'[t] \in Int
        BY <1>1, <1>4, SearchBounds DEF SearchInv, SessionTypes, BindingTypes, Labels, Unindexed
      <3> QED BY <3>1, <3>2
    <2> QED BY <2>1, <2>2 DEF SearchInv, TargetsKnown
  <1>8. StoreTypes' /\ (RecordsHaveLabels => RecordsHaveLabels')
    BY <1>2, StoreSame DEF sessionVars
  <1>9. ListedIndexed'
    BY <1>2, ReadySame DEF sessionVars
  <1>10. CountTypes' /\ (DocsHaveTargets => DocsHaveTargets')
    BY <1>2 DEF SearchInv, CountTypes, DocsHaveTargets, sessionVars
  <1> QED BY <1>5, <1>6, <1>7, <1>8, <1>9, <1>10 DEF SearchInv

LEMMA EditHereKeeps ==
  ASSUME SearchInv, NEW s \in Sections, EditHere(s)
  PROVE  SearchInv'
  <1>1. BindingTypes /\ stored[s] \in Labels /\ stored[s] < MaxEdits /\ observed[s] \in Labels
    BY DEF SearchInv, BindingTypes, EditHere
  <1>2. /\ s \in synced /\ stored' = [stored EXCEPT ![s] = @ + 1]
        /\ doc' = [doc EXCEPT ![s] = @ \union {stored'[s]}]
        /\ Notify(s, observed[s])
        /\ UNCHANGED <<observed, synced, holder, index, listed, unseen, task, writes, counts>>
    BY DEF EditHere
  <1>3. stored[s] + 1 \in Labels /\ stored'[s] = stored[s] + 1 /\ stored'[s] \in Edits
    BY <1>1, <1>2, SearchBounds DEF Labels, Edits, BindingTypes
  <1>4. stored' \in [Sections -> Labels] /\ \A t \in Sections : stored[t] <= stored'[t]
    BY <1>1, <1>2, <1>3, SearchBounds DEF BindingTypes, Labels
  <1>5. /\ doc'[s] = doc[s] \union {stored'[s]}
        /\ \A t \in Sections \ {s} : doc'[t] = doc[t] /\ stored'[t] = stored[t]
    BY <1>1, <1>2 DEF BindingTypes
  <1>6. BindingTypes'
    <2>1. doc' \in [Sections -> SUBSET Edits]
      BY <1>1, <1>2, <1>3 DEF BindingTypes
    <2>2. \A t \in Sections : doc'[t] \subseteq 1..stored'[t]
      BY <1>1, <1>3, <1>5, SearchBounds DEF BindingTypes, Labels
    <2>3. \A t \in Sections : observed'[t] <= stored'[t]
      BY <1>1, <1>2, <1>4, SearchBounds DEF BindingTypes, Labels
    <2> QED BY <1>1, <1>2, <1>4, <2>1, <2>2, <2>3 DEF BindingTypes, OpenSections
  <1>7. TargetsRaised(s, observed[s])
    BY <1>1, <1>2, NotifyRaises
  <1>8. SessionTypes' /\ TargetsKnown' /\ LoadsKnown'
    <2>1. observed[s] <= stored'[s]
      BY <1>2, <1>6 DEF BindingTypes
    <2> QED BY <1>1, <1>2, <1>4, <1>7, <2>1, RaisedKeeps
  <1>9. StoreTypes' /\ (RecordsHaveLabels => RecordsHaveLabels')
    BY <1>2, StoreSame
  <1>10. ListedIndexed'
    BY <1>2, ReadySame
  <1>11. ASSUME DocsHaveTargets PROVE DocsHaveTargets'
    <2>1. \A t \in synced : t \in Sections /\ doc[t] \subseteq doc'[t]
      BY <1>1, <1>5 DEF BindingTypes, OpenSections
    <2>2. \A t \in Sections : target'[t] = target[t] \/ (t = s /\ target'[t] = observed[s])
      BY <1>7 DEF TargetsRaised
    <2> QED BY <1>2, <1>11, <2>1, <2>2 DEF DocsHaveTargets
  <1>12. CountTypes'
    BY <1>2 DEF SearchInv, CountTypes
  <1> QED BY <1>6, <1>8, <1>9, <1>10, <1>11, <1>12 DEF SearchInv

-----------------------------------------------------------------------------
(* A record never replaces one with a later label.                         *)
LEMMA StoreKeeps ==
  ASSUME SearchInv, NEW w \in writes, Store(w)
  PROVE  SearchInv'
  <1>1. /\ writes' = writes \ {w}
        /\ index' = IF Replaces(w)
              THEN [index EXCEPT ![w.section] = [label |-> w.label, edits |-> w.edits]]
              ELSE index
        /\ UNCHANGED <<bindingVars, sessionVars, counts>>
    BY DEF Store
  <1>2. StoreTypes /\ w \in Records
    BY DEF SearchInv, StoreTypes
  <1>3. /\ w.section \in Sections /\ w.label \in Labels /\ w.edits \in SUBSET Edits
        /\ w.label \in Labels \union {Unindexed}
    BY <1>2 DEF Records
  <1> DEFINE new == [label |-> w.label, edits |-> w.edits]
  <1>4. /\ new \in [label : Labels \union {Unindexed}, edits : SUBSET Edits]
        /\ new.label = w.label /\ new.edits = w.edits
    BY <1>3
  <1>5. index' = IF Replaces(w) THEN [index EXCEPT ![w.section] = new] ELSE index
    BY <1>1
  <1> HIDE DEF new
  <1>6. \A s \in Sections :
          \/ index'[s] = index[s]
          \/ index'[s] = new /\ s = w.section /\ index[s].label <= w.label
    BY <1>2, <1>3, <1>5 DEF StoreTypes, Replaces
  <1>7. StoreTypes'
    BY <1>1, <1>2, <1>3, <1>4, <1>5 DEF StoreTypes
  <1>8. RecordsHaveLabels => RecordsHaveLabels'
    <2> SUFFICES ASSUME RecordsHaveLabels PROVE RecordsHaveLabels'
      OBVIOUS
    <2>1. unseen' = unseen
      BY <1>1 DEF sessionVars
    <2>2. ASSUME NEW s \in Sections
          PROVE  1..index'[s].label \subseteq index'[s].edits \union unseen[s]
      <3>1. CASE index'[s] = index[s]
        BY <3>1 DEF RecordsHaveLabels
      <3>2. CASE index'[s] = new /\ s = w.section
        BY <1>4, <3>2 DEF RecordsHaveLabels
      <3> QED BY <1>6, <3>1, <3>2
    <2> QED BY <1>1, <2>1, <2>2 DEF RecordsHaveLabels
  <1>9. BindingTypes' /\ BindingsKept
    BY <1>1, UnchangedKeeps
  <1>10. SessionTypes' /\ TargetsKnown' /\ LoadsKnown'
    BY <1>1, <1>9, SessionSame DEF BindingsKept
  <1>11. ListedIndexed'
    <2> SUFFICES ASSUME task.at = "ready", NEW s \in Sections
                 PROVE  listed[s] <= index'[s].label
      BY <1>1 DEF ListedIndexed, sessionVars
    <2>1. listed[s] <= index[s].label
      BY DEF SearchInv, ListedIndexed
    <2>2. listed[s] \in Int /\ index[s].label \in Int /\ w.label \in Int
      BY <1>2, <1>3, SearchBounds DEF SearchInv, SessionTypes, StoreTypes, Labels, Unindexed
    <2> QED BY <1>4, <1>6, <2>1, <2>2
  <1>12. DocsHaveTargets => DocsHaveTargets'
    BY <1>1, <1>9, DocsKept DEF sessionVars
  <1>13. CountTypes'
    BY <1>1 DEF SearchInv, CountTypes
  <1> QED BY <1>7, <1>8, <1>9, <1>10, <1>11, <1>12, <1>13 DEF SearchInv

(* One more record on its way.                                             *)
LEMMA Written ==
  ASSUME SearchInv, NEW s \in Sections, NEW label \in Labels, NEW who \in Writers,
         writes' \subseteq writes \union {Write(s, label, who)}, UNCHANGED <<index, unseen>>
  PROVE  /\ StoreTypes'
         /\ RecordsHaveLabels /\ 1..label \subseteq doc[s] \union unseen[s]
              => RecordsHaveLabels'
  <1>1. doc[s] \in SUBSET Edits
    BY DEF SearchInv, BindingTypes
  <1>2. /\ Write(s, label, who) \in Records
        /\ Write(s, label, who).section = s
        /\ Write(s, label, who).label = label /\ Write(s, label, who).edits = doc[s]
    BY <1>1 DEF Write, Records
  <1>3. StoreTypes'
    BY <1>2 DEF SearchInv, StoreTypes
  <1>4. ASSUME RecordsHaveLabels, 1..label \subseteq doc[s] \union unseen[s]
        PROVE  RecordsHaveLabels'
    BY <1>2, <1>4 DEF RecordsHaveLabels
  <1> QED BY <1>3, <1>4

LEMMA RefreshKeeps ==
  ASSUME SearchInv, NEW s \in Sections, Refresh(s)
  PROVE  SearchInv'
  <1>1. /\ s \in dirty /\ dirty' = dirty \ {s}
        /\ writes' = IF s \in synced
               THEN writes \union {Write(s, target[s], Editor)} ELSE writes
        /\ UNCHANGED <<bindingVars, index, target, listed, unseen, task, counts>>
    BY DEF Refresh
  <1>2. target[s] \in Labels
    BY <1>1 DEF SearchInv, TargetsKnown, SessionTypes
  <1>3. BindingTypes' /\ BindingsKept
    BY <1>1, UnchangedKeeps
  <1>4. StoreTypes'
    BY <1>1, <1>2, Written DEF Writers
  <1>5. ASSUME DocsHaveTargets, RecordsHaveLabels PROVE RecordsHaveLabels'
    <2>1. CASE s \in synced
      <3>1. 1..target[s] \subseteq doc[s] \union unseen[s]
        BY <1>5, <2>1 DEF DocsHaveTargets
      <3> QED BY <1>1, <1>2, <1>5, <3>1, Written DEF Writers
    <2>2. CASE s \notin synced
      BY <1>1, <1>5, <2>2 DEF RecordsHaveLabels
    <2> QED BY <2>1, <2>2
  <1>6. SessionTypes' /\ TargetsKnown' /\ LoadsKnown'
    BY <1>1, <1>3 DEF SearchInv, SessionTypes, TargetsKnown, LoadsKnown, BindingsKept
  <1>7. ListedIndexed'
    BY <1>1, ReadySame
  <1>8. DocsHaveTargets => DocsHaveTargets'
    BY <1>1, <1>3, DocsKept
  <1>9. CountTypes'
    BY <1>1 DEF SearchInv, CountTypes
  <1> QED BY <1>3, <1>4, <1>5, <1>6, <1>7, <1>8, <1>9 DEF SearchInv

-----------------------------------------------------------------------------
LEMMA StartSearchKeeps ==
  ASSUME SearchInv, NEW query \in BOOLEAN, StartSearch(query)
  PROVE  SearchInv'
  <1>1. /\ task' = [NoTask EXCEPT !.at = "listing", !.query = query]
        /\ target' = [s \in Sections |-> Unindexed] /\ listed' = target'
        /\ dirty' = {} /\ writes' = Orphans /\ UNCHANGED <<index, unseen>>
    BY DEF StartSearch
  <1>2. BindingTypes' /\ BindingsKept
    <2>1. CASE task.at = "waiting"
      <3>1. task.batch # <<>>
        BY <2>1 DEF SearchInv, LoadsKnown
      <3> QED BY <2>1, <3>1, HeadLoad, ReleasedKeeps DEF StartSearch
    <2>2. CASE task.at # "waiting"
      BY <2>2, UnchangedKeeps DEF StartSearch
    <2> QED BY <2>1, <2>2
  <1>3. CountTypes'
    BY Counted DEF StartSearch, SearchInv
  <1>4. task' \in Tasks /\ task'.batch = <<>> /\ task'.at = "listing"
    <2>1. task' = [at |-> "listing", batch |-> <<>>, lost |-> FALSE, query |-> query]
      BY <1>1 DEF NoTask
    <2>2. <<>> \in Seq(Loads)
      OBVIOUS
    <2> QED BY <2>1, <2>2 DEF Tasks, Stages
  <1>5. SessionTypes'
    <2>1. unseen' \in [Sections -> SUBSET Edits]
      BY <1>1 DEF SearchInv, SessionTypes
    <2> QED BY <1>1, <1>4, <2>1, SearchBounds DEF SessionTypes
  <1>6. TargetsKnown'
    BY <1>1, <1>2, SearchBounds DEF TargetsKnown, BindingTypes, Labels, Unindexed
  <1>7. LoadsKnown' /\ ListedIndexed'
    BY <1>4 DEF LoadsKnown, ListedIndexed
  <1>8. \A v \in writes' : \E w \in writes : v = [w EXCEPT !.writer = Nobody]
    BY <1>1 DEF Orphans
  <1>9. \A w \in writes :
          LET v == [w EXCEPT !.writer = Nobody]
          IN /\ v \in Records /\ v.section = w.section
             /\ v.label = w.label /\ v.edits = w.edits
    BY DEF SearchInv, StoreTypes, Records, Writers
  <1>10. StoreTypes'
    BY <1>1, <1>8, <1>9 DEF SearchInv, StoreTypes
  <1>11. RecordsHaveLabels => RecordsHaveLabels'
    <2> SUFFICES ASSUME RecordsHaveLabels, NEW v \in writes'
                 PROVE  1..v.label \subseteq v.edits \union unseen[v.section]
      BY <1>1 DEF RecordsHaveLabels
    <2>1. PICK w \in writes : v = [w EXCEPT !.writer = Nobody]
      BY <1>8
    <2>2. v.section = w.section /\ v.label = w.label /\ v.edits = w.edits
      BY <1>9, <2>1
    <2> QED BY <2>2 DEF RecordsHaveLabels
  <1>12. DocsHaveTargets => DocsHaveTargets'
    <2>1. \A t \in synced' : t \in Sections /\ target'[t] = -1
      BY <1>1, <1>2 DEF BindingTypes, OpenSections, Unindexed
    <2>2. 1..(-1) = {}
      OBVIOUS
    <2> QED BY <1>1, <1>2, <2>1, <2>2 DEF DocsHaveTargets, BindingsKept
  <1> QED BY <1>2, <1>3, <1>5, <1>6, <1>7, <1>10, <1>11, <1>12 DEF SearchInv

LEMMA ListSectionsKeeps ==
  ASSUME SearchInv, ListSections
  PROVE  SearchInv'
  <1>1. /\ task.at = "listing"
        /\ target' = stored /\ listed' = stored
        /\ unseen' = [s \in Sections |->
                         unseen[s] \union IF s \in synced THEN Missing(s) ELSE {}]
        /\ task' = [task EXCEPT !.at = IF task.query THEN "building" ELSE "idle"]
        /\ UNCHANGED <<bindingVars, index, dirty, writes, counts>>
    BY DEF ListSections
  <1>2. BindingTypes' /\ BindingsKept
    BY <1>1, UnchangedKeeps
  <1>3. /\ task' \in Tasks /\ task'.batch = task.batch /\ task.batch = <<>>
        /\ task'.at \in {"building", "idle"}
    BY <1>1 DEF SearchInv, SessionTypes, Tasks, Stages, LoadsKnown
  <1>10. /\ unseen' \in [Sections -> SUBSET Edits]
         /\ \A s \in Sections : unseen[s] \subseteq unseen'[s]
         /\ \A s \in synced : 1..stored[s] \subseteq doc[s] \union unseen'[s]
    <2>1. \A s \in Sections : Missing(s) \subseteq Edits
      BY SearchBounds DEF Missing, SearchInv, BindingTypes, Labels, Edits
    <2>2. \A s \in synced : s \in Sections
      BY DEF SearchInv, BindingTypes, OpenSections
    <2> QED BY <1>1, <2>1, <2>2 DEF SearchInv, SessionTypes, Missing
  <1>4. SessionTypes'
    BY <1>1, <1>2, <1>3, <1>10 DEF SearchInv, SessionTypes, BindingTypes, BindingsKept
  <1>5. TargetsKnown'
    BY <1>1, <1>2, SearchBounds
       DEF SearchInv, SessionTypes, TargetsKnown, BindingTypes, BindingsKept, Labels, Unindexed
  <1>6. LoadsKnown' /\ ListedIndexed'
    BY <1>3 DEF LoadsKnown, ListedIndexed
  <1>7. StoreTypes' /\ RecordsHaveLabels'
    <2>1. StoreTypes'
      BY <1>1 DEF SearchInv, StoreTypes
    <2>2. ASSUME NEW w \in writes PROVE 1..w.label \subseteq w.edits \union unseen'[w.section]
      <3>1. w.section \in Sections
        BY DEF SearchInv, StoreTypes, Records
      <3> QED BY <1>10, <3>1 DEF SearchInv, RecordsHaveLabels
    <2>3. ASSUME NEW s \in Sections
          PROVE  1..index[s].label \subseteq index[s].edits \union unseen'[s]
      BY <1>10 DEF SearchInv, RecordsHaveLabels
    <2> QED BY <1>1, <2>1, <2>2, <2>3 DEF RecordsHaveLabels
  <1>8. DocsHaveTargets'
    <2>1. \A s \in synced : 1..observed[s] \subseteq doc[s]
      BY DEF SearchInv, DocsHaveTargets
    <2> QED BY <1>1, <1>10, <2>1 DEF DocsHaveTargets, bindingVars
  <1>9. CountTypes'
    BY <1>1 DEF SearchInv, CountTypes
  <1> QED BY <1>2, <1>4, <1>5, <1>6, <1>7, <1>8, <1>9 DEF SearchInv

(* The next batch asks of each section what its target is.                 *)
LEMMA NextBatch ==
  ASSUME SearchInv, Pending # {}, NEW q \in NextSections
  PROVE  LET batch == [i \in DOMAIN q |-> Load(q[i], target[q[i]])]
         IN /\ batch \in Seq(Loads) /\ Len(batch) <= BatchSize /\ batch # <<>>
            /\ \A i \in DOMAIN batch : batch[i].label <= target[batch[i].section]
  <1> DEFINE n == IF Cardinality(Pending) < BatchSize THEN Cardinality(Pending) ELSE BatchSize
             batch == [i \in DOMAIN q |-> Load(q[i], target[q[i]])]
  <1>1. Pending \subseteq Sections
    BY DEF Pending
  <1>2. IsFiniteSet(Pending)
    BY <1>1, FS_Subset, SearchAssumption
  <1>3. Cardinality(Pending) \in Nat /\ Cardinality(Pending) # 0
    BY <1>2, FS_CardinalityType, FS_EmptySet
  <1>4. n \in Nat /\ n >= 1 /\ n <= BatchSize
    BY <1>3, SearchBounds
  <1>5. q \in [1..n -> Pending]
    BY DEF NextSections
  <1> HIDE DEF n
  <1>6. \A s \in Pending : s \in Sections /\ target[s] \in Labels
    <2> SUFFICES ASSUME NEW s \in Pending PROVE target[s] \in Labels
      BY <1>1
    <2>1. /\ target[s] \in Labels \union {Unindexed}
          /\ index[s].label \in Labels \union {Unindexed}
      BY <1>1 DEF SearchInv, SessionTypes, StoreTypes
    <2>2. ~(index[s].label >= target[s])
      BY DEF Pending, Covered
    <2> QED BY <2>1, <2>2, SearchBounds DEF Labels, Unindexed
  <1>7. \A i \in 1..n : Load(q[i], target[q[i]]) \in Loads
    BY <1>5, <1>6 DEF Load, Loads
  <1>8. batch \in [1..n -> Loads]
    BY <1>5, <1>7
  <1>9. batch \in Seq(Loads) /\ Len(batch) = n /\ DOMAIN batch = 1..n
    BY <1>4, <1>8
  <1>10. \A i \in 1..n : batch[i].label <= target[batch[i].section]
    <2> SUFFICES ASSUME NEW i \in 1..n PROVE batch[i].label <= target[batch[i].section]
      OBVIOUS
    <2>1. q[i] \in Pending /\ batch[i] = [section |-> q[i], label |-> target[q[i]]]
      BY <1>5 DEF Load
    <2>2. target[q[i]] \in Int
      BY <1>6, <2>1, SearchBounds DEF Labels
    <2> QED BY <2>1, <2>2
  <1>11. batch # <<>>
    BY <1>4, <1>9
  <1> QED BY <1>4, <1>9, <1>10, <1>11

LEMMA BuildNextBatchKeeps ==
  ASSUME SearchInv, BuildNextBatch
  PROVE  SearchInv'
  <1>1. /\ task.at = "building"
        /\ UNCHANGED <<bindingVars, index, target, listed, unseen, dirty, writes, counts>>
    BY DEF BuildNextBatch
  <1>2. task.batch = <<>> /\ task \in Tasks
    BY <1>1 DEF SearchInv, LoadsKnown, SessionTypes
  <1>3. BindingTypes' /\ BindingsKept
    BY <1>1, UnchangedKeeps
  <1>4. StoreTypes' /\ (RecordsHaveLabels => RecordsHaveLabels')
    BY <1>1, StoreSame
  <1>5. DocsHaveTargets => DocsHaveTargets'
    BY <1>1, <1>3, DocsKept
  <1>6. CountTypes'
    BY <1>1 DEF SearchInv, CountTypes
  <1>7. TargetsKnown'
    BY <1>1, <1>3 DEF SearchInv, TargetsKnown, BindingsKept
  <1>8. CASE Pending = {}
    <2>1. task' = [task EXCEPT !.at = "ready"]
      BY <1>8 DEF BuildNextBatch
    <2>2. task' \in Tasks /\ task'.at = "ready" /\ task'.batch = <<>>
      BY <1>2, <2>1 DEF Tasks, Stages
    <2>3. SessionTypes'
      BY <1>1, <1>2, <2>2 DEF SearchInv, SessionTypes
    <2>4. LoadsKnown'
      BY <2>2 DEF LoadsKnown
    <2>5. ListedIndexed'
      <3> SUFFICES ASSUME NEW s \in Sections PROVE listed[s] <= index[s].label
        BY <1>1 DEF ListedIndexed
      <3>1. index[s].label >= target[s] /\ listed[s] <= target[s]
        BY <1>8 DEF Pending, Covered, SearchInv, TargetsKnown
      <3>2. index[s].label \in Int /\ target[s] \in Int /\ listed[s] \in Int
        BY SearchBounds DEF SearchInv, SessionTypes, StoreTypes, Labels, Unindexed
      <3> QED BY <3>1, <3>2
    <2> QED BY <1>3, <1>4, <1>5, <1>6, <1>7, <2>3, <2>4, <2>5 DEF SearchInv
  <1>9. CASE Pending # {}
    <2>1. PICK q \in NextSections :
            task' = [task EXCEPT !.at = "loading",
                       !.batch = [i \in DOMAIN q |-> Load(q[i], target[q[i]])]]
      BY <1>9 DEF BuildNextBatch
    <2> DEFINE batch == [i \in DOMAIN q |-> Load(q[i], target[q[i]])]
    <2>2. /\ batch \in Seq(Loads) /\ Len(batch) <= BatchSize /\ batch # <<>>
          /\ \A i \in DOMAIN batch : batch[i].label <= target[batch[i].section]
      BY <1>9, NextBatch
    <2>3. task' = [task EXCEPT !.at = "loading", !.batch = batch]
      BY <2>1
    <2> HIDE DEF batch
    <2>4. task' \in Tasks /\ task'.at = "loading" /\ task'.batch = batch
      BY <1>2, <2>2, <2>3 DEF Tasks, Stages
    <2>5. SessionTypes'
      BY <1>1, <2>2, <2>4 DEF SearchInv, SessionTypes
    <2>6. LoadsKnown' /\ ListedIndexed'
      BY <1>1, <2>2, <2>4 DEF LoadsKnown, ListedIndexed
    <2> QED BY <1>3, <1>4, <1>5, <1>6, <1>7, <2>5, <2>6 DEF SearchInv
  <1> QED BY <1>8, <1>9

LEMMA OpenForSearchKeeps ==
  ASSUME SearchInv, OpenForSearch
  PROVE  SearchInv'
  <1> DEFINE s == Head(task.batch).section
  <1>1. /\ task.at = "loading"
        /\ task' = [task EXCEPT !.at = "waiting", !.lost = FALSE]
        /\ IF s \in OpenSections THEN UNCHANGED bindingVars ELSE Opened(s, Search)
        /\ UNCHANGED <<index, target, listed, unseen, dirty, writes, counts>>
    BY DEF OpenForSearch
  <1>2. s \in Sections
    BY <1>1, HeadLoad DEF SearchInv, LoadsKnown
  <1> HIDE DEF s
  <1>3. BindingTypes' /\ BindingsKept
    BY <1>1, <1>2, OpenedKeeps, UnchangedKeeps
  <1>4. task' \in Tasks /\ task'.batch = task.batch /\ task'.at = "waiting"
    BY <1>1 DEF SearchInv, SessionTypes, Tasks, Stages
  <1>5. SessionTypes' /\ TargetsKnown' /\ LoadsKnown'
    BY <1>1, <1>3, <1>4, BatchKept DEF BindingsKept
  <1>6. StoreTypes' /\ (RecordsHaveLabels => RecordsHaveLabels')
    BY <1>1, StoreSame
  <1>7. ListedIndexed'
    BY <1>4 DEF ListedIndexed
  <1>8. DocsHaveTargets => DocsHaveTargets'
    BY <1>1, <1>3, DocsKept
  <1>9. CountTypes'
    BY <1>1 DEF SearchInv, CountTypes
  <1> QED BY <1>3, <1>5, <1>6, <1>7, <1>8, <1>9 DEF SearchInv

LEMMA TakeSnapshotKeeps ==
  ASSUME SearchInv, TakeSnapshot
  PROVE  SearchInv'
  <1> DEFINE load == Head(task.batch)
  <1>1. /\ task.at = "waiting" /\ load.section \in synced
        /\ writes' = writes \union {Write(load.section, load.label, Search)}
        /\ task' = [task EXCEPT !.at = "writing"]
        /\ Released(load.section, Search)
        /\ UNCHANGED <<index, target, listed, unseen, dirty, counts>>
    BY DEF TakeSnapshot, Arrived
  <1>2. load.section \in Sections /\ load.label \in Labels /\ load.label <= target[load.section]
    BY <1>1, HeadLoad DEF SearchInv, LoadsKnown
  <1> HIDE DEF load
  <1>3. BindingTypes' /\ BindingsKept
    BY <1>1, <1>2, ReleasedKeeps
  <1>4. task' \in Tasks /\ task'.batch = task.batch /\ task'.at = "writing"
    BY <1>1 DEF SearchInv, SessionTypes, Tasks, Stages
  <1>5. SessionTypes' /\ TargetsKnown' /\ LoadsKnown'
    BY <1>1, <1>3, <1>4, BatchKept DEF BindingsKept
  <1>6. StoreTypes'
    BY <1>1, <1>2, Written DEF Writers
  <1>7. ASSUME DocsHaveTargets, RecordsHaveLabels PROVE RecordsHaveLabels'
    <2>1. 1..target[load.section] \subseteq doc[load.section] \union unseen[load.section]
      BY <1>1, <1>7 DEF DocsHaveTargets
    <2>2. target[load.section] \in Int /\ load.label \in Int
      BY <1>2, SearchBounds DEF SearchInv, SessionTypes, Labels, Unindexed
    <2>3. 1..load.label \subseteq doc[load.section] \union unseen[load.section]
      BY <1>2, <2>1, <2>2
    <2> QED BY <1>1, <1>2, <1>7, <2>3, Written DEF Writers
  <1>8. ListedIndexed'
    BY <1>4 DEF ListedIndexed
  <1>9. DocsHaveTargets => DocsHaveTargets'
    BY <1>1, <1>3, DocsKept
  <1>10. CountTypes'
    BY <1>1 DEF SearchInv, CountTypes
  <1> QED BY <1>3, <1>5, <1>6, <1>7, <1>8, <1>9, <1>10 DEF SearchInv

LEMMA FinishLoadKeeps ==
  ASSUME SearchInv, FinishLoad
  PROVE  SearchInv'
  <1>1. /\ task.at = "writing"
        /\ task' = [task EXCEPT !.batch = Tail(@),
                      !.at = IF Len(task.batch) > 1 THEN "loading" ELSE "building"]
        /\ UNCHANGED <<bindingVars, index, target, listed, unseen, dirty, writes, counts>>
    BY DEF FinishLoad
  <1>2. task \in Tasks /\ task.batch \in Seq(Loads) /\ task.batch # <<>>
    BY <1>1 DEF SearchInv, SessionTypes, Tasks, LoadsKnown
  <1> DEFINE rest == Tail(task.batch)
  <1>3. /\ rest \in Seq(Loads) /\ Len(rest) = Len(task.batch) - 1
        /\ \A i \in 1..Len(rest) : rest[i] = task.batch[i + 1]
    BY <1>2
  <1>4. task' = [task EXCEPT !.batch = rest,
                   !.at = IF Len(task.batch) > 1 THEN "loading" ELSE "building"]
    BY <1>1
  <1> HIDE DEF rest
  <1>5. /\ task' \in Tasks /\ task'.batch = rest
        /\ task'.at = IF Len(task.batch) > 1 THEN "loading" ELSE "building"
    BY <1>2, <1>3, <1>4 DEF Tasks, Stages
  <1>6. BindingTypes' /\ BindingsKept
    BY <1>1, UnchangedKeeps
  <1>7. SessionTypes'
    BY <1>1, <1>2, <1>3, <1>5, SearchBounds DEF SearchInv, SessionTypes
  <1>8. TargetsKnown'
    BY <1>1, <1>6 DEF SearchInv, TargetsKnown, BindingsKept
  <1>9. LoadsKnown'
    <2>1. Len(task.batch) \in Nat /\ Len(task.batch) >= 1
      BY <1>2
    <2>2. task'.at = "loading" <=> rest # <<>>
      BY <1>3, <1>5, <2>1
    <2>3. \A i \in DOMAIN rest : i + 1 \in DOMAIN task.batch /\ rest[i] = task.batch[i + 1]
      BY <1>2, <1>3, <2>1
    <2>4. \A i \in DOMAIN rest : rest[i].label <= target[rest[i].section]
      BY <2>3 DEF SearchInv, LoadsKnown
    <2>5. task'.at \in {"loading", "waiting", "writing"} <=> task'.batch # <<>>
      BY <1>5, <2>2
    <2>6. \A i \in DOMAIN task'.batch :
            task'.batch[i].label <= target'[task'.batch[i].section]
      BY <1>1, <1>5, <2>4
    <2> QED BY <2>5, <2>6 DEF LoadsKnown
  <1>10. StoreTypes' /\ (RecordsHaveLabels => RecordsHaveLabels')
    BY <1>1, StoreSame
  <1>11. ListedIndexed'
    BY <1>5 DEF ListedIndexed
  <1>12. DocsHaveTargets => DocsHaveTargets'
    BY <1>1, <1>6, DocsKept
  <1>13. CountTypes'
    BY <1>1 DEF SearchInv, CountTypes
  <1> QED BY <1>6, <1>7, <1>8, <1>9, <1>10, <1>11, <1>12, <1>13 DEF SearchInv

LEMMA FailSearchKeeps ==
  ASSUME SearchInv, FailSearch
  PROVE  SearchInv'
  <1> DEFINE s == Head(task.batch).section
  <1>1. /\ task.at = "waiting"
        /\ IF task.lost THEN UNCHANGED counts
           ELSE s \notin synced /\ Count("faults", MaxFailures)
        /\ task' = [task EXCEPT !.at = "error", !.batch = <<>>, !.lost = FALSE]
        /\ Released(s, Search)
        /\ UNCHANGED <<index, target, listed, unseen, dirty, writes>>
    BY DEF FailSearch
  <1>2. s \in Sections
    BY <1>1, HeadLoad DEF SearchInv, LoadsKnown
  <1> HIDE DEF s
  <1>3. BindingTypes' /\ BindingsKept
    BY <1>1, <1>2, ReleasedKeeps
  <1>4. task' \in Tasks /\ task'.batch = <<>> /\ task'.at = "error"
    <2>1. <<>> \in Seq(Loads) /\ task \in Tasks
      BY DEF SearchInv, SessionTypes
    <2> QED BY <1>1, <2>1 DEF Tasks, Stages
  <1>5. SessionTypes'
    BY <1>1, <1>4, SearchBounds DEF SearchInv, SessionTypes
  <1>6. TargetsKnown'
    BY <1>1, <1>3 DEF SearchInv, TargetsKnown, BindingsKept
  <1>7. LoadsKnown' /\ ListedIndexed'
    BY <1>4 DEF LoadsKnown, ListedIndexed
  <1>8. StoreTypes' /\ (RecordsHaveLabels => RecordsHaveLabels')
    BY <1>1, StoreSame
  <1>9. DocsHaveTargets => DocsHaveTargets'
    BY <1>1, <1>3, DocsKept
  <1>10. CountTypes'
    BY <1>1, Counted DEF SearchInv, CountTypes
  <1> QED BY <1>3, <1>5, <1>6, <1>7, <1>8, <1>9, <1>10 DEF SearchInv

-----------------------------------------------------------------------------
LEMMA SearchNextHolds == SearchInv /\ [SearchNext]_searchVars => SearchInv'
  <1> SUFFICES ASSUME SearchInv, [SearchNext]_searchVars PROVE SearchInv'
    OBVIOUS
  <1>1. CASE Bindings
    BY <1>1, SynchronizeKeeps, DeliverKeeps DEF Bindings
  <1>2. CASE Indexing
    BY <1>2, RefreshKeeps, StoreKeeps DEF Indexing
  <1>3. CASE Task
    BY <1>3, ListSectionsKeeps, BuildNextBatchKeeps, OpenForSearchKeeps,
       TakeSnapshotKeeps, FinishLoadKeeps, FailSearchKeeps DEF Task
  <1>4. CASE UserSteps
    BY <1>4, OpenInEditorKeeps, CloseInEditorKeeps, EditHereKeeps, EditElsewhereKeeps,
       StartSearchKeeps DEF UserSteps
  <1>5. CASE UNCHANGED searchVars
    <2>1. UNCHANGED <<bindingVars, index, sessionVars, writes, counts>>
      BY <1>5 DEF searchVars
    <2>2. BindingTypes' /\ BindingsKept
      BY <2>1, UnchangedKeeps
    <2>3. SessionTypes' /\ TargetsKnown' /\ LoadsKnown'
      BY <2>1, <2>2, SessionSame DEF BindingsKept
    <2>4. StoreTypes' /\ (RecordsHaveLabels => RecordsHaveLabels')
      BY <2>1, StoreSame DEF sessionVars
    <2>5. ListedIndexed' /\ CountTypes' /\ (DocsHaveTargets => DocsHaveTargets')
      BY <2>1, <2>2, ReadySame, DocsKept DEF SearchInv, CountTypes, sessionVars
    <2> QED BY <2>2, <2>3, <2>4, <2>5 DEF SearchInv
  <1> QED BY <1>1, <1>2, <1>3, <1>4, <1>5 DEF SearchNext, Background

(* The documents, the session, the store and the search keep their types,  *)
(* and what is between them: a target between the list and the server, a   *)
(* load within its target, a record at least as late as the list when the  *)
(* search is ready, a label that covers all but what was counted too soon. *)
THEOREM SearchInvariance == SearchSpec => []SearchInv
  BY SearchInitHolds, SearchNextHolds, PTL DEF SearchSpec

(* For all sections and bounds: a search that says it is complete finds    *)
(* every edit the server had when it listed the sections, except those     *)
(* that an open section had not received by then (searchIndex,             *)
(* protectedSearchIndex).                                                  *)
THEOREM FoundOnceReady == SearchSpec => []FoundWhenReady
  <1>1. SearchInv => FoundWhenReady
    <2> SUFFICES ASSUME SearchInv, task.at = "ready", NEW s \in Sections
                 PROVE  1..listed[s] \subseteq index[s].edits \union unseen[s]
      BY SearchTypes DEF FoundWhenReady
    <2>1. /\ listed[s] <= index[s].label
          /\ 1..index[s].label \subseteq index[s].edits \union unseen[s]
      BY DEF SearchInv, ListedIndexed, RecordsHaveLabels
    <2>2. listed[s] \in Int /\ index[s].label \in Int
      BY SearchBounds DEF SearchInv, SessionTypes, StoreTypes, Labels, Unindexed
    <2> QED BY <2>1, <2>2
  <1> QED BY <1>1, SearchInvariance, PTL
=============================================================================
