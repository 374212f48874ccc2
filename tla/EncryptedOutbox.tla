-------------------------- MODULE EncryptedOutbox --------------------------
(***************************************************************************)
(* The durable outbox of one account for one fence (note, section, epoch): *)
(* the IndexedDB stores shared by the account's tabs, and in each tab one  *)
(* outbox object that flushes the fence's records over the tab's socket.   *)
(* Every await of flushFence at which another tab, an acknowledgement or a *)
(* rejection can change the stores is a step boundary.                     *)
(***************************************************************************)
EXTENDS Integers, FiniteSets

CONSTANTS
  Tabs,            \* browser tabs of the account
  Updates,         \* update identifiers
  None,            \* no lease holder
  MayFence,        \* whether the server may come to refuse the fence
  MaxFaults        \* bound on lost connections and temporary refusals

ASSUME UpdatesAssumption == Updates \intersect {"idle", "lease", "loop"} = {}
ASSUME OutboxBounds == MayFence \in BOOLEAN /\ MaxFaults \in Nat

VARIABLES
  records,      \* outbox store: [Updates -> state, or "absent"]
  acknowledged, \* acknowledgement store
  lease,        \* holder of an unexpired lease on the fence, or None
  recent,       \* records whose retry delay has not passed
  transport,    \* tabs with an open socket
  active,       \* tabs with the fence in activeFences
  terminal,     \* tabs with the fence in terminalFences
  timer,        \* tabs with a retry timer
  editing,      \* [Tabs -> edits between activate and enqueue]
  flush,        \* [Tabs -> the flush in progress]
  sent,         \* [Tabs -> frames on their way to the server]
  replies,      \* [Tabs -> acks and rejects on their way back]
  accepted,     \* updates the server stored
  fenced,       \* the server rejects the fence: revoked or rotated
  faults

storeVars  == <<records, acknowledged, lease, recent>>
tabVars    == <<transport, active, terminal, timer, flush, editing>>
serverVars == <<sent, replies, accepted, fenced>>
vars == <<storeVars, tabVars, serverVars, faults>>

States == {"absent", "queued", "sending", "terminal-rejected"}

Idle == [at |-> "idle", todo |-> {}, fresh |-> {}, pending |-> FALSE]

Flushes ==
  [at : {"idle", "lease", "loop"} \union Updates, todo : SUBSET Updates,
   fresh : SUBSET Updates, pending : BOOLEAN]

Replies == [result : {"ack", "reject"}, update : Updates]

TypeOK ==
  /\ records \in [Updates -> States]
  /\ acknowledged \subseteq accepted
  /\ lease \in Tabs \union {None}
  /\ recent \subseteq Updates
  /\ transport \subseteq Tabs
  /\ active \subseteq Tabs
  /\ terminal \subseteq Tabs
  /\ timer \subseteq active \intersect transport
  /\ flush \in [Tabs -> Flushes]
  /\ editing \in [Tabs -> SUBSET Updates]
  /\ sent \in [Tabs -> SUBSET Updates]
  /\ replies \in [Tabs -> SUBSET Replies]
  /\ accepted \subseteq Updates
  /\ fenced \in BOOLEAN
  /\ faults \in 0..MaxFaults

Init ==
  /\ records = [u \in Updates |-> "absent"]
  /\ acknowledged = {}
  /\ lease = None
  /\ recent = {}
  /\ transport = Tabs
  /\ active = Tabs
  /\ terminal = {}
  /\ timer = {}
  /\ flush = [t \in Tabs |-> Idle]
  /\ editing = [t \in Tabs |-> {}]
  /\ sent = [t \in Tabs |-> {}]
  /\ replies = [t \in Tabs |-> {}]
  /\ accepted = {}
  /\ fenced = FALSE
  /\ faults = 0

-----------------------------------------------------------------------------

Present == {u \in Updates : records[u] # "absent"}

Rejected == {u \in Updates : records[u] = "terminal-rejected"}

Live == Present \ Rejected

(* Faulty: the refused records are dropped. *)
PreservedNothing == [u \in Updates |-> "absent"]

(* preserveOutboxFence: one transaction over all the fence's records. *)
Preserved ==
  [u \in Updates |-> IF u \in Present THEN "terminal-rejected" ELSE "absent"]

(* A change of the outbox store schedules a flush in every tab that can. *)
Notified(tabs) == timer \union (tabs \intersect transport)

(* Faulty: a retained draft is deleted as well. *)
CleanedAnyState(u, fails) ==
  IF fails THEN records ELSE [records EXCEPT ![u] = "absent"]

(* acknowledgeOutbox deletes the record unless it is a retained draft; the *)
(* deletion may fail, and then the stored acknowledgement is enough.       *)
Cleaned(u, fails) ==
  IF fails \/ records[u] = "terminal-rejected"
  THEN records ELSE [records EXCEPT ![u] = "absent"]

Unused(u) ==
  /\ records[u] = "absent" /\ u \notin accepted
  /\ \A t \in Tabs : u \notin editing[t]

(* enqueueDurableUpdate activates the fence, which instead preserves it    *)
(* when a draft is retained.  A direct call of flush is a timer due now.   *)
Edit(t, u) ==
  /\ Unused(u)
  /\ editing' = [editing EXCEPT ![t] = @ \union {u}]
  /\ IF Rejected # {}
     THEN /\ records' = Preserved
          /\ terminal' = terminal \union {t}
          /\ active' = active \ {t}
          /\ timer' = Notified(active') \ {t}
     ELSE /\ active' = active \union {t}
          /\ timer' = Notified({t})
          /\ UNCHANGED <<records, terminal>>
  /\ UNCHANGED <<acknowledged, lease, recent, transport, flush, serverVars, faults>>

(* enqueue stores the record: a draft when the tab knows of the refusal.   *)
Enqueue(t, u) ==
  /\ u \in editing[t]
  /\ editing' = [editing EXCEPT ![t] = @ \ {u}]
  /\ records' = [records EXCEPT ![u] =
       IF t \in terminal THEN "terminal-rejected" ELSE "queued"]
  /\ timer' = Notified(active)
  /\ UNCHANGED <<acknowledged, lease, recent, transport, active, terminal, flush,
                 serverVars, faults>>

-----------------------------------------------------------------------------
(* flushFence. *)

(* The timer fires.  A flush already running is joined, not repeated. *)
StartFlush(t) ==
  /\ t \in timer
  /\ timer' = timer \ {t}
  /\ flush' = IF flush[t].at # "idle" \/ Live = {} THEN flush
              ELSE [flush EXCEPT ![t] =
                     [at |-> "lease", todo |-> Live,
                      fresh |-> {u \in Live : records[u] = "sending"} \intersect recent,
                      pending |-> FALSE]]
  /\ UNCHANGED <<storeVars, transport, active, terminal, editing, serverVars, faults>>

(* The lease on the fence, or another try when it expires. *)
AcquireLease(t) ==
  /\ flush[t].at = "lease"
  /\ IF lease \in {t, None} /\ t \in active
     THEN /\ flush' = [flush EXCEPT ![t].at = "loop"]
          /\ lease' = t
          /\ UNCHANGED timer
     ELSE /\ flush' = [flush EXCEPT ![t] = Idle]
          /\ lease' = IF lease = None THEN t ELSE lease
          /\ timer' = Notified({t} \intersect active)
  /\ UNCHANGED <<records, acknowledged, recent, transport, active, terminal, editing,
                 serverVars, faults>>

(* The next record: already acknowledged, sent too recently, or due. *)
NextRecord(t, u, fails) ==
  /\ flush[t].at = "loop"
  /\ t \in active \intersect transport
  /\ u \in flush[t].todo
  /\ \/ /\ u \in acknowledged
        /\ records' = Cleaned(u, fails)
        /\ flush' = [flush EXCEPT ![t].todo = @ \ {u}]
     \/ /\ u \notin acknowledged
        /\ u \in flush[t].fresh \intersect recent
        /\ flush' = [flush EXCEPT ![t].todo = @ \ {u}, ![t].pending = TRUE]
        /\ UNCHANGED records
     \/ /\ u \notin acknowledged
        /\ u \notin flush[t].fresh \intersect recent
        /\ flush' = [flush EXCEPT ![t].todo = @ \ {u}, ![t].at = u]
        /\ UNCHANGED records
  /\ UNCHANGED <<acknowledged, lease, recent, transport, active, terminal, timer,
                 editing, serverVars, faults>>

(* The record as it was read is put back as "sending", and sent if the     *)
(* fence is still active and the socket open.                              *)
Send(t, u) ==
  /\ flush[t].at = u
  /\ records' = [records EXCEPT ![u] = "sending"]
  /\ recent' = recent \union {u}
  /\ timer' = Notified(active)
  /\ LET goesOut == t \in active \intersect transport
     IN  /\ sent' = IF goesOut THEN [sent EXCEPT ![t] = @ \union {u}] ELSE sent
         /\ flush' = [flush EXCEPT ![t].at = "loop",
                                   ![t].pending = @ \/ goesOut]
  /\ UNCHANGED <<acknowledged, lease, transport, active, terminal, editing, replies,
                 accepted, fenced, faults>>

(* Faulty: the retry timer is always cancelled. *)
FinishFlushForGood(t) ==
  /\ flush[t].at = "loop"
  /\ flush[t].todo = {} \/ t \notin active \intersect transport
  /\ flush' = [flush EXCEPT ![t] = Idle]
  /\ timer' = timer \ {t}
  /\ UNCHANGED <<storeVars, transport, active, terminal, editing, serverVars, faults>>

(* The loop ends: retry when something is pending, else cancel the timer. *)
FinishFlush(t) ==
  /\ flush[t].at = "loop"
  /\ flush[t].todo = {} \/ t \notin active \intersect transport
  /\ flush' = [flush EXCEPT ![t] = Idle]
  /\ timer' = IF flush[t].pending THEN Notified({t} \intersect active)
              ELSE timer \ {t}
  /\ UNCHANGED <<storeVars, transport, active, terminal, editing, serverVars, faults>>

-----------------------------------------------------------------------------
(* The server and the replies. *)

(* A frame is stored and acknowledged, or refused for good. *)
Serve(t, u) ==
  /\ u \in sent[t]
  /\ sent' = [sent EXCEPT ![t] = @ \ {u}]
  /\ accepted' = IF fenced THEN accepted ELSE accepted \union {u}
  /\ replies' = [replies EXCEPT ![t] = @ \union
       {[result |-> IF fenced THEN "reject" ELSE "ack", update |-> u]}]
  /\ UNCHANGED <<storeVars, tabVars, fenced, faults>>

(* storage-limit, rotation-pending: the record stays queued. *)
RefuseForNow(t, u) ==
  /\ u \in sent[t]
  /\ faults < MaxFaults
  /\ sent' = [sent EXCEPT ![t] = @ \ {u}]
  /\ faults' = faults + 1
  /\ UNCHANGED <<storeVars, tabVars, replies, accepted, fenced>>

(* Write access is revoked, or the note key is rotated. *)
Fence ==
  /\ MayFence /\ ~fenced
  /\ fenced' = TRUE
  /\ UNCHANGED <<storeVars, tabVars, sent, replies, accepted, faults>>

(* acknowledgeDurableUpdate: only for a record that is still there. *)
ReceiveAck(t, u, fails) ==
  LET ack == [result |-> "ack", update |-> u]
  IN  /\ ack \in replies[t]
      /\ replies' = [replies EXCEPT ![t] = @ \ {ack}]
      /\ IF u \in Present
         THEN /\ acknowledged' = acknowledged \union {u}
              /\ records' = Cleaned(u, fails)
         ELSE UNCHANGED <<acknowledged, records>>
      /\ UNCHANGED <<lease, recent, tabVars, sent, accepted, fenced, faults>>

(* preserveTerminalRejection: the whole fence becomes a retained draft. *)
ReceiveReject(t, u) ==
  LET reject == [result |-> "reject", update |-> u]
  IN  /\ reject \in replies[t]
      /\ replies' = [replies EXCEPT ![t] = @ \ {reject}]
      /\ IF u \in Present
         THEN /\ records' = Preserved
              /\ terminal' = terminal \union {t}
              /\ active' = active \ {t}
              /\ timer' = Notified(active) \ {t}
         ELSE UNCHANGED <<records, terminal, active, timer>>
      /\ UNCHANGED <<acknowledged, lease, recent, transport, flush, editing, sent,
                     accepted, fenced, faults>>

-----------------------------------------------------------------------------
(* Time and connections. *)

ExpireLease ==
  /\ lease # None
  /\ lease' = None
  /\ UNCHANGED <<records, acknowledged, recent, tabVars, serverVars, faults>>

(* The retry delay of a record passes. *)
RetryDue(u) ==
  /\ u \in recent
  /\ recent' = recent \ {u}
  /\ UNCHANGED <<records, acknowledged, lease, tabVars, serverVars, faults>>

(* The socket closes, or the tab is closed or reloaded. *)
Disconnect(t) ==
  /\ t \in transport
  /\ faults < MaxFaults
  /\ transport' = transport \ {t}
  /\ timer' = timer \ {t}
  /\ sent' = [sent EXCEPT ![t] = {}]
  /\ replies' = [replies EXCEPT ![t] = {}]
  /\ faults' = faults + 1
  /\ UNCHANGED <<storeVars, active, terminal, flush, editing, accepted, fenced>>

(* A new connection makes a new outbox object, which activates the fence   *)
(* of each subscription: a retained draft stays one, anything else is      *)
(* flushed.                                                                *)
Connect(t) ==
  /\ t \notin transport
  /\ flush[t].at \in {"idle", "loop", "lease"}
  /\ transport' = transport \union {t}
  /\ flush' = [flush EXCEPT ![t] = Idle]
  /\ IF Rejected # {}
     THEN /\ records' = Preserved
          /\ terminal' = terminal \union {t}
          /\ active' = active \ {t}
          /\ timer' = Notified(active') \ {t}
     ELSE /\ terminal' = terminal \ {t}
          /\ active' = active \union {t}
          /\ timer' = timer \union {t}
          /\ UNCHANGED records
  /\ UNCHANGED <<acknowledged, lease, recent, editing, serverVars, faults>>

-----------------------------------------------------------------------------

FlushStep(t) ==
  \/ StartFlush(t)
  \/ AcquireLease(t)
  \/ \E u \in Updates : Send(t, u) \/ \E f \in BOOLEAN : NextRecord(t, u, f)
  \/ FinishFlush(t)

ReplyStep(t) ==
  \E u \in Updates :
    ReceiveReject(t, u) \/ \E f \in BOOLEAN : ReceiveAck(t, u, f)

Next ==
  \/ \E t \in Tabs, u \in Updates :
       Edit(t, u) \/ Enqueue(t, u) \/ Serve(t, u) \/ RefuseForNow(t, u)
  \/ \E t \in Tabs : FlushStep(t) \/ ReplyStep(t) \/ Disconnect(t) \/ Connect(t)
  \/ \E u \in Updates : RetryDue(u)
  \/ ExpireLease
  \/ Fence

Spec == Init /\ [][Next]_vars

(* Timers fire, IndexedDB requests complete, the server answers, leases    *)
(* and delays run out, and a lost connection is opened again.              *)
FairSpec ==
  /\ Spec
  /\ \A t \in Tabs :
       /\ WF_vars(FlushStep(t))
       /\ WF_vars(ReplyStep(t))
       /\ WF_vars(\E u \in Updates : Serve(t, u))
       /\ WF_vars(Connect(t))
  /\ \A u \in Updates : WF_vars(RetryDue(u))
  /\ WF_vars(ExpireLease)

-----------------------------------------------------------------------------
(* Properties. *)

(* A record leaves the outbox only when the server has stored its update:  *)
(* a lost acknowledgement, a rejection, another tab or a new connection    *)
(* never drops an edit.                                                    *)
KeptUntilAccepted ==
  [][\A u \in Updates : records[u] # "absent" /\ records'[u] = "absent"
       => u \in accepted]_vars

(* Work the server refused stays a draft the user can recover ("retains a  *)
(* terminally rejected fence and never resends it after reopening").       *)
DraftsRetained ==
  [][\A u \in Updates : records[u] = "terminal-rejected"
       => records'[u] = "terminal-rejected"]_vars

(* Nothing but a flush that had read the record before it was refused      *)
(* takes a draft away: a late acknowledgement, a new edit, another tab's    *)
(* rejection and a reconnection leave it.                                   *)
DraftsOutliveReplies ==
  [][\A u \in Updates :
       records[u] = "terminal-rejected" /\ records'[u] # "terminal-rejected"
         => \E t \in Tabs : flush[t].at = u]_vars

(* The inductive invariant behind the two: acknowledgements are true, what *)
(* a flush or a frame carries was stored before, and an edit still on its  *)
(* way to the outbox is nowhere else.                                      *)
AcksTrue ==
  \A t \in Tabs : \A r \in replies[t] : r.result = "ack" => r.update \in accepted

KnownUpdates == Present \union accepted

CarriedKnown ==
  \A t \in Tabs :
    /\ flush[t].todo \union sent[t] \subseteq KnownUpdates
    /\ flush[t].at \in Updates => flush[t].at \in KnownUpdates

EditsNew ==
  /\ \A t \in Tabs : editing[t] \intersect KnownUpdates = {}
  /\ \A s, t \in Tabs : s # t => editing[s] \intersect editing[t] = {}

IInv ==
  /\ TypeOK
  /\ AcksTrue
  /\ CarriedKnown
  /\ EditsNew

(* Every record is in the end stored by the server or retained as a draft, *)
(* as long as no fence is raised                                           *)
(* ("The durable record remains eligible for the scheduled retry").        *)
Settles ==
  \A u \in Updates :
    (records[u] # "absent") ~>
      (u \in accepted \/ records[u] = "terminal-rejected" \/ fenced)
=============================================================================
