---------------------------- MODULE SectionSync ----------------------------
(***************************************************************************)
(* Live synchronisation of one section within one key epoch: the bindings  *)
(* of several clients, their sockets, and the realtime hub that persists   *)
(* an update and then fans it out recipient by recipient.                  *)
(*                                                                         *)
(* A server row is named by its sequence number.  log holds every row ever *)
(* inserted and stored the numbers not yet compacted away; SectionHistory  *)
(* is the same log with epochs, access and deletion.  A row's content is   *)
(* the set of edits inside its ciphertext.  A ghost goes with it: unmerged *)
(* holds what its author, a checkpoint's, had not merged of the rows up to *)
(* the cutoff when it fixed the cutoff.                                    *)
(*                                                                         *)
(* All clients start synchronised with the empty log: sequence 0 stands    *)
(* for the section's initial checkpoint.  All may write.                   *)
(***************************************************************************)
EXTENDS Integers, FiniteSets, Sequences, SequencesExt

CONSTANTS
  Clients,         \* open bindings, one per browser tab
  Edits,           \* local edits, and the updates that carry them
  Checkpoints,     \* identifiers of checkpoints
  LargeIds,        \* those that exceed a realtime frame: content uploads
  None,            \* no value
  PageSize,        \* historyPageMaxItems
  MaxSequence,     \* bound on accepted rows
  MaxPublishing,   \* bound on fan-outs in progress at once
  SlowDecryption,  \* may messages arrive while others are decrypted?
  MaxDisconnects,  \* bound on lost connections
  MaxFailures,     \* bound on failed decryptions and downloads
  MaxResubscribes  \* bound on reopening a section that is already open

Ids == Edits \union Checkpoints

ASSUME ClientsAssumption == IsFiniteSet(Clients)
ASSUME IdsAssumption == Edits \intersect Checkpoints = {} /\ LargeIds \subseteq Ids
ASSUME SyncBounds ==
  /\ PageSize \in Nat \ {0}
  /\ {MaxSequence, MaxPublishing, MaxDisconnects, MaxFailures, MaxResubscribes}
       \subseteq Nat
  /\ SlowDecryption \in BOOLEAN

VARIABLES
  log,         \* rows in sequence order
  stored,      \* sequences of the rows still in section_updates
  clients,     \* hub.clients: connected clients, in connection order
  subscribed,  \* clients with the section in subscribedCrdtScopes
  publishing,  \* fan-outs in progress: [sequence, by, left]
  requests,    \* [Clients -> Seq of afterSequence]: crdt-subscribe, in order
  socket,      \* [Clients -> Seq of messages on their way to the client]
  responses,   \* manifest commits the author has not heard of
  doc,         \* [Clients -> edits in the Y.Doc]
  observed,    \* [Clients -> observedServerSequence]
  ready,       \* clients whose binding is ready
  failed,      \* [Clients -> sequences in failedUpdateIds]
  receiving,   \* [Clients -> Seq of sequences]: the promise chain
  outbox,      \* [Clients -> records not yet acknowledged]
  checkpoint,  \* [Clients -> the checkpoint being delivered]
  budget       \* disconnects, failures and resubscribes so far

serverVars == <<log, stored, clients, subscribed, publishing, responses>>
socketVars == <<requests, socket>>
clientVars == <<doc, observed, ready, failed, receiving, outbox, checkpoint>>
syncVars == <<serverVars, socketVars, clientVars, budget>>

Sequences0 == 0..MaxSequence

(* A place in the promise chain where finishBindingSync continues. *)
Finish == 0

Rows ==
  [id : Ids, cutoff : Sequences0, content : SUBSET Edits, unmerged : SUBSET Edits]

(* relayed: composed under a connection that is gone. *)
Records ==
  [id : Ids, cutoff : Sequences0, content : SUBSET Edits, unmerged : SUBSET Edits,
   relayed : BOOLEAN]

Messages == [kind : {"frame", "more", "last"}, sequence : Sequences0]

SyncTypeOK ==
  /\ \A n \in DOMAIN log : log[n] \in Rows
  /\ Len(log) <= MaxSequence
  /\ stored \subseteq DOMAIN log
  /\ IsInjective(clients) /\ ToSet(clients) \subseteq Clients
  /\ subscribed \subseteq ToSet(clients)
  /\ \A p \in publishing : /\ p.sequence \in DOMAIN log
                           /\ p.by \in Clients \union {None}
                           /\ p.left \subseteq ToSet(clients)
  /\ \A c \in Clients : /\ ToSet(requests[c]) \subseteq 0..Len(log)
                        /\ ToSet(socket[c]) \subseteq Messages
                        /\ ToSet(receiving[c]) \subseteq 0..Len(log)
                        /\ outbox[c] \subseteq Records
  /\ doc \in [Clients -> SUBSET Edits]
  /\ observed \in [Clients -> 0..Len(log)]
  /\ ready \subseteq Clients
  /\ failed \in [Clients -> SUBSET DOMAIN log]
  /\ checkpoint \in [Clients -> [phase : {"none", "encoding", "sent", "orphaned"},
                                 id : Checkpoints \union {None},
                                 cutoff : Sequences0, unmerged : SUBSET Edits]]

NoCheckpoint == [phase |-> "none", id |-> None, cutoff |-> 0, unmerged |-> {}]

SyncInit ==
  /\ log = <<>>
  /\ stored = {}
  /\ clients \in SetToSeqs(Clients)
  /\ subscribed = Clients
  /\ publishing = {}
  /\ responses = {}
  /\ requests = [c \in Clients |-> <<>>]
  /\ socket = [c \in Clients |-> <<>>]
  /\ doc = [c \in Clients |-> {}]
  /\ observed = [c \in Clients |-> 0]
  /\ ready = Clients
  /\ failed = [c \in Clients |-> {}]
  /\ receiving = [c \in Clients |-> <<>>]
  /\ outbox = [c \in Clients |-> {}]
  /\ checkpoint = [c \in Clients |-> NoCheckpoint]
  /\ budget = [disconnects |-> 0, failures |-> 0, resubscribes |-> 0]

-----------------------------------------------------------------------------
(* Vocabulary. *)

Greater(m, n) == IF m >= n THEN m ELSE n

ContentOf(sequences) == UNION {log[n].content : n \in sequences}

Connected(c) == c \in ToSet(clients)

Stored(id) == \E n \in stored : log[n].id = id

(* A connection handles one message at a time (messageQueue). *)
Busy(c) == \E p \in publishing : p.by = c

Fresh(id) ==
  /\ \A n \in DOMAIN log : log[n].id # id
  /\ \A c \in Clients : /\ id \notin doc[c]
                        /\ id # checkpoint[c].id
                        /\ \A r \in outbox[c] : r.id # id

RowOf(r) ==
  [id |-> r.id, cutoff |-> r.cutoff, content |-> r.content, unmerged |-> r.unmerged]

(* Faulty: the row after the cutoff is deleted too. *)
InsertRowPastCutoff(r) ==
  /\ Len(log) < MaxSequence
  /\ log' = Append(log, RowOf(r))
  /\ stored' = {n \in stored : n > r.cutoff + 1} \union {Len(log) + 1}

(* Insert the record's row at the next sequence and delete what it compacts. *)
InsertRow(r) ==
  /\ Len(log) < MaxSequence
  /\ log' = Append(log, RowOf(r))
  /\ stored' = {n \in stored : n > r.cutoff} \union {Len(log) + 1}

StartPublishing(by, recipients) ==
  /\ Cardinality(publishing) < MaxPublishing
  /\ publishing' = publishing \union
       {[sequence |-> Len(log) + 1, by |-> by, left |-> recipients]}

(* The author hears that its record is stored. *)
Settle(c, id) ==
  /\ outbox' = [outbox EXCEPT ![c] = {r \in @ : r.id # id}]
  /\ checkpoint' = [checkpoint EXCEPT ![c] =
       IF @.id = id /\ @.phase = "sent" THEN NoCheckpoint ELSE @]

-----------------------------------------------------------------------------
(* Composing. *)

Enqueue(c, id, cutoff, content, unmerged) ==
  outbox' = [outbox EXCEPT ![c] = @ \union
    {[id |-> id, cutoff |-> cutoff, content |-> content, unmerged |-> unmerged,
      relayed |-> FALSE]}]

(* A local edit.  Offline, it waits in memory for the next transport. *)
Edit(c, e) ==
  /\ Fresh(e)
  /\ doc' = [doc EXCEPT ![c] = @ \union {e}]
  /\ Enqueue(c, e, 0, {e}, {})
  /\ UNCHANGED <<serverVars, socketVars, observed, ready, failed, receiving,
                 checkpoint, budget>>

(* trackUpdate reaches the threshold; broadcastCheckpoint fixes the cutoff *)
(* and then waits for the transport.                                       *)
BeginCheckpoint(c, k) ==
  /\ c \in ready
  /\ checkpoint[c].phase = "none"
  /\ failed[c] = {}
  /\ Fresh(k)
  /\ checkpoint' = [checkpoint EXCEPT ![c] =
       [phase |-> "encoding", id |-> k, cutoff |-> observed[c],
        unmerged |-> ContentOf(1..observed[c]) \ doc[c]]]
  /\ UNCHANGED <<serverVars, socketVars, doc, observed, ready, failed,
                 receiving, outbox, budget>>

(* It encodes the document as it is by then and sends it. *)
SealCheckpoint(c) ==
  /\ checkpoint[c].phase = "encoding"
  /\ Connected(c)
  /\ Enqueue(c, checkpoint[c].id, checkpoint[c].cutoff, doc[c],
             checkpoint[c].unmerged)
  /\ checkpoint' = [checkpoint EXCEPT ![c].phase = "sent"]
  /\ UNCHANGED <<serverVars, socketVars, doc, observed, ready, failed,
                 receiving, budget>>

-----------------------------------------------------------------------------
(* The hub. *)

(* A binary frame is persisted; its fan-out begins.  The author's own      *)
(* connection is skipped unless the frame was composed under an older one. *)
Persist(c, r) ==
  /\ r \in outbox[c]
  /\ r.id \notin LargeIds
  /\ Connected(c)
  /\ ~Busy(c)
  /\ ~Stored(r.id)
  /\ InsertRow(r)
  /\ StartPublishing(c, IF r.relayed THEN ToSet(clients) ELSE ToSet(clients) \ {c})
  /\ UNCHANGED <<clients, subscribed, responses, socketVars, clientVars, budget>>

(* An update whose row is there is acknowledged and not fanned out. *)
AlreadyPresent(c, r) ==
  /\ r \in outbox[c]
  /\ r.id \notin LargeIds
  /\ Connected(c)
  /\ ~Busy(c)
  /\ Stored(r.id)
  /\ Settle(c, r.id)
  /\ UNCHANGED <<serverVars, socketVars, doc, observed, ready, failed,
                 receiving, budget>>

(* Faulty: a manifest waits for itself. *)
BeforeEveryManifest(p) ==
  \A q \in publishing :
    log[q.sequence].id \in LargeIds => p.sequence < q.sequence

(* Manifests are published one at a time (eventPublishQueue). *)
FirstManifest(p) ==
  \A q \in publishing :
    log[q.sequence].id \in LargeIds => p.sequence <= q.sequence

(* The recipient a fan-out comes to: the first left in connection order.   *)
NextRecipient(p, c) ==
  \E i \in DOMAIN clients : /\ clients[i] = c
                            /\ c \in p.left
                            /\ \A j \in 1..(i - 1) : clients[j] \notin p.left

(* It is skipped when not subscribed, otherwise sent to after awaits that  *)
(* other fan-outs may overtake.                                            *)
FanOut(p) ==
  \E c \in Clients :
    /\ p \in publishing
    /\ NextRecipient(p, c)
    /\ log[p.sequence].id \in LargeIds => FirstManifest(p)
    /\ socket' = IF c \in subscribed
                 THEN [socket EXCEPT ![c] =
                         Append(@, [kind |-> "frame", sequence |-> p.sequence])]
                 ELSE socket
    /\ publishing' = (publishing \ {p}) \union {[p EXCEPT !.left = @ \ {c}]}
    /\ UNCHANGED <<log, stored, clients, subscribed, responses, requests,
                   clientVars, budget>>

(* Faulty: the acknowledgement moves the author's observed sequence. *)
FinishPublishObserved(p) ==
  /\ p \in publishing
  /\ p.left = {}
  /\ publishing' = publishing \ {p}
  /\ IF p.by = None
     THEN UNCHANGED <<outbox, checkpoint, observed>>
     ELSE /\ Settle(p.by, log[p.sequence].id)
          /\ observed' = [observed EXCEPT ![p.by] = Greater(@, p.sequence)]
  /\ UNCHANGED <<log, stored, clients, subscribed, responses, socketVars, doc,
                 ready, failed, receiving, budget>>

(* The fan-out is over and the author's connection gets the crdt-ack. *)
FinishPublish(p) ==
  /\ p \in publishing
  /\ p.left = {}
  /\ publishing' = publishing \ {p}
  /\ IF p.by = None
     THEN UNCHANGED <<outbox, checkpoint>>
     ELSE Settle(p.by, log[p.sequence].id)
  /\ UNCHANGED <<log, stored, clients, subscribed, responses, socketVars, doc,
                 observed, ready, failed, receiving, budget>>

(* The commit of an uploaded manifest: stored, its publication queued, and *)
(* the HTTP response sent to the author.  A repeat never appends again.    *)
CommitManifest(c, r) ==
  /\ r \in outbox[c]
  /\ r.id \in LargeIds
  /\ \A n \in DOMAIN log : log[n].id # r.id
  /\ InsertRow(r)
  /\ StartPublishing(None, ToSet(clients))
  /\ responses' = responses \union
       {[client |-> c, id |-> r.id, sequence |-> Len(log) + 1]}
  /\ UNCHANGED <<clients, subscribed, socketVars, clientVars, budget>>

CommitResponse(m) ==
  /\ m \in responses
  /\ responses' = responses \ {m}
  /\ observed' = [observed EXCEPT ![m.client] = Greater(@, m.sequence)]
  /\ Settle(m.client, m.id)
  /\ UNCHANGED <<log, stored, clients, subscribed, publishing, socketVars, doc,
                 ready, failed, receiving, budget>>

(* The first PageSize stored rows after a sequence, in order.              *)
IsPage(entries, after) ==
  /\ \A i, j \in DOMAIN entries : i < j => entries[i] < entries[j]
  /\ \A n \in stored :
       n > after /\ n \notin ToSet(entries) =>
         Len(entries) = PageSize /\ \A i \in DOMAIN entries : entries[i] < n

Page(after, entries) ==
  [kind |-> IF \A n \in stored : n > after => n \in ToSet(entries)
            THEN "last" ELSE "more",
   sequence |-> IF entries = <<>> THEN after ELSE Last(entries)]

(* subscribeCrdtV2 reads a page, adds the scope, and sends the entries and *)
(* then the page.  One step: the query holds the section's row lock, so no *)
(* row is inserted while it runs, and a fan-out of an earlier row in that  *)
(* time is of a row the page holds.  (The byte limit is SectionHistory's.) *)
Subscribe(c) ==
  /\ requests[c] # <<>>
  /\ ~Busy(c)
  /\ LET after == Head(requests[c])
     IN  \E entries \in BoundedSeq({n \in stored : n > after}, PageSize) :
           /\ IsPage(entries, after)
           /\ socket' = [socket EXCEPT ![c] = @ \o
                [i \in DOMAIN entries |-> [kind |-> "frame", sequence |-> entries[i]]]
                \o <<Page(after, entries)>>]
  /\ subscribed' = subscribed \union {c}
  /\ requests' = [requests EXCEPT ![c] = Tail(@)]
  /\ UNCHANGED <<log, stored, clients, publishing, responses, clientVars, budget>>

-----------------------------------------------------------------------------
(* The client's receive side. *)

(* A message arrives: a frame joins the promise chain, a page that is not  *)
(* the last asks for the next, and the last page moves observedServer-     *)
(* Sequence at once and continues when the chain so far has run.           *)
Receive(c) ==
  /\ socket[c] # <<>>
  /\ SlowDecryption \/ receiving[c] = <<>>
  /\ LET m == Head(socket[c])
     IN  \/ /\ m.kind = "frame"
            /\ receiving' = [receiving EXCEPT ![c] = Append(@, m.sequence)]
            /\ UNCHANGED <<requests, observed>>
         \/ /\ m.kind = "more"
            /\ requests' = [requests EXCEPT ![c] = Append(@, m.sequence)]
            /\ UNCHANGED <<receiving, observed>>
         \/ /\ m.kind = "last"
            /\ observed' = [observed EXCEPT ![c] = Greater(@, m.sequence)]
            /\ receiving' = [receiving EXCEPT ![c] = Append(@, Finish)]
            /\ UNCHANGED requests
  /\ socket' = [socket EXCEPT ![c] = Tail(@)]
  /\ UNCHANGED <<serverVars, doc, ready, failed, outbox, checkpoint, budget>>

(* failedUpdateIds is keyed by update, not by row. *)
OtherFailures(c, n) == {f \in failed[c] : log[f].id # log[n].id}

NextReceived(c, n) ==
  /\ receiving[c] # <<>>
  /\ n = Head(receiving[c])
  /\ receiving' = [receiving EXCEPT ![c] = Tail(@)]

(* The head of the chain decrypts and is merged.  A checkpoint also clears *)
(* the failures it covers.                                                 *)
Apply(c) ==
  \E n \in DOMAIN log :
    /\ NextReceived(c, n)
    /\ doc' = [doc EXCEPT ![c] = @ \union log[n].content]
    /\ observed' = [observed EXCEPT ![c] = Greater(@, n)]
    /\ failed' = [failed EXCEPT ![c] =
         {f \in OtherFailures(c, n) : f > log[n].cutoff}]
    /\ UNCHANGED <<serverVars, socketVars, ready, outbox, checkpoint, budget>>

(* Faulty: the failure is not recorded. *)
FailQuietly(c) ==
  \E n \in DOMAIN log :
    /\ budget.failures < MaxFailures
    /\ ~(log[n].content \subseteq doc[c])
    /\ NextReceived(c, n)
    /\ failed' = [failed EXCEPT ![c] = OtherFailures(c, n)]
    /\ budget' = [budget EXCEPT !.failures = @ + 1]
    /\ UNCHANGED <<serverVars, socketVars, doc, observed, ready, outbox, checkpoint>>

(* It fails: the ciphertext is unreadable or its chunks unavailable.  What *)
(* a client has merged before does not fail for it again.                  *)
Fail(c) ==
  \E n \in DOMAIN log :
    /\ budget.failures < MaxFailures
    /\ ~(log[n].content \subseteq doc[c])
    /\ NextReceived(c, n)
    /\ failed' = [failed EXCEPT ![c] = OtherFailures(c, n) \union {n}]
    /\ budget' = [budget EXCEPT !.failures = @ + 1]
    /\ UNCHANGED <<serverVars, socketVars, doc, observed, ready, outbox, checkpoint>>

(* finishBindingSync: ready, unless the history is unreadable. *)
FinishSync(c) ==
  /\ NextReceived(c, Finish)
  /\ ready' = IF failed[c] = {} THEN ready \union {c} ELSE ready
  /\ UNCHANGED <<serverVars, socketVars, doc, observed, failed, outbox,
                 checkpoint, budget>>

Request(c, after) ==
  requests' = IF Connected(c)
              THEN [requests EXCEPT ![c] = Append(@, after)] ELSE requests

(* retryCrdtSection: forget the failures and read again from the first. *)
Retry(c) ==
  /\ failed[c] # {}
  /\ LET first == CHOOSE f \in failed[c] : \A g \in failed[c] : f <= g
     IN  /\ observed' = [observed EXCEPT ![c] = first - 1]
         /\ Request(c, first - 1)
  /\ failed' = [failed EXCEPT ![c] = {}]
  /\ ready' = ready \ {c}
  /\ UNCHANGED <<serverVars, socket, doc, receiving, outbox, checkpoint, budget>>

(* openCrdtSection on an open binding. *)
Resubscribe(c) ==
  /\ Connected(c)
  /\ budget.resubscribes < MaxResubscribes
  /\ Request(c, observed[c])
  /\ budget' = [budget EXCEPT !.resubscribes = @ + 1]
  /\ UNCHANGED <<serverVars, socket, clientVars>>

-----------------------------------------------------------------------------
(* Connections. *)

(* The socket closes: what was on its way is lost, fan-outs skip the       *)
(* client, and nobody is left to take the acknowledgement of its own       *)
(* publication.  The promise of a checkpoint sent over it never settles.   *)
Disconnect(c) ==
  /\ Connected(c)
  /\ budget.disconnects < MaxDisconnects
  /\ SlowDecryption \/ receiving[c] = <<>>
  /\ \E i \in DOMAIN clients :
       clients[i] = c /\ clients' = RemoveAt(clients, i)
  /\ subscribed' = subscribed \ {c}
  /\ publishing' = {[sequence |-> p.sequence,
                     by |-> IF p.by = c THEN None ELSE p.by,
                     left |-> p.left \ {c}] : p \in publishing}
  /\ requests' = [requests EXCEPT ![c] = <<>>]
  /\ socket' = [socket EXCEPT ![c] = <<>>]
  /\ ready' = ready \ {c}
  /\ outbox' = [outbox EXCEPT ![c] = {[r EXCEPT !.relayed = TRUE] : r \in @}]
  /\ checkpoint' = [checkpoint EXCEPT ![c].phase =
       IF @ = "sent" /\ checkpoint[c].id \notin LargeIds THEN "orphaned" ELSE @]
  /\ budget' = [budget EXCEPT !.disconnects = @ + 1]
  /\ UNCHANGED <<log, stored, responses, doc, observed, failed, receiving>>

(* Faulty: the new socket asks only for what comes after the connection. *)
ConnectFromNow(c) ==
  /\ ~Connected(c)
  /\ clients' = Append(clients, c)
  /\ publishing' = {[p EXCEPT !.left = @ \union {c}] : p \in publishing}
  /\ requests' = [requests EXCEPT ![c] = <<Len(log)>>]
  /\ ready' = ready \ {c}
  /\ UNCHANGED <<log, stored, subscribed, responses, socket, doc, observed,
                 failed, receiving, outbox, checkpoint, budget>>

(* startConnection: the new socket resubscribes after what was observed.   *)
(* A fan-out in progress reaches the new connection too (Set iteration).   *)
Connect(c) ==
  /\ ~Connected(c)
  /\ clients' = Append(clients, c)
  /\ publishing' = {[p EXCEPT !.left = @ \union {c}] : p \in publishing}
  /\ requests' = [requests EXCEPT ![c] = <<observed[c]>>]
  /\ ready' = ready \ {c}
  /\ UNCHANGED <<log, stored, subscribed, responses, socket, doc, observed,
                 failed, receiving, outbox, checkpoint, budget>>

-----------------------------------------------------------------------------

HubStep ==
  \/ \E p \in publishing : FanOut(p) \/ FinishPublish(p)
  \/ \E m \in responses : CommitResponse(m)
  \/ \E c \in Clients : Subscribe(c)

Deliver(c, r) == Persist(c, r) \/ AlreadyPresent(c, r) \/ CommitManifest(c, r)

ReceiveStep(c) == Receive(c) \/ Apply(c) \/ Fail(c) \/ FinishSync(c)

SyncNext ==
  \/ HubStep
  \/ \E c \in Clients :
       \/ \E e \in Edits : Edit(c, e)
       \/ \E k \in Checkpoints : BeginCheckpoint(c, k)
       \/ SealCheckpoint(c)
       \/ \E r \in outbox[c] : Deliver(c, r)
       \/ ReceiveStep(c)
       \/ Retry(c)
       \/ Resubscribe(c)
       \/ Disconnect(c)
       \/ Connect(c)

SyncSpec == SyncInit /\ [][SyncNext]_syncVars

(* Fan-outs, queries and responses complete; records in an outbox are sent *)
(* again every two seconds; a client works through what it received,       *)
(* encodes the checkpoint it began, and reconnects with backoff.  Edits,   *)
(* checkpoints, retries and disconnections happen or not.                  *)
SyncFairSpec ==
  /\ SyncSpec
  /\ WF_syncVars(HubStep)
  /\ \A c \in Clients :
       /\ WF_syncVars(\E r \in outbox[c] : Deliver(c, r))
       /\ WF_syncVars(SealCheckpoint(c))
       /\ WF_syncVars(ReceiveStep(c))
       /\ WF_syncVars(Connect(c))

-----------------------------------------------------------------------------
(* Properties. *)

(* What a client will get without asking again. *)
Sequenced(c) == {n \in ToSet(receiving[c]) : n # Finish}

OnItsWay(c) ==
  Sequenced(c)
  \union {m.sequence : m \in {x \in ToSet(socket[c]) : x.kind = "frame"}}
  \union {p.sequence : p \in {q \in publishing : c \in q.left}}

(* While connections hold, no accepted edit passes a client by: it is in   *)
(* the document, on its way, or recorded as a failure the user can retry,  *)
(* unless the client has asked for pages that may bring it.                *)
Asking(c) ==
  \/ requests[c] # <<>>
  \/ \E m \in ToSet(socket[c]) : m.kind = "more"

NothingPassesBy ==
  \A c \in Clients :
    ~Asking(c) =>
      ContentOf(DOMAIN log)
        \subseteq doc[c] \union ContentOf(OnItsWay(c) \union failed[c])

(* A client that reconnects resubscribes after observedServerSequence, so  *)
(* every edit up to it must have been merged, be in the receive chain, or  *)
(* be in a later row ("resubscribes each section after its highest         *)
(* reconciled server sequence").                                           *)
Reconciled(c) ==
  ContentOf(1..observed[c]) \subseteq
    doc[c] \union ContentOf(Sequenced(c) \union {n \in stored : n > observed[c]})

ResumesAfterReconciled ==
  [][\A c \in Clients : ~Connected(c) /\ Connected(c)' => Reconciled(c)]_syncVars

(* A checkpoint in an outbox contains every edit of the rows its cutoff    *)
(* will delete: the contract SectionHistory's ComposeCheckpoint assumes.   *)
CheckpointsCover ==
  \A c \in Clients : \A r \in outbox[c] :
    r.id \in Checkpoints => ContentOf(1..r.cutoff) \subseteq r.content

(* Every accepted edit is still in a stored row, and no checkpoint on its  *)
(* way to the server will delete what it does not contain.                 *)
AcceptedRetained ==
  /\ SyncTypeOK
  /\ ContentOf(DOMAIN log) = ContentOf(stored)
  /\ CheckpointsCover

(* However messages overtake each other, fail or are lost: an accepted     *)
(* edit is in a stored row, or a checkpoint deleted its last whose author  *)
(* had not merged it and yet counted its row as observed.                  *)
OnlyUnmergedLost ==
  \A n \in DOMAIN log : \A e \in log[n].content :
    \/ e \in ContentOf(stored)
    \/ \E m \in DOMAIN log : n <= log[m].cutoff /\ e \in log[m].unmerged

(* An accepted edit reaches every document, or a failure the user sees. *)
Converges ==
  \A e \in Edits : \A c \in Clients :
    (e \in ContentOf(DOMAIN log)) ~> (e \in doc[c] \/ failed[c] # {})
=============================================================================
