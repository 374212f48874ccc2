# Fortnote: TLA+ models, checks and proofs

Fortnote keeps end-to-end encrypted notes. A server (`src/apps/server`: Express,
WebSockets, PostgreSQL) stores ciphertexts and access; clients
(`src/apps/client`: React, Yjs, IndexedDB) edit sections as CRDT documents, send
encrypted updates, and merge what others send. The server cannot read a
document, so nothing on it can repair one: whether an edit survives is decided
by sequence numbers, cutoffs and outboxes, whether a member can read by which
key was sealed for whom. That is what these modules model.

## 1. Inventory

| Component | State | Operations | Interacts through |
|---|---|---|---|
| Section history store (`server/realtime/postgresHistory.ts`, `history.ts`) | `section_updates`, `note_sections.current_sequence` | persist (duplicate, insert, compact), list a page | transactions with row locks on note, membership, section |
| Realtime hub and server (`server/realtime/hub.ts`, `server.ts`) | client set, subscriptions, publish queues, presence, per-socket message queue | upgrade, subscribe, publish a frame, manifest or event, acknowledge, presence, session sweeps | sockets; history store; routes call it after commits |
| Client CRDT bindings (`client/realtime/crdt/*`) | Y.Doc, observed sequence, failed and pending ids, `ready`, `checkpointing`, receive chain | open, edit, checkpoint, receive, finish sync, retry, release | transport callbacks; outbox; editor |
| Client connection (`client/realtime/client.ts`, `hooks/useRealtimeEvents.ts`) | socket, subscriptions, pending acknowledgements, event cursor and batches | connect with backoff, page through history, dispatch messages, apply events, resume uploads | hub; bindings; outbox; note list |
| Client durable outbox (`client/realtime/outbox.ts`, `lib/indexedDb.ts`) | outbox, acknowledgement and lease stores; active and terminal fences, flushes, timers per tab | activate, enqueue, flush, acknowledge, preserve a rejection | IndexedDB and its change notifications between tabs; socket |
| Content uploads and manifests (`server/content/*`) | uploads, chunks, objects, manifests, storage accounts | begin, add chunk, commit, abort, expire, sweep orphans, reconcile | history store (a commit appends); hub; object storage, shared with attachments |
| Content transfer (`client/realtime/contentTransfer.ts`) | transfer records, section cache | upload, resume, download, trim the cache | HTTP; IndexedDB; started by connections |
| Sharing and rotation (`server/notes/postgresMembershipRepository.ts`, `postgresRotationRepository.ts`, `client/components/SharingPanel.tsx`) | memberships, key shares, key links, key epoch | invite, revoke, rotate, retry, renew a sharing key | history store's access check; hub closes sockets |
| Note lifecycle and sections (`server/notes/*`, `client/hooks/useSectionData.ts`) | notes, sections, versions; a device's section list and loaded sections | create, save, trash, purge; create, remove, initialize a section; load, show, release | history store; events; bindings |
| Event log (`server/events/*`) | `note_events`, cursors, acknowledgements | append, replay, acknowledge, prune | hub publication; client list |
| Presence (hub, `useRealtimeEvents.ts`) | presence by note | report, leave, sweep, broadcast | sockets; access checks |
| Accounts and sessions (`server/auth/*`, `keyMaterial/*`, `client/hooks/useAuthActions.ts`) | users, key material, sessions | register, sign in, change credentials, recover, expire | every request; hub sweeps |
| Attachments (`server/attachments/*`) | attachment rows, objects, share of the storage account | reserve, store, commit, release, delete | object storage; orphan sweep |
| Client note state and autosave (`client/store/appStore.ts`, `hooks/useNoteAutosave.ts`, `useNoteActions.ts`, `useAppData.ts`) | list, drafts, save queue, issues | edit, move, save, resolve a conflict, reload, trash, create | routes with versions; events |
| Search index (`client/lib/searchIndex.ts`, `hooks/useNoteViewModel.ts`) | one record a section, labelled with a sequence | index, search, batch, replace | bindings; IndexedDB |
| Folders | rows with versions | create, rename, move, delete | routes; notes refer to them |
| Cryptography and codecs (`packages/shared`, `client/crypto`) | none | encrypt, frame, parse | everything |

What is hard here: the hub awaits between the recipients of a fan-out; a history
is read in pages while others write and compact it; a client's observed sequence
is used both to resume and to delete; sockets lose messages in both directions
and reconnect; decryption is asynchronous; uploads answer over HTTP beside the
socket; two tabs share one IndexedDB; rotation and revocation invalidate work in
flight; React effects are aborted while what they sent goes on; saves, reloads
and events of one list overlap; requests that change credentials overlap with
those that use them. `PROJECT.json` lists each hazard at its line.

What makes each component correct:

- *history*: one sequence per accepted row; an accepted edit always stays in a
  stored row; a paging reader skips nothing; no row of an old epoch after one of
  a new;
- *hub and bindings*: every accepted edit reaches every open document or a
  visible failure; a client resumes after what it really has; a checkpoint holds
  what its cutoff deletes;
- *outbox*: an edit is dropped only when the server has it; refused work stays a
  draft; every record is settled;
- *uploads, attachments, transfers*: what is committed can be read; the account
  covers what is stored and in progress; what is abandoned ends, with its
  reservation and its objects; a client drops a record only when it is committed;
- *sharing*: one key per epoch, readable by members and by nobody revoked;
- *sections*: initialized once; what is shown is open; leaving drops no edit that
  the outbox could keep;
- *events*: no change passes a client by; *presence*: everybody who views, and
  nobody else, is shown in the end;
- *accounts*: the password opens the vault; old sessions end with the password;
- *autosave*: nothing is overwritten unseen, no wish is dropped silently;
- *search*: what is called complete is.

## 2. Modules

| Module | Stands for |
|---|---|
| `DurableSection` | what the log promises: content per epoch grows, a caught-up reader knows it all |
| `SectionHistory` | the section log in PostgreSQL with access, epochs, deletion, retries, uploads, paging; implements `DurableSection` |
| `SectionSync` | hub, sockets and bindings of several clients on one section and epoch |
| `EncryptedOutbox` | the outbox of one fence over several tabs, a server that may refuse it, connections that fail |
| `ContentUpload` | uploads, manifests, attachments, objects and the account of one owner on a server that may crash |
| `ContentTransfer` | the client's side of uploads and downloads: transfer records, resumption, section cache |
| `AccountSessions` | one account's credentials and key material, its sessions and their sockets, under requests of several devices |
| `NoteSharing` | the keys of one note over its epochs, shares, links, members' sharing keys, the sharing panel's requests |
| `NoteSections` | a note's sections on the server and on the devices that show it |
| `NoteAutosave` | a client's list of notes, its save queue, and others' changes |
| `EventReplay` | the event log, its publication, and the client that follows it |
| `NotePresence` | who views a note |
| `SearchIndex` | the search index of one device, beside the bindings it takes snapshots from |
| `DeliveryProofs` | proofs about `ContentUpload` and `SectionSync` |
| `RealtimeProofs` | proofs about `SectionHistory`, `EventReplay` and `NotePresence` |
| `ClientStoresProofs` | proofs about `EncryptedOutbox` and `SearchIndex` |
| other `...Proofs` | proofs about the module they are named after |
| `MC...` | values, symmetry and bounds for TLC; `MCRealtime` composes the last three |

Definitions whose comment starts with "Faulty:" (or "The mistake of") are wrong
variants of the definition that follows them. No specification uses them: put in
its place, each makes one property fail, which shows that the property
constrains the code.

### SectionHistory

Each action is one transaction: `Persist` and `CommitManifest` check role,
epoch, deletion and cutoff (`MayWrite`), skip a duplicate (`Stored`), append at
`currentSequence + 1` and delete what a checkpoint covers (`Compacted`).
`ChangeAccess`, `Rotate`, `SetDeleted` and `Tombstone` are the note-level
transactions, reduced to what those checks read. Composed headers stay in
`header` for ever, so every request may be repeated or come late; a rejected
request changes nothing and is no step. A ciphertext is the set of edits in it.
`ReadPage` is one page of at most `MaxItems` rows, possibly shorter because of
the byte limit. Checkpoints are composed by clients that have merged what they
compact: that contract is what `SectionSync` examines.

The refinement maps the stored rows of an epoch to its content, and what a
reader had read at its last complete page to what it knows.

### SectionSync

A row is named by its sequence; `log` keeps all rows ever inserted, `stored`
those not yet compacted. A fan-out is a record in `publishing` with the
recipients left; `FanOut` serves one recipient per step, in the order of the
connections (`NextRecipient`), because the loop awaits a session check and an
access query before each send, so fan-outs of different connections overlap.
Manifests are published one at a time, as the queue does. `Subscribe` is one step
because `list` holds the section's row lock; `IsPage` and `Page` say which rows it
sends and whether more follow. A client's
`Receive` takes a message from the socket; `Apply`, `Fail` and `FinishSync` run
the head of the promise chain. The last page moves `observed` when it arrives,
not when the chain has run, as in `finishCrdtSync`. `BeginCheckpoint` fixes the
cutoff; `SealCheckpoint` encodes the document later, after the transport is
there. The threshold of 64 updates is abstracted: a ready client may begin a
checkpoint at any time. Every client may write, in one epoch. The ghost
`unmerged` goes with a checkpoint: what its author had not merged of the rows up
to the cutoff when it fixed the cutoff.

### EncryptedOutbox

The stores are shared, the rest is per tab. `flushFence` is split at its awaits:
`StartFlush` (the list is read), `AcquireLease`, `NextRecord` (acknowledgement
looked up), `Send` (the record written back, then sent), `FinishFlush`.
`recent` are records whose retry delay has not passed. A direct call of `flush`
is a timer that is due. Notification of a store change reaches every tab in the
step that makes it. A reconnected client makes a new outbox object; the model
lets it begin once the old object's write has landed.

### ContentUpload

A request that streams a body is two steps, between which anything may happen:
`StartPut`, then `RegisterChunk` or `RefusePut`; `ReserveAttachment`, then
`CommitAttachment` or `ReleaseAttachment`. All else is a transaction a step.
Objects are deleted after the transaction that made them useless: they wait in
`doomed`, which is memory of the process, so that `Crash` forgets them and only
`SweepOrphans` finds them. A crash also ends the requests; the server listens
again after `Reconcile`, as `index.ts` does, and startup maintenance expires
uploads and recomputes the account before that.

An upload counts one byte for each declared chunk, and a chunk may bring one too
many (`long`), which spoils the upload. `lapsed` holds the uploads whose expiry
date has passed, `stale` those of an epoch the note has left; `current` does the
same for attachment requests. Membership is not modelled here: a request of a
member who has lost access is refused as one for a note in the trash is.
`SweepOrphans` leaves what running requests have stored: the sweep spares
objects younger than an hour, and the model assumes that no request lasts one.
An attachment row refers to its object by a foreign key, so that a commit needs
the object and a deletion is refused; a chunk row does not, and only the
protocol protects its object. `Purge` gives back the bytes of the attachments
only, as the code does: those of contents and open uploads stay counted until
the next startup. The account is thus exact only while no note is purged, and
otherwise never too low.

### ContentTransfer

A run is one call of `resumeContentUpload`: the delivery of a new upload, or the
step of a loop `resumePersistedContent` that a connection starts (`Resumers`).
Each request and each IndexedDB operation is a step, so two runs of one upload
interleave at every await: `SaveProgress` puts the record back that the other
run has removed, and the idempotent commit removes it again. A thrown error ends
the loop (`Throw`); `storage_limit` and a full browser store let it go on
(`Finish`). `stale` are the uploads of a note that has left their epoch or is in
the trash: no request of theirs is served again, and every loop ends at them
(`Blocked`). That holds too for an upload whose commit was answered into a lost
connection before a rotation. What the record says about chunks is never read
back. Uploads and downloads share no state; an initial choice (`outgoing`) says
which of them an instance explores. Cache evictions count entries, not bytes.

### AccountSessions

A request is the sequence of database calls its route makes. A secret is named
after the device that chose it and the version it was chosen for; `Wrap` and
`Opens` say what opens a wrapped root key. `Put` and `CheckRecovery` end before
`ChangePassword`, `RotateRecoveryKey` and `Recover`, which compare the version
in their transaction. `Upgrade` finds a session, `AddClient` comes after the
handshake, whatever has become of it; `CloseSessions` closes the sockets of the
sessions a request ended once its transaction is over. Any session may expire at
any moment. `sessions.find` (select, then update) is one step; a device makes
one request at a time. Two ghosts record the code's own windows: `raced` marks
the session of a sign-in that had compared the verifier before a password change
and inserted its row after it; `unnoticed` the sockets only a sweep can find.
A lost answer to a recovery key rotation leaves the user with a recovery key he
never saw; the old one no longer opens anything.

### NoteSharing

Keys are numbered as they are made. A device of the owner sees the note as it
last loaded it; the panel's requests are steps: memberships, sharing key lookup,
invitation; preparation of a rotation, lookup and sealing for each remaining
member, the rotation, its retry, which first asks whether a lost request did its
work. The checks of the rotation's transaction are `Unmoved`, `SameMembers` and
the existence of the sharing keys. The cleanup `DELETE` of sharing keys is one
step, though no foreign key keeps it from overlapping an invitation. Ghosts:
`invites`, `known` (the keys a member was ever given), `late` (an invitation
carries no epoch, so that a share sealed before a rotation can be stored after
it: the member's whole list then fails to load).
A rotation waits until every remaining member's new sharing key is trusted.
Roles are left out, and so is the membership `DELETE` route, which no client
calls.

### NoteSections

One device is followed in full (`Clients`), another by its requests (`Others`).
A device's loads are React effects: what changes a dependency aborts the effect
and runs it again (`Run`, `Restart`, `Aborted`), and what it sent goes on.

An edit is in a binding's document (`doc`) until the outbox keeps it, and
meanwhile among its pending broadcasts. `Seal` ends one with the edit kept.
`Refuse` ends one whose store is full (`client.ts:467-479`): it leaves the pending
broadcasts just the same (`state.ts:192-198`), every release that waits for it
ends with FALSE (`sectionLifecycle.ts:212-216`), and the edit stays in the
document alone; the next release finds nothing pending and destroys it. `Release`
waits in `awaits` for what was pending when it began; `SameLease` is its check of
the generation. A binding that a rotation replaces passes its document on
(`Heir`), which is published again under the new epoch without anybody waiting
(`Republish`, `RepublishFails`; `synchronization.ts:86-91`); a republication of a
document with no such edit is left out. Initialization uploads go through the same
store and are refused in the same way. A later checkpoint could still carry a
refused edit to the server: that is not counted as keeping it.

Generations are renumbered,
identical calls in flight collapse, a manifest is identified by device, section
and epoch. The root section's binding, the error status of the index, the
15-second sync timeout and Retry are left out. `rotationFenced` is set and
cleared in one transaction, so a rotation is one step.

### NoteAutosave

What is saved of a note is its folder: titles go through the same requests. The
half-second delay, the queue, one save at a time, `Resolve` after a conflict,
failures, trashing (which first waits
for saves) and creation are actions; so are reloads for events, of which one
begun later makes an earlier one void. Others change, trash and file notes
(`SaveElsewhere`, `TrashElsewhere`, `DeleteFolderElsewhere`). `Unfiles` is FALSE because the server keeps a note's folder
when it is sent none (`notes/postgresMutationRepository.ts:154`). The ghost
`disturbed` marks notes over which a list loaded meanwhile was shown: there the
code gives the user's wish up, without a word.

### EventReplay, NotePresence, SearchIndex

`EventReplay`: an event is written with its change; `Publish` sends it to the
connections of those it concerns, `Replay` sends what follows the cursor to a
new one. The client works its batches off one by one: `Apply` drops notes it was
revoked from and asks for the list; `Show` shows it unless a load was begun
later; `Acknowledge` moves the cursor, after which the server prunes.
`NotePresence`: reports of one connection are worked off one by one, broadcasts
one by one, and both wait for the database; `Enter` stores an entry whatever has
become of connection and access. A broadcast that waits stands for all that do.
`SearchIndex`: `Covered` compares labels; a search opens sections it needs in
batches of the first ones due (`NextSections`, in the order of `Ordered`), takes
snapshots, stores them; `Refresh` does the same for a changed open section.
A section open and synchronized already may be behind the list; the ghost
`unseen` holds the edits a list counted that such a section had not received.
Query results, tokenization and discovery of notes
are left out.

The three are what a client keeps up to date over its connection and share no
state. `MCRealtime` chooses one of them initially and lets it move.

## 3. Runs

| Run | Bounds | States | Properties that hold |
|---|---|---|---|
| `section_history` | 2 accounts, 3 updates (one an upload), 2 epochs, 4 rows, pages of 2 | 852 k | `AcceptedRetained`, `ReaderMissesNothing`, `EpochsInOrder`, `ImplementsDurableSection` |
| `sync_live` | 2 clients, a frame and a manifest, pages of 1, slow decryption, 1 failure | 50 k | `NothingPassesBy`, `Converges` |
| `sync_reconnect` | 2 clients, an edit, a checkpoint, 1 disconnection, 1 resubscription, one publication at a time, whole history in a page | 400 k | `AcceptedRetained`, `ResumesAfterReconciled`, `Converges` |
| `outbox_fence` | 2 tabs, 1 record that may be refused, 1 fault | 1,049 k | `KeptUntilAccepted`, `DraftsOutliveReplies` |
| `outbox_settles` | 2 tabs that race for the lease, 1 record, 1 fault, no refusal | 208 k | `Settles` |
| `content_upload` | 2 uploads of 2 chunks, 1 attachment, 2 keys, a quota of 4 bytes, 1 crash | 178 k | `CommittedReadable`, `DeletionsMeant`, `AccountKept`, `ReservationsEnd`, `LeftoversRemoved` |
| `content_transfer` | 2 uploads of 2 chunks, the first of which may be outdated, one loop, 2 faults; 2 downloads of 3 manifests, a cache of 1 entry | 590 k | `CacheBounded`, `KeptUntilCommitted`, `TransfersSettle` |
| `account_sessions` | 2 devices, one of which connects, 3 sessions, 2 versions | 620 k | `Unlockable`, `OldSessionsCutOff`, `OrphansEnd` |
| `note_sharing` | 2 devices of the owner, 2 members, 3 epochs, 2 sharing keys, 1 invitation, 1 title | 536 k | `OneKeyPerEpoch`, `OnlyMembersRead`, `TitlesKept`, `MembersCatchUp` |
| `note_sections` | 3 sections, 1 device in full and 1 by its requests, 2 changes, 1 edit, 1 move, 3 of these together, 1 refused write | 296 k | `InitializedOnce`, `ShownIsOpen`, `EditsKept`, `SectionsShown` |
| `note_autosave` | 3 notes (one to be created), nested folders, 2 edits, 1 change elsewhere, 1 reload | 398 k | `WishesKept`, `StoresOverSeen`, `SavesSettle` |
| `realtime` | events: 2 notes, 2 users, 2 events, a replay of 3, 1 fault; presence: 2 devices, 2 connections each, 1 further move, 1 break, 1 revocation; search: 2 sections, 1 edit, 2 searches, 1 failure | 517 k | `NothingLost`, `RevokedNotTold`, `FoundWhenReady`, `Converges`, `PresenceSettles`, `SearchEnds` |

The module's type invariant is part of an invariant of each run that checks one
(`AcceptedRetained`, `Unlockable`, `OneKeyPerEpoch`, `WishesKept`, ...).
TLC's coverage of `realtime` names only the three composite steps of `MCNext`;
runs of each of the three modules alone showed that each of their actions is
taken. Larger instances that pass too: presence with 2 and 3 further moves
(without viewers at first), events with 2 faults (669 k states), transfers that
may both be outdated (1.3 M), sections with an uninitialized one (safety only,
1.5 M).

### Where the program does less than one would hope

A passing run shows that the rest is right; what its constants exclude is listed
here, because the program does it. Seven configurations are kept that fail; run
them with the MC module of the same component.

| Configuration | Property | What TLC finds |
|---|---|---|
| `SyncOverlap.cfg` | `AcceptedRetained` | Two senders' fan-outs (`hub.ts:383`) overtake each other; a third client's observed sequence passes the frame still to come, and its checkpoint deletes that edit (compare `tests/server/realtime/server.binary.test.ts:442`) |
| `SyncPaging.cfg` | `ResumesAfterReconciled` | A live update between two pages (`incoming.ts:74`) moves the resume position; after a reconnection the pages in between are never read |
| `OutboxDrafts.cfg` | `DraftsRetained` | A flush writes back a record (`outbox.ts:272`) that a rejection has made a draft (compare `tests/client/realtime/outbox.test.ts:183`) |
| `OutboxStuck.cfg` | `Settles` | A record stored while a flush ends is left without a timer (`outbox.ts:289` against `:281`) |
| `SectionsUnkept.cfg` | `NothingDropped` | The store refuses an edit while the section is left; the broadcast leaves the pending ones (`state.ts:192`), and the release destroys the document with it (the message of `client.ts:467` asks the user to keep the tab open). With `MaxRefusals = 0` and `MaxTogether = 3` too: the publication of what a rotation carried over (`synchronization.ts:86`) is not among the broadcasts a release waits for |
| `TransferStuck.cfg` | `OnlyRefusedStay` | The loop (`client.ts:233`) throws at the first record, whose note was rotated, in every connection; the second is never sent |
| `AutosaveQueue.cfg` | `QueuedDraftsKept` | When the note of a conflict has left the reloaded list, `useNoteAutosave.ts:267` returns early, and the drafts of the notes queued behind it are lost (compare `tests/client/hooks/useNoteAutosave.test.ts:343`) |

`SyncClaims.cfg` passes (1.9 M states; 94 s with four workers): with slow
decryption, an upload, short pages and a resubscription, where `AcceptedRetained`
does fail, `OnlyUnmergedLost` holds: an edit is lost only to a checkpoint whose
author had counted its row as observed without having merged it.

Other settings of the constants that break a property, each for a reason in the
code:

- `SectionSync`, `AcceptedRetained`: the observed sequence runs ahead of the
  document with `MaxFailures = 1` and a resubscription (a retry meets the last
  page of an older subscription), with `SlowDecryption = TRUE` and a
  resubscription (`finishCrdtSync` advances before the receive chain has run),
  and with an update in `LargeIds` (the response to a manifest commit passes
  frames still on their way; for the same reason `NothingPassesBy` fails with a
  manifest and a disconnection). With `MaxDisconnects = 1` a checkpoint sent on a
  connection that closes stays in phase `orphaned`: nothing settles the promise
  it awaits, and the binding makes no other.
- `EventReplay`: `InOrder = FALSE` (cursors are allocated before commit, so a
  client's cursor can pass an event that becomes visible later); more missed
  events than `ReplayLimit` (500, asked for once); `ReplayFirst = FALSE` (an
  event published while the replay is queried moves the cursor past it);
  `Alone = FALSE` (two clients of one user share one acknowledged cursor);
  `Reinvites`, `SlowLoads`, `FailingLoads` with "other" lose an event likewise.
- `NotePresence`, `PresenceSettles`: `Punctual = FALSE`. Background tabs report
  less often than every 45 s, so that a present user flickers out. An entry
  stored after its client was gone (`hub.ts:250`) lasts until the sweep.
- `SearchIndex`: `FoundWhenReady` leaves out what a list counted that an open,
  synchronized section had not received (`unseen`): its snapshot is labelled with
  the sequence of the list, which the document lacks.
  Equal labels overwrite (`indexedDb.ts:367`) and own edits do not advance
  them, so that a search's older snapshot stored late hides own edits until the
  next change; contents under one label are not told apart in the model.
- `NoteSections`: `InOrder = FALSE` with two sections to initialize breaks
  `SectionsShown` (the later answer puts an older `rootVersion` back,
  `useSectionData.ts:377`, and the section stays in error). `EditsKept` allows an
  edit in `dropped`: one its store refused, or one left to a publication nobody
  waits for (`SectionsUnkept.cfg`). Two devices that initialize at once leave orphaned
  manifests. Beyond the module: a section released and opened again on the same
  connection before its queued frame is stored misses its own edit, as the hub
  does not echo it (`hub.ts:385`, `client.ts:551`); a checkpoint of the new
  binding can then compact it away.
- `ContentTransfer`: the loop of `client.ts:233` stops at a record that is
  refused for good, on every connection, and no later one is sent
  (`TransferStuck.cfg`); that is the exception `TransfersSettle` makes, and in the
  run the second record does stand behind a refused first. An upload that expires is given up once and
  revived at the next connection.
- `NoteAutosave`: a reload whose answer is shown during a save makes the save
  "skipped", whereupon trashing does nothing; a stale load brings back a note
  just trashed; a folder's deletion moves notes without a new version
  (`drizzle/0001_folder_integrity.sql`). `disturbed` excludes these from
  `WishesKept`.
- `AccountSessions`: a sign-in that compared the verifier before a password
  change keeps the session it inserts after it (`auth/routes.ts:325`); a socket
  added after its session ended stays until something is sent or the sweep runs.
- `EncryptedOutbox`: with refusals, two records and one tab, `Settles` fails as
  in `OutboxStuck.cfg`.

**Why the bounds are enough.** Each interesting case needs few participants: a
compaction two rows and a checkpoint; a lost resume position two rows and one
reconnection; a stale write two steps of one record; a quota at its limit two
uploads that each take half of it; an object that outlives its row one crash; two
runs of an upload its delivery and one loop; a raced credential change two
devices and two versions; a rotation that meets another two devices, a link to
a key before the last three epochs; a late release one move and one reopening; an
edit lost with its section one refused write and two releases; a
conflict one change elsewhere, with a second note waiting. Three updates and
four rows let a checkpoint be repeated after its row was compacted; two epochs
let a request come from the older one; pages shorter than the history force
several. Every `Max...` constant bounds a counter that the code does not.
Symmetry is used only where no liveness property is checked. Deadlock is not
checked, because with the bounds used up a system at rest is right.

**Fairness.** `SectionSync`: hub steps complete (awaits on the database settle),
records in an outbox are sent again every two seconds, the receive chain runs,
a client reconnects with backoff. `EncryptedOutbox`: timers fire, IndexedDB
requests complete, the server answers, leases and delays run out, a lost
connection is opened again. `ContentUpload`: expiry dates come, the maintenance
timer reaches every lapsed upload and every orphan, a request ends, a stopped
server is started again. `ContentTransfer`: requests are answered and the account
keeps connecting. `AccountSessions`: the sweep runs every fifteen seconds.
`NoteSharing`: events arrive and loads are answered. `NoteSections`: effects run,
requests are answered, releases end. `NoteAutosave`: timers fire, requests are
answered or fail. `EventReplay`: queries end, queues are worked off, the client
reconnects and retries. `NotePresence`: queries end, close events arrive, the
sweep runs. `SearchIndex`: histories arrive, the store answers. The last three
have one fairness condition each on all their background steps, as none of these
can be taken for ever. What users do, refusals, crashes, lost connections and
other faults are not fair, nor is the deletion of objects after a transaction,
which a failure may skip.

## 4. Proofs

Proved with TLAPS for all values of the constants (any number of accounts,
devices, updates, epochs, rows, tabs, uploads, attachments, faults, crashes):

- `SectionHistory` (`RealtimeProofs`): `IInv` is inductive. Besides the run's invariants it
  says that stored rows were accepted unchanged, that every header's checkpoint
  still covers the accepted rows up to its cutoff (without this a late repeat of
  a checkpoint could delete what it lacks), that nothing is ahead of the counter
  or the epoch, and that a reader has only what is stored. From it follow
  `HistoryTyped`, `UniqueSequences`, `Retention`, `PagingComplete`,
  `EpochFencing`, and `Refinement`: every step of the log is a step of
  `DurableSection` or leaves it unchanged. Assumptions: `OwnerAssumption`,
  `ReadersAssumption`, `BoundsAssumption`.
- `EncryptedOutbox` (`ClientStoresProofs`): `IInv` adds to the types that acknowledgements are
  true, that what a flush or frame carries was stored before, and that an edit
  not yet enqueued is nowhere else. `NoEditLost`: a record leaves the outbox
  only once the server has its update. `DraftsSafeFromReplies`: only a flush
  that had read a record can undo its rejection, so the write that
  `OutboxDrafts.cfg` shows is the only one. Assumptions: `UpdatesAssumption` (an
  update identifier is none of the words for a flush's phases), `OutboxBounds`.
- `ContentUpload` (`DeliveryProofs`): `IInv` adds to the types that a storage key has one
  holder, that what a row or a request needs is neither gone nor doomed, that a
  chunk is in a place its upload's status allows and a manifest has all of its,
  that a starting server has no requests, and that sets of rows are finite so
  that bytes can be counted. The argument turns on the keys: a request's object
  has a key of its own, so ending another upload can doom nothing it needs.
  From it follow `ContentKept`, `OnlyLeftoversDoomed`, `QuotaKept`,
  `NothingLeaks` and `AccountAlwaysKept`. Assumptions: `NoteOfAssumption`,
  `FiniteUploads`, `SizesAssumption`.
- `AccountSessions` (`AccountSessionsProofs`): `IInv` says that the key material of the account, and
  of every copy a request has read, belongs together; that a copy whose version
  is the account's is the account; that a session's verifier is the account's
  unless it raced; and that a socket has its session, or a request or the sweep
  that is going to close it. Whoever changes the account does so only over the
  version he read, hence over all he read: this is why secrets of two devices
  never mix. From it follow `AlwaysUnlockable` and `CutOff`. Assumption:
  `LimitsAssumption`.
- `ContentTransfer` (`ContentTransferProofs`): `IInv` says of every run which record it works on,
  that the record is there or its manifest committed, and that a run at its
  removal has seen the commit. `WorkKept`: no record leaves the store before its
  manifest is committed. `CacheStaysBounded` counts together the names in the
  cache and those that downloads under way are about to put there (`CacheRoom`):
  a hit puts back only what was there when it looked, and a new entry has had
  room made for it, so each other download can add at most one. Assumptions:
  `TransferBounds` (finitely many uploads and downloads, a cache of at least one
  entry), `RecordAssumption` (the absence of a record is not a set of chunks).
- `NoteSharing` (`NoteSharingProofs`): `IInv` is about what a device may have prepared. The
  server takes a title or a rotation only while the note is at the root version
  the device saw; `IInv` says that whatever was prepared at the present root
  version agrees with the note, and that a new key nobody has used yet
  (`IsUsed`). Every step either leaves the note and the keys in use alone
  (`Quiet`) or moves the root version on (`Moved`), and then nothing prepared
  before is taken any more; so the other devices need one lemma (`OthersOK`)
  instead of one case per action. From it follow `KeysLinked`,
  `KeysReachMembers` and `NoTitleLost`. Assumptions: `SharingAssumption`,
  `NoneAssumption` (no share is no share).
- `NotePresence` (`RealtimeProofs`): `PresenceInv` adds to the types that reports wait only on
  connections that were opened (`OpenedOnly`) and that whoever shares the note
  now did so when the list under way was composed (`SharersWereSharers`). From
  it follows `RevokedAreNotTold`; it rests on the order of the two lookups in a
  broadcast, the list first and the recipient's access after it. Assumption:
  `PresenceAssumption`.
- `NoteSections` (`NoteSectionsProofs`): `Inv == Types /\ ServerOK /\ LeasesOK /\ EditsOK`. On the
  server (`ServerOK`), a section's first manifest is the one that its recorded
  initialization names. On a device (`LeasesOK`), a section that is shown holds
  the lease of the binding there is, and no waiting release has the generation of
  that lease, so that none can close it; a section has one call that is still
  listened to. `EditsOK` is `EditsKept` and that a device which may not write has
  no edits of its own. From it follow `OneInitialization`, `ShownAreOpen` and
  `EditsStay`: with a store that may refuse any write, an edit the outbox does not
  keep is destroyed only if it was refused, or if a change of epoch left it to a
  publication that had not ended. The theorem has no condition; what it allows,
  the program does (`SectionsUnkept.cfg`). Assumptions: `SectionsAssumption`,
  `NoneAssumption`.

- `NoteAutosave` (`NoteAutosaveProofs`): `IInv` says of every version the client
  knows (`VersionsOK`: the list's, a draft's, that of the save under way, that of
  a load's answer) that it was the server's, and that nothing others stored up to
  it is unseen unless a load has yet to show it; that the queue and the save
  under way have one place each (`QueueOK`); and that every wish not `disturbed`
  is on the list and either queued or carried by that save (`WishesOK`). A
  conflict is the hard case: the note leaves the queue, and its wish is carried
  by the load of the list until the draft is queued again. `SeenBeforeOverwritten`
  is the action property; it holds for every setting. `KeptUntilSettled` assumes
  `~Unfiles`: the server keeps a note's folder when a save names none, so that
  taking a note out of its folder is a wish no save can carry. Assumptions:
  `NotesAssumption` (there is a note, and "settled" is not a place),
  `BoundsAssumption`.
- `SearchIndex` (`ClientStoresProofs`): `SearchInv` says that targets lie between
  what was listed and what the server has (`TargetsKnown`), that no load asks for
  more than a target (`LoadsKnown`), that a synchronized document has every edit
  up to its target (`DocsHaveTargets`) and a record every edit up to its label
  (`RecordsHaveLabels`), and that a session that is ready has every label at
  least as listed (`ListedIndexed`). Labels only grow, whoever stores late; this
  carries `ListedIndexed` past the late writes of searches that were replaced.
  `FoundOnceReady` has no condition: what it leaves out is in the ghost `unseen`.
  Assumption: `SearchAssumption`.
- `EventReplay` (`RealtimeProofs`): `EventsInv` adds to the types
  `UnacknowledgedKept`, which the run checks as part of `NothingLost`: a member who
  has not acknowledged the last change of a note finds its event in a replay from
  what he has acknowledged. Whatever order cursors are committed, published and
  replayed in, however many clients a user has and whatever fails, pruning takes an
  event only when every member has acknowledged it, and a change is the last of its
  note. From it follow `EventsTyped` and `LastChangeKept`. That the client then
  does come to know the change (`NothingLost`, `Converges`) holds only under the
  settings section 3 lists and is model-checked, not proved. Assumptions:
  `MembersAssumption`, `EventsBounds`.
- `SectionSync` (`DeliveryProofs`), for any number of clients, edits and rows:
  - `NothingMissed`, where connections hold and nobody compacts
    (`ConnectionsHold`): decryption may be slow and fail, uploads and frames may
    be published side by side, pages may be short, sections may be retried and
    opened again. `HeldInv` says that every accepted row is, for every client,
    merged, a failure he sees, in his receive chain, his socket or a fan-out to
    come, or above a position he asks for or will ask for (`Reaches`). The run
    `sync_live` is an instance.
  - `LostToUnmerged`, without any condition: an accepted edit is in a stored row,
    or its last copy was deleted by a checkpoint whose author had counted the row
    as observed when it had not merged it. `ClaimsInv` says that a checkpoint
    begun (`EncodingClaims`) and a record composed (`RecordsClaim`) cover the rows
    up to their cutoff but for `unmerged`, and that an edit not `unmerged` is
    stored in its own row or a later one (`LossesClaimed`), so that whatever
    deletes that row deletes past the edit's. The fan-outs, retries, repeated
    records and lost connections of the program lose nothing by themselves: all
    that section 3 shows to break `AcceptedRetained` does so through the observed
    sequence.

  `AcceptedRetained` and `ResumesAfterReconciled` hold where that sequence does
  not run ahead of the document, as with the settings of `sync_reconnect`; that
  is model-checked, not proved.

  Assumptions: `ClientsAssumption` (finitely many clients), `SyncBounds`. The types
  (`SyncTyped`) need no condition.

Every inductive invariant was checked with TLC on a small instance before it was
proved (that of `SearchIndex` with two edits, `OnlyUnmergedLost` by
`SyncClaims.cfg`).

Not proved, and why. Liveness (`Settles`, `Converges`, `SectionsShown`, ...) needs
fairness and `ENABLED`, which TLAPS does not reason about: the runs check it.
Of the safety properties of the runs, those of `SectionSync` and `EventReplay`
that hold only under conditions the program does not guarantee
(`AcceptedRetained`, `ResumesAfterReconciled`, `NothingLost`) are model-checked
only; every other is stated by a theorem.

## 5. Not modelled

Cryptography, byte layouts and size limits: ciphertexts are opaque, and only
what opens them is followed. The root section's authority over the title, and
the seeding of an empty document. The removal of an account, and the clearing of
IndexedDB. Folders as rows of their own (one row under a version check).
The client of attachments. HTTP, configuration, schema migrations, the user
interface. Roles, except where they fence a write; rate limits. Tokenization,
queries and discovery of the search.

## 6. Plan

- outbox, hub and release in one model, for an edit whose section is reopened
  before its frame is stored;
- the content under one label in `SearchIndex`.
