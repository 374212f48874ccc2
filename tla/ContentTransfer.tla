-------------------------- MODULE ContentTransfer --------------------------
(***************************************************************************)
(* Encrypted content between one account's browser tabs and the server:    *)
(* uploads kept in IndexedDB until the server has committed them, and      *)
(* downloads kept in the section cache.  An upload is driven by its own    *)
(* delivery and by the resumption loops that connections start; each       *)
(* request and each IndexedDB operation of a run is one step, so two runs  *)
(* of one upload interleave at every await.                                *)
(***************************************************************************)
EXTENDS Integers, Sequences, FiniteSets, SequencesExt

CONSTANTS
  Transfers,     \* uploads, numbered in the order they are prepared
  Chunks,        \* chunk indexes of an upload
  Rotating,      \* uploads whose note may be rotated, trashed or deleted
  Resumers,      \* loops of resumePersistedContent
  Manifests,     \* committed manifests the downloads are of
  Readers,       \* downloads that may run at a time
  MaxEntries,    \* section cache entries kept
  MaxFaults,     \* bound on lost requests, expiries and full stores
  Absent         \* no record

ASSUME TransferBounds ==
  /\ Transfers = 1..Cardinality(Transfers)
  /\ Chunks = 1..Cardinality(Chunks) /\ Chunks # {}
  /\ Rotating \subseteq Transfers
  /\ Transfers \intersect Resumers = {}
  /\ IsFiniteSet(Transfers) /\ IsFiniteSet(Readers)
  /\ MaxEntries \in Nat \ {0}
  /\ MaxFaults \in Nat

ASSUME RecordAssumption == \A S \in SUBSET Chunks : S # Absent

VARIABLES
  outgoing,   \* whether this instance uploads or downloads
  prepared,   \* uploads prepared so far
  store,      \* content transfer store: [Transfers -> uploadedChunkIndexes]
  uploads,    \* content_uploads: [Transfers -> status]
  chunks,     \* content_chunks
  lapsed,     \* uploads whose expiresAt has passed
  stale,      \* uploads whose note no longer takes their epoch
  runs,       \* resumeContentUpload: [Runs -> stage, upload, received]
  todo,       \* [Runs -> records a loop still has to resume, oldest first]
  cache,      \* section cache, least recently used first
  downloads,  \* [Readers -> stage, manifest]
  faults

storeVars  == <<prepared, store>>
serverVars == <<uploads, chunks, lapsed, stale>>
runVars    == <<runs, todo>>
cacheVars  == <<cache, downloads>>
vars ==
  <<outgoing, storeVars, serverVars, runVars, cacheVars, faults>>

Runs == Transfers \union Resumers

Idle == [at |-> "idle"]

Stages == {"begin", "inspect", "save", "put", "commit", "remove"}

RunStates ==
  {Idle} \union [at : Stages, on : Transfers, got : SUBSET Chunks]

Downloading == {"lookup", "touch", "discard", "fetch", "trim", "put", "settle"}

DownloadStates ==
  {Idle} \union [at : Downloading, of : Manifests, retried : BOOLEAN]

Entries == [of : Manifests, whole : BOOLEAN]

TypeOK ==
  /\ outgoing \in BOOLEAN
  /\ prepared \in 0..Cardinality(Transfers)
  /\ \A t \in Transfers : store[t] = Absent \/ store[t] \subseteq Chunks
  /\ uploads \in
       [Transfers -> {"absent", "receiving", "complete", "committed", "expired"}]
  /\ chunks \in [Transfers -> SUBSET Chunks]
  /\ lapsed \subseteq Transfers
  /\ stale \subseteq Rotating
  /\ runs \in [Runs -> RunStates]
  /\ todo \in [Runs -> SUBSET Transfers]
  /\ cache \in Seq(Entries)
  /\ downloads \in [Readers -> DownloadStates]
  /\ faults \in 0..MaxFaults

(* Uploads and downloads share no state, so an instance has one of them.   *)
Init ==
  /\ outgoing \in BOOLEAN
  /\ prepared = 0
  /\ store = [t \in Transfers |-> Absent]
  /\ uploads = [t \in Transfers |-> "absent"]
  /\ chunks = [t \in Transfers |-> {}]
  /\ lapsed = {}
  /\ stale = {}
  /\ runs = [w \in Runs |-> Idle]
  /\ todo = [w \in Runs |-> {}]
  /\ cache = <<>>
  /\ downloads = [d \in Readers |-> Idle]
  /\ faults = 0

-----------------------------------------------------------------------------
(* Runs. *)

Stored == {t \in Transfers : store[t] # Absent}

At(w, stage) == runs[w].at = stage

On(w) == runs[w].on

Resuming(t) == [at |-> "begin", on |-> t, got |-> {}]

Go(w, stage) ==
  /\ runs' = [runs EXCEPT ![w].at = stage]
  /\ UNCHANGED todo

(* What the server is known to have is saved next. *)
ToSave(w, got) ==
  /\ runs' = [runs EXCEPT ![w] = [at |-> "save", on |-> On(w), got |-> got]]
  /\ UNCHANGED todo

(* The run is over; a loop goes on with its next record. *)
Finish(w) ==
  IF todo[w] = {}
  THEN /\ runs' = [runs EXCEPT ![w] = Idle]
       /\ UNCHANGED todo
  ELSE /\ runs' = [runs EXCEPT ![w] = Resuming(Min(todo[w]))]
       /\ todo' = [todo EXCEPT ![w] = @ \ {Min(@)}]

(* An error is thrown: the loop ends with the run. *)
Throw(w) ==
  /\ runs' = [runs EXCEPT ![w] = Idle]
  /\ todo' = [todo EXCEPT ![w] = {}]

Fault == faults < MaxFaults /\ faults' = faults + 1

(* persistPreparedTransfer: the delivery of a new upload.                  *)
Persist(t) ==
  /\ outgoing
  /\ t = prepared + 1
  /\ prepared' = t
  /\ store' = [store EXCEPT ![t] = {}]
  /\ runs' = [runs EXCEPT ![t] = Resuming(t)]
  /\ UNCHANGED <<outgoing, serverVars, todo, cacheVars, faults>>

(* resumePersistedContent: a connection lists the records, oldest first.   *)
Resume(r) ==
  /\ At(r, "idle")
  /\ Stored # {}
  /\ runs' = [runs EXCEPT ![r] = Resuming(Min(Stored))]
  /\ todo' = [todo EXCEPT ![r] = Stored \ {Min(Stored)}]
  /\ UNCHANGED <<outgoing, storeVars, serverVars, cacheVars, faults>>

(* beginContentUpload: a new upload, the one there is, or an expired one   *)
(* received again from its first chunk.                                    *)
Begin(w) ==
  /\ At(w, "begin")
  /\ LET t == On(w)
     IN  IF t \in stale
         THEN Throw(w) /\ UNCHANGED <<uploads, chunks, lapsed>>
         ELSE /\ Go(w, "inspect")
              /\ IF uploads[t] \in {"absent", "expired"}
                 THEN /\ uploads' = [uploads EXCEPT ![t] = "receiving"]
                      /\ chunks' = [chunks EXCEPT ![t] = {}]
                      /\ lapsed' = lapsed \ {t}
                 ELSE UNCHANGED <<uploads, chunks, lapsed>>
  /\ UNCHANGED <<outgoing, storeVars, stale, cacheVars, faults>>

(* Faulty: the record is given up with the upload. *)
ServerFullDrops(w) ==
  /\ At(w, "begin")
  /\ uploads[On(w)] \in {"absent", "expired"} /\ On(w) \notin stale
  /\ Fault
  /\ Finish(w)
  /\ store' = [store EXCEPT ![On(w)] = Absent]
  /\ UNCHANGED <<outgoing, prepared, serverVars, cacheVars>>

(* storage_limit or quota_exceeded: "encrypted work remains queued", and   *)
(* the loop goes on.                                                       *)
ServerFull(w) ==
  /\ At(w, "begin")
  /\ uploads[On(w)] \in {"absent", "expired"} /\ On(w) \notin stale
  /\ Fault
  /\ Finish(w)
  /\ UNCHANGED <<outgoing, storeVars, serverVars, cacheVars>>

LapsedNow(t) == t \in lapsed /\ uploads[t] \in {"receiving", "complete"}

(* Faulty: the stored progress is what has been received. *)
InspectStored(w) ==
  /\ At(w, "inspect")
  /\ LET t == On(w)
     IN  IF LapsedNow(t)
         THEN /\ uploads' = [uploads EXCEPT ![t] = "expired"]
              /\ chunks' = [chunks EXCEPT ![t] = {}]
              /\ Throw(w)
         ELSE /\ ToSave(w, IF store[t] = Absent THEN {} ELSE store[t])
              /\ UNCHANGED <<uploads, chunks>>
  /\ UNCHANGED <<outgoing, storeVars, lapsed, stale, cacheVars, faults>>

(* inspectContentUpload: the status request expires an upload whose time   *)
(* has passed, and the run then gives up; else the server says what it     *)
(* has.                                                                    *)
Inspect(w) ==
  /\ At(w, "inspect")
  /\ LET t == On(w)
     IN  IF LapsedNow(t) \/ uploads[t] = "expired"
         THEN /\ uploads' = [uploads EXCEPT ![t] = "expired"]
              /\ chunks' = [chunks EXCEPT ![t] = {}]
              /\ Throw(w)
         ELSE ToSave(w, chunks[t]) /\ UNCHANGED <<uploads, chunks>>
  /\ UNCHANGED <<outgoing, storeVars, lapsed, stale, cacheVars, faults>>

(* saveProgress puts the record whether or not it is still there; then the *)
(* first chunk the server lacks is next.                                   *)
SaveProgress(w) ==
  /\ At(w, "save")
  /\ store' = [store EXCEPT ![On(w)] = runs[w].got]
  /\ Go(w, IF runs[w].got = Chunks THEN "commit" ELSE "put")
  /\ UNCHANGED <<outgoing, prepared, serverVars, cacheVars, faults>>

(* Protected browser storage is full. *)
BrowserFull(w) ==
  /\ At(w, "save")
  /\ Fault
  /\ Finish(w)
  /\ UNCHANGED <<outgoing, storeVars, serverVars, cacheVars>>

Missing(w) == Min(Chunks \ runs[w].got)

(* putContentChunk, which a chunk another run has stored answers as well.  *)
PutChunk(w) ==
  /\ At(w, "put")
  /\ LET t == On(w)
         c == Missing(w)
     IN  IF t \in stale \/ uploads[t] \notin {"receiving", "complete"}
         THEN Throw(w) /\ UNCHANGED <<uploads, chunks>>
         ELSE /\ chunks' = [chunks EXCEPT ![t] = @ \union {c}]
              /\ uploads' = [uploads EXCEPT ![t] =
                   IF chunks'[t] = Chunks THEN "complete" ELSE @]
              /\ ToSave(w, runs[w].got \union {c})
  /\ UNCHANGED <<outgoing, storeVars, lapsed, stale, cacheVars, faults>>

(* commitContentManifest answers a repetition with the manifest there is,  *)
(* but only while the note is at the upload's epoch.                       *)
Commit(w) ==
  /\ At(w, "commit")
  /\ LET t == On(w)
     IN  IF t \in stale \/ uploads[t] \notin {"complete", "committed"}
         THEN Throw(w) /\ UNCHANGED uploads
         ELSE Go(w, "remove") /\ uploads' = [uploads EXCEPT ![t] = "committed"]
  /\ UNCHANGED <<outgoing, storeVars, chunks, lapsed, stale, cacheVars, faults>>

(* deleteContentTransfer. *)
RemoveRecord(w) ==
  /\ At(w, "remove")
  /\ store' = [store EXCEPT ![On(w)] = Absent]
  /\ Finish(w)
  /\ UNCHANGED <<outgoing, prepared, serverVars, cacheVars, faults>>

(* A request or its answer is lost, or the page is closed: after a request *)
(* whose answer is lost, before one that was not served.                   *)
Lose(w) ==
  /\ ~At(w, "idle")
  /\ Fault
  /\ Throw(w)
  /\ UNCHANGED <<outgoing, storeVars, serverVars, cacheVars>>

(* The upload's time passes; the sweep of expireUploads expires it.        *)
Lapse(t) ==
  /\ t \notin lapsed /\ uploads[t] \in {"receiving", "complete"}
  /\ Fault
  /\ lapsed' = lapsed \union {t}
  /\ UNCHANGED <<outgoing, storeVars, uploads, chunks, stale, runVars, cacheVars>>

ExpireUpload(t) ==
  /\ LapsedNow(t)
  /\ uploads' = [uploads EXCEPT ![t] = "expired"]
  /\ chunks' = [chunks EXCEPT ![t] = {}]
  /\ UNCHANGED <<outgoing, storeVars, lapsed, stale, runVars, cacheVars, faults>>

(* The note's key is rotated, or the note is trashed or deleted. *)
Outdate(t) ==
  /\ t \in Rotating \ stale
  /\ t <= prepared
  /\ stale' = stale \union {t}
  /\ UNCHANGED <<outgoing, storeVars, uploads, chunks, lapsed, runVars, cacheVars,
                 faults>>

-----------------------------------------------------------------------------
(* Downloads and the section cache. *)

Cached(m) == {e \in ToSet(cache) : e.of = m}

Without(m) == RemoveFirstMatch(cache, LAMBDA e : e.of = m)

LastOf(n, s) == IF Len(s) <= n THEN s ELSE SubSeq(s, Len(s) - n + 1, Len(s))

GoOn(d, stage) == downloads' = [downloads EXCEPT ![d].at = stage]

CacheStep == UNCHANGED <<outgoing, storeVars, serverVars, runVars>>

(* downloadVerifiedContent. *)
Download(d, m) ==
  /\ ~outgoing
  /\ downloads[d] = Idle
  /\ downloads' = [downloads EXCEPT ![d] =
                     [at |-> "lookup", of |-> m, retried |-> FALSE]]
  /\ CacheStep /\ UNCHANGED <<cache, faults>>

(* readVerifiedCache: an entry that does not decrypt is discarded. *)
LookUp(d) ==
  /\ downloads[d].at = "lookup"
  /\ LET found == Cached(downloads[d].of)
     IN  GoOn(d, IF found = {} THEN "fetch"
                 ELSE IF \A e \in found : e.whole THEN "touch" ELSE "discard")
  /\ CacheStep /\ UNCHANGED <<cache, faults>>

(* The entry as it was read is put back with the time of this access. *)
Touch(d) ==
  /\ downloads[d].at = "touch"
  /\ cache' = Append(Without(downloads[d].of), [of |-> downloads[d].of, whole |-> TRUE])
  /\ downloads' = [downloads EXCEPT ![d] = Idle]
  /\ CacheStep /\ UNCHANGED faults

Discard(d) ==
  /\ downloads[d].at = "discard"
  /\ cache' = Without(downloads[d].of)
  /\ GoOn(d, "fetch")
  /\ CacheStep /\ UNCHANGED faults

(* Faulty: the new entry is stored before room is made for it. *)
FetchUntrimmed(d) ==
  /\ downloads[d].at = "fetch"
  /\ GoOn(d, "put")
  /\ CacheStep /\ UNCHANGED <<cache, faults>>

(* Every chunk is downloaded and the whole content verified. *)
Fetch(d) ==
  /\ downloads[d].at = "fetch"
  /\ GoOn(d, "trim")
  /\ CacheStep /\ UNCHANGED <<cache, faults>>

(* A chunk cannot be downloaded, or the content does not verify. *)
FetchFails(d) ==
  /\ downloads[d].at = "fetch"
  /\ Fault
  /\ downloads' = [downloads EXCEPT ![d] = Idle]
  /\ CacheStep /\ UNCHANGED cache

(* evictSectionCache makes room for the entry ... *)
Trim(d) ==
  /\ downloads[d].at = "trim"
  /\ cache' = LastOf(MaxEntries - 1, cache)
  /\ GoOn(d, "put")
  /\ CacheStep /\ UNCHANGED faults

(* ... which is stored; a full store is trimmed and tried once more ... *)
PutCache(d) ==
  /\ downloads[d].at = "put"
  /\ cache' = Append(Without(downloads[d].of), [of |-> downloads[d].of, whole |-> TRUE])
  /\ GoOn(d, "settle")
  /\ CacheStep /\ UNCHANGED faults

PutCacheFull(d) ==
  /\ downloads[d].at = "put"
  /\ Fault
  /\ downloads' = [downloads EXCEPT
       ![d].at = IF downloads[d].retried THEN "settle" ELSE "trim",
       ![d].retried = TRUE]
  /\ CacheStep /\ UNCHANGED cache

(* ... and the cache is trimmed again. *)
SettleCache(d) ==
  /\ downloads[d].at = "settle"
  /\ cache' = LastOf(MaxEntries, cache)
  /\ downloads' = [downloads EXCEPT ![d] = Idle]
  /\ CacheStep /\ UNCHANGED faults

(* A stored entry is damaged. *)
Damage(i) ==
  /\ cache[i].whole
  /\ Fault
  /\ cache' = [cache EXCEPT ![i].whole = FALSE]
  /\ CacheStep /\ UNCHANGED downloads

-----------------------------------------------------------------------------

RunStep(w) ==
  \/ Begin(w) \/ Inspect(w) \/ SaveProgress(w) \/ PutChunk(w)
  \/ Commit(w) \/ RemoveRecord(w)

DownloadStep(d) ==
  \/ LookUp(d) \/ Touch(d) \/ Discard(d) \/ Fetch(d) \/ FetchFails(d)
  \/ Trim(d) \/ PutCache(d) \/ PutCacheFull(d) \/ SettleCache(d)

Next ==
  \/ \E t \in Transfers : Persist(t) \/ Lapse(t) \/ ExpireUpload(t) \/ Outdate(t)
  \/ \E r \in Resumers : Resume(r)
  \/ \E w \in Runs : RunStep(w) \/ ServerFull(w) \/ BrowserFull(w) \/ Lose(w)
  \/ \E d \in Readers : DownloadStep(d) \/ \E m \in Manifests : Download(d, m)
  \/ \E i \in DOMAIN cache : Damage(i)

Spec == Init /\ [][Next]_vars

(* Requests are answered, IndexedDB operations complete, and the account   *)
(* keeps connecting.                                                       *)
FairSpec ==
  /\ Spec
  /\ \A w \in Runs : WF_vars(RunStep(w))
  /\ \A r \in Resumers : WF_vars(Resume(r))

-----------------------------------------------------------------------------
(* Properties. *)

(* A record leaves the store only when the server has committed its        *)
(* manifest: a full server, an expired upload, a lost answer or the other  *)
(* run of the same upload never drops encrypted work ("it remains queued").*)
KeptUntilCommitted ==
  [][\A t \in Transfers :
       t \in Stored /\ store'[t] = Absent => uploads[t] = "committed"]_vars

(* A loop stops at the first upload whose note no longer takes its epoch,  *)
(* in every connection, and with it every later upload.                    *)
Blocked(t) == \E u \in Stored \intersect stale : u <= t

(* Otherwise every upload is delivered and its record removed: through     *)
(* expiry, full stores and lost answers, and though a run may put back the *)
(* record another has removed.                                             *)
TransfersSettle ==
  \A t \in Transfers : []<>(t \notin Stored \/ Blocked(t))

(* What one would wish: only a record whose own note has moved on stays.   *)
(* Not so, as a loop stops at the first record that throws.                *)
OnlyRefusedStay ==
  \A t \in Transfers : []<>(t \notin Stored \/ t \in stale)

(* The cache outgrows its bound by less than the number of downloads: a    *)
(* hit puts back an entry another download has evicted meanwhile, and      *)
(* nothing trims the cache after it.                                       *)
CacheBounded ==
  /\ TypeOK
  /\ Len(cache) <= MaxEntries + Cardinality(Readers) - 1
  /\ \A i, j \in DOMAIN cache : cache[i].of = cache[j].of => i = j
=============================================================================
