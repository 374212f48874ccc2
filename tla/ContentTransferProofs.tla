----------------------- MODULE ContentTransferProofs ------------------------
(***************************************************************************)
(* That no encrypted work is dropped, and that the section cache stays     *)
(* bounded.  A record leaves the store only when the server has committed  *)
(* its manifest: the run that removes it has had its commit answered, a    *)
(* committed upload never becomes anything else, and whatever a run saves  *)
(* about a record, it is not its absence.  The cache is bounded with what  *)
(* the downloads under way are going to put into it.                       *)
(***************************************************************************)
EXTENDS ContentTransfer, FiniteSetTheorems, SequenceTheorems, WellFoundedInduction, TLAPS

Statuses == {"absent", "receiving", "complete", "committed", "expired"}

Working == [at : Stages, on : Transfers, got : SUBSET Chunks]

(* A run that goes to put a chunk lacks one, and one that goes to remove a *)
(* record has had its upload committed.                                    *)
RunOK(w) ==
  \/ runs[w] = Idle
  \/ /\ runs[w] \in Working
     /\ At(w, "put") => runs[w].got # Chunks
     /\ At(w, "remove") => uploads[On(w)] = "committed"

StoreType == store \in [Transfers -> (SUBSET Chunks) \union {Absent}]
UploadsType == uploads \in [Transfers -> Statuses]
ChunksType == chunks \in [Transfers -> SUBSET Chunks]
RunsOK ==
  /\ runs \in [Runs -> RunStates] /\ todo \in [Runs -> SUBSET Transfers]
  /\ \A w \in Runs : RunOK(w)

IInv == StoreType /\ UploadsType /\ ChunksType /\ RunsOK

CommittedStays ==
  \A t \in Transfers : uploads[t] = "committed" => uploads'[t] = "committed"

-----------------------------------------------------------------------------
(* Numbers. *)

LEMMA LeastNumber ==
  ASSUME NEW S \in SUBSET Nat, S # {}
  PROVE  Min(S) \in S
  <1>1. PICK n \in S : \A m \in S : ~ (<<m, n>> \in OpToRel(<, Nat))
    BY NatLessThanWellFounded, WFMin
  <1>2. \A m \in S : ~(m < n)
    BY <1>1 DEF OpToRel
  <1>3. \E x \in S : \A y \in S : x <= y
    BY <1>2
  <1> QED BY <1>3 DEF Min

LEMMA NumbersOfChunksAndUploads == Chunks \subseteq Nat /\ Transfers \subseteq Nat
  <1>1. \A n : 1..n \subseteq Nat
    OBVIOUS
  <1>2. PICK n : Chunks = 1..n
    BY TransferBounds
  <1>3. PICK k : Transfers = 1..k
    BY TransferBounds
  <1> QED BY <1>1, <1>2, <1>3

LEMMA MissingIsAChunk ==
  ASSUME NEW w \in Runs, runs[w].got \in SUBSET Chunks, runs[w].got # Chunks
  PROVE  Missing(w) \in Chunks
  BY LeastNumber, NumbersOfChunksAndUploads DEF Missing

LEMMA OldestIsAnUpload ==
  ASSUME NEW S \in SUBSET Transfers, S # {}
  PROVE  Min(S) \in Transfers
  BY LeastNumber, NumbersOfChunksAndUploads

-----------------------------------------------------------------------------
(* What a step leaves alone stays right. *)

LEMMA RunKept ==
  ASSUME NEW w, RunOK(w), runs'[w] = runs[w], CommittedStays
  PROVE  RunOK(w)'
  BY DEF RunOK, CommittedStays, At, On, Working

LEMMA OthersKept ==
  ASSUME RunsOK, CommittedStays, NEW w \in Runs, NEW r \in RunStates,
         runs' = [runs EXCEPT ![w] = r], RunOK(w)',
         todo' \in [Runs -> SUBSET Transfers]
  PROVE  RunsOK'
  <1>1. runs' \in [Runs -> RunStates] /\ \A v \in Runs \ {w} : runs'[v] = runs[v]
    BY DEF RunsOK
  <1>2. \A v \in Runs : RunOK(v)'
    BY <1>1, RunKept DEF RunsOK
  <1> QED BY <1>1, <1>2 DEF RunsOK

LEMMA AllKept ==
  ASSUME RunsOK, CommittedStays, UNCHANGED runVars
  PROVE  RunsOK'
  BY RunKept DEF RunsOK, runVars

(* A run that begins with a record, and one that is over, claims nothing.  *)
LEMMA BeginningOK ==
  ASSUME NEW w \in Runs, runs'[w] = Idle \/ \E t \in Transfers : runs'[w] = Resuming(t)
  PROVE  RunOK(w)' /\ runs'[w] \in RunStates
  <1>1. CASE runs'[w] = Idle
    BY <1>1 DEF RunOK, RunStates
  <1>2. CASE \E t \in Transfers : runs'[w] = Resuming(t)
    <2>1. PICK t \in Transfers : runs'[w] = [at |-> "begin", on |-> t, got |-> {}]
      BY <1>2 DEF Resuming
    <2> QED BY <2>1 DEF RunOK, Working, RunStates, Stages, At, On
  <1> QED BY <1>1, <1>2

LEMMA BegunOK ==
  ASSUME RunsOK, CommittedStays, NEW w \in Runs, NEW r,
         r = Idle \/ \E t \in Transfers : r = Resuming(t),
         runs' = [runs EXCEPT ![w] = r], todo' \in [Runs -> SUBSET Transfers]
  PROVE  RunsOK'
  <1>1. runs'[w] = r
    BY DEF RunsOK
  <1> QED BY <1>1, BeginningOK, OthersKept

LEMMA FinishOK ==
  ASSUME NEW w \in Runs, RunsOK, CommittedStays, Finish(w)
  PROVE  RunsOK'
  <1>1. todo[w] \in SUBSET Transfers /\ todo' \in [Runs -> SUBSET Transfers]
    BY DEF Finish, RunsOK
  <1>2. \E r : /\ runs' = [runs EXCEPT ![w] = r]
               /\ r = Idle \/ \E t \in Transfers : r = Resuming(t)
    BY <1>1, OldestIsAnUpload DEF Finish
  <1> QED BY <1>1, <1>2, BegunOK

LEMMA ThrowOK ==
  ASSUME NEW w \in Runs, RunsOK, CommittedStays, Throw(w)
  PROVE  RunsOK'
  <1>1. todo' \in [Runs -> SUBSET Transfers]
    BY DEF Throw, RunsOK
  <1> QED BY <1>1, BegunOK DEF Throw

(* A run that goes on to a stage which promises nothing new.               *)
LEMMA GoOK ==
  ASSUME NEW w \in Runs, RunsOK, CommittedStays, runs[w] # Idle,
         NEW stage \in Stages, Go(w, stage),
         stage = "put" => runs[w].got # Chunks,
         stage = "remove" => uploads'[On(w)] = "committed"
  PROVE  RunsOK'
  <1>1. runs[w] \in Working
    BY DEF RunsOK, RunOK
  <1> DEFINE r == [runs[w] EXCEPT !.at = stage]
  <1>2. /\ runs' = [runs EXCEPT ![w] = r]
        /\ r \in Working /\ r.at = stage /\ r.got = runs[w].got /\ r.on = runs[w].on
    BY <1>1 DEF Go, Working
  <1> HIDE DEF r
  <1>3. runs'[w] = r
    BY <1>2 DEF RunsOK
  <1>4. RunOK(w)'
    BY <1>2, <1>3 DEF RunOK, On, At
  <1>5. r \in RunStates /\ todo' \in [Runs -> SUBSET Transfers]
    BY <1>2 DEF RunStates, Working, RunsOK, Go
  <1> QED BY <1>2, <1>4, <1>5, OthersKept

LEMMA ToSaveOK ==
  ASSUME NEW w \in Runs, RunsOK, CommittedStays, runs[w] # Idle,
         NEW got \in SUBSET Chunks, ToSave(w, got)
  PROVE  RunsOK'
  <1> DEFINE r == [at |-> "save", on |-> On(w), got |-> got]
  <1>1. On(w) \in Transfers
    BY DEF RunsOK, RunOK, Working, On
  <1>2. runs' = [runs EXCEPT ![w] = r] /\ r \in Working /\ r.at = "save"
    BY <1>1 DEF ToSave, Working, Stages
  <1> HIDE DEF r
  <1>3. runs'[w] = r
    BY <1>2 DEF RunsOK
  <1>4. RunOK(w)'
    BY <1>2, <1>3 DEF RunOK, At
  <1>5. r \in RunStates /\ todo' \in [Runs -> SUBSET Transfers]
    BY <1>2 DEF RunStates, Working, RunsOK, ToSave
  <1> QED BY <1>2, <1>4, <1>5, OthersKept

LEMMA Works ==
  ASSUME RunsOK, NEW w \in Runs, runs[w] # Idle
  PROVE  On(w) \in Transfers /\ runs[w].got \in SUBSET Chunks
  BY DEF RunsOK, RunOK, Working, On

-----------------------------------------------------------------------------
(* One lemma for each action that touches the four variables. *)

LEMMA InitOK == Init => IInv
  <1> SUFFICES ASSUME Init PROVE IInv OBVIOUS
  <1>1. StoreType
    BY DEF Init, StoreType
  <1>2. UploadsType
    BY DEF Init, UploadsType, Statuses
  <1>3. ChunksType
    BY DEF Init, ChunksType
  <1>4. RunsOK
    BY DEF Init, RunsOK, RunOK, RunStates
  <1> QED BY <1>1, <1>2, <1>3, <1>4 DEF IInv

LEMMA PersistOK == ASSUME IInv, NEW t \in Transfers, Persist(t) PROVE IInv'
  <1>1. StoreType' /\ UploadsType' /\ ChunksType' /\ CommittedStays
    BY DEF IInv, Persist, StoreType, UploadsType, ChunksType, serverVars, CommittedStays
  <1>2. /\ t \in Runs /\ runs' = [runs EXCEPT ![t] = Resuming(t)]
        /\ todo' \in [Runs -> SUBSET Transfers]
    BY DEF Persist, Runs, IInv, RunsOK
  <1> QED BY <1>1, <1>2, BegunOK DEF IInv

LEMMA ResumeOK == ASSUME IInv, NEW r \in Resumers, Resume(r) PROVE IInv'
  <1>1. StoreType' /\ UploadsType' /\ ChunksType' /\ CommittedStays
    BY DEF IInv, Resume, StoreType, UploadsType, ChunksType, serverVars, storeVars,
           CommittedStays
  <1>2. Stored \in SUBSET Transfers /\ Stored # {}
    BY DEF Resume, Stored
  <1>3. /\ r \in Runs /\ runs' = [runs EXCEPT ![r] = Resuming(Min(Stored))]
        /\ todo' \in [Runs -> SUBSET Transfers]
    BY <1>2 DEF Resume, IInv, RunsOK, Runs
  <1> QED BY <1>1, <1>2, <1>3, OldestIsAnUpload, BegunOK DEF IInv

LEMMA BeginOK == ASSUME IInv, NEW w \in Runs, Begin(w) PROVE IInv'
  <1>1. StoreType' /\ UploadsType' /\ ChunksType' /\ CommittedStays
    BY DEF IInv, Begin, StoreType, UploadsType, ChunksType, Statuses, storeVars,
           CommittedStays
  <1>2. runs[w] # Idle
    BY DEF Begin, At, Idle
  <1>3. Throw(w) \/ Go(w, "inspect")
    BY DEF Begin
  <1> QED BY <1>1, <1>2, <1>3, ThrowOK, GoOK DEF IInv, Stages

LEMMA InspectOK == ASSUME IInv, NEW w \in Runs, Inspect(w) PROVE IInv'
  <1> DEFINE t == On(w)
  <1>1. StoreType' /\ UploadsType' /\ ChunksType' /\ CommittedStays
    BY DEF IInv, Inspect, LapsedNow, StoreType, UploadsType, ChunksType, Statuses,
           storeVars, CommittedStays
  <1>2. CASE Throw(w)
    BY <1>1, <1>2, ThrowOK DEF IInv
  <1>3. CASE ToSave(w, chunks[t])
    <2>1. runs[w] # Idle
      BY DEF Inspect, At, Idle
    <2>2. chunks[t] \in SUBSET Chunks
      BY <2>1, Works DEF IInv, ChunksType
    <2> QED BY <1>1, <1>3, <2>1, <2>2, ToSaveOK DEF IInv
  <1> QED BY <1>2, <1>3 DEF Inspect

LEMMA SaveProgressOK == ASSUME IInv, NEW w \in Runs, SaveProgress(w) PROVE IInv'
  <1>1. runs[w] # Idle
    BY DEF SaveProgress, At, Idle
  <1>2. StoreType' /\ UploadsType' /\ ChunksType' /\ CommittedStays
    BY <1>1, Works DEF IInv, SaveProgress, StoreType, UploadsType, ChunksType, serverVars,
           CommittedStays
  <1>3. CASE runs[w].got = Chunks
    <2>1. Go(w, "commit")
      BY <1>3 DEF SaveProgress
    <2> QED BY <1>1, <1>2, <2>1, GoOK DEF IInv, Stages
  <1>4. CASE runs[w].got # Chunks
    <2>1. Go(w, "put")
      BY <1>4 DEF SaveProgress
    <2> QED BY <1>1, <1>2, <1>4, <2>1, GoOK DEF IInv, Stages
  <1> QED BY <1>3, <1>4

LEMMA PutChunkOK == ASSUME IInv, NEW w \in Runs, PutChunk(w) PROVE IInv'
  <1> DEFINE t == On(w)
             c == Missing(w)
  <1>1. runs[w] # Idle
    BY DEF PutChunk, At, Idle
  <1>2. t \in Transfers /\ c \in Chunks /\ runs[w].got \in SUBSET Chunks
    BY <1>1, Works, MissingIsAChunk DEF IInv, RunsOK, RunOK, PutChunk
  <1>3. CASE Throw(w) /\ UNCHANGED <<uploads, chunks>>
    <2>1. StoreType' /\ UploadsType' /\ ChunksType' /\ CommittedStays
      BY <1>3 DEF IInv, PutChunk, StoreType, UploadsType, ChunksType, storeVars,
                  CommittedStays
    <2> QED BY <1>3, <2>1, ThrowOK DEF IInv
  <1>4. CASE /\ uploads[t] \in {"receiving", "complete"}
             /\ chunks' = [chunks EXCEPT ![t] = @ \union {c}]
             /\ uploads' = [uploads EXCEPT ![t] =
                              IF chunks'[t] = Chunks THEN "complete" ELSE @]
             /\ ToSave(w, runs[w].got \union {c})
    <2>1. ChunksType'
      BY <1>2, <1>4 DEF IInv, ChunksType
    <2>2. UploadsType' /\ CommittedStays
      BY <1>4 DEF IInv, UploadsType, Statuses, CommittedStays
    <2>3. StoreType'
      BY DEF IInv, PutChunk, StoreType, storeVars
    <2>4. runs[w].got \union {c} \in SUBSET Chunks
      BY <1>2
    <2> QED BY <1>1, <1>4, <2>1, <2>2, <2>3, <2>4, ToSaveOK DEF IInv
  <1> QED BY <1>3, <1>4 DEF PutChunk

LEMMA CommitOK == ASSUME IInv, NEW w \in Runs, Commit(w) PROVE IInv'
  <1>1. StoreType' /\ UploadsType' /\ ChunksType' /\ CommittedStays
    BY DEF IInv, Commit, StoreType, UploadsType, ChunksType, Statuses, storeVars,
           CommittedStays
  <1>2. runs[w] # Idle
    BY DEF Commit, At, Idle
  <1>3. CASE Throw(w)
    BY <1>1, <1>3, ThrowOK DEF IInv
  <1>4. CASE Go(w, "remove") /\ uploads' = [uploads EXCEPT ![On(w)] = "committed"]
    <2>1. uploads'[On(w)] = "committed"
      BY <1>2, <1>4, Works DEF IInv, UploadsType
    <2> QED BY <1>1, <1>2, <1>4, <2>1, GoOK DEF IInv, Stages
  <1> QED BY <1>3, <1>4 DEF Commit

LEMMA RemoveRecordOK == ASSUME IInv, NEW w \in Runs, RemoveRecord(w) PROVE IInv'
  <1>1. StoreType'
    BY DEF IInv, RemoveRecord, StoreType
  <1>2. UNCHANGED <<uploads, chunks>> /\ Finish(w)
    BY DEF RemoveRecord, serverVars
  <1>3. UploadsType' /\ ChunksType' /\ CommittedStays
    BY <1>2 DEF IInv, UploadsType, ChunksType, CommittedStays
  <1> QED BY <1>1, <1>2, <1>3, FinishOK DEF IInv

LEMMA FaultOK ==
  ASSUME IInv, NEW w \in Runs, ServerFull(w) \/ BrowserFull(w) \/ Lose(w)
  PROVE  IInv'
  <1>1. UNCHANGED <<storeVars, serverVars>> /\ (Finish(w) \/ Throw(w))
    BY DEF ServerFull, BrowserFull, Lose
  <1>2. StoreType' /\ UploadsType' /\ ChunksType' /\ CommittedStays
    BY <1>1 DEF IInv, StoreType, UploadsType, ChunksType, storeVars, serverVars,
                CommittedStays
  <1> QED BY <1>1, <1>2, FinishOK, ThrowOK DEF IInv

LEMMA ExpireUploadOK == ASSUME IInv, NEW t \in Transfers, ExpireUpload(t) PROVE IInv'
  <1>1. StoreType' /\ UploadsType' /\ ChunksType' /\ CommittedStays
    BY DEF IInv, ExpireUpload, LapsedNow, StoreType, UploadsType, ChunksType, Statuses,
           storeVars, CommittedStays
  <1> QED BY <1>1, AllKept DEF ExpireUpload, IInv

LEMMA RestOK ==
  ASSUME IInv, UNCHANGED <<store, uploads, chunks, runVars>>
  PROVE  IInv'
  <1>1. StoreType' /\ UploadsType' /\ ChunksType' /\ CommittedStays
    BY DEF IInv, StoreType, UploadsType, ChunksType, CommittedStays
  <1> QED BY <1>1, AllKept DEF IInv

LEMMA CacheStepsRest ==
  ASSUME (\E d \in Readers : DownloadStep(d) \/ \E m \in Manifests : Download(d, m))
         \/ \E i \in DOMAIN cache : Damage(i)
  PROVE  CacheStep
  BY DEF DownloadStep, LookUp, Touch, Discard, Fetch, FetchFails, Trim, PutCache,
         PutCacheFull, SettleCache, Download, Damage

LEMMA NextOK == IInv /\ [Next]_vars => IInv'
  <1> SUFFICES ASSUME IInv, [Next]_vars PROVE IInv' OBVIOUS
  <1>1. CASE \E t \in Transfers : Persist(t) \/ ExpireUpload(t)
    BY <1>1, PersistOK, ExpireUploadOK
  <1>2. CASE \E t \in Transfers : Lapse(t) \/ Outdate(t)
    <2>1. UNCHANGED <<store, uploads, chunks, runVars>>
      BY <1>2 DEF Lapse, Outdate, storeVars
    <2> QED BY <2>1, RestOK
  <1>3. CASE \E r \in Resumers : Resume(r)
    BY <1>3, ResumeOK
  <1>4. CASE \E w \in Runs : RunStep(w)
    BY <1>4, BeginOK, InspectOK, SaveProgressOK, PutChunkOK, CommitOK, RemoveRecordOK
       DEF RunStep
  <1>5. CASE \E w \in Runs : ServerFull(w) \/ BrowserFull(w) \/ Lose(w)
    BY <1>5, FaultOK
  <1>6. CASE (\E d \in Readers : DownloadStep(d) \/ \E m \in Manifests : Download(d, m))
             \/ \E i \in DOMAIN cache : Damage(i)
    <2>1. CacheStep
      BY <1>6, CacheStepsRest
    <2>2. UNCHANGED <<store, uploads, chunks, runVars>>
      BY <2>1 DEF CacheStep, storeVars, serverVars
    <2> QED BY <2>2, RestOK
  <1>7. CASE UNCHANGED vars
    <2>1. UNCHANGED <<store, uploads, chunks, runVars>>
      BY <1>7 DEF vars, storeVars, serverVars
    <2> QED BY <2>1, RestOK
  <1> QED BY <1>1, <1>2, <1>3, <1>4, <1>5, <1>6, <1>7 DEF Next

(* The strengthened invariant of contentTransfer.ts: a run that is about   *)
(* to remove a record has seen its upload committed, and a committed       *)
(* upload stays so, whatever expires, fails or runs beside it.             *)
THEOREM Invariance == Spec => []IInv
  BY InitOK, NextOK, PTL DEF Spec

-----------------------------------------------------------------------------

LEMMA RecordStep ==
  ASSUME IInv, [Next]_vars, NEW t \in Transfers,
         t \in Stored, store'[t] = Absent
  PROVE  uploads[t] = "committed"
  <1>1. store[t] # Absent /\ DOMAIN store = Transfers
    BY DEF Stored, IInv, StoreType
  <1>2. ASSUME NEW u \in Transfers, Persist(u) PROVE FALSE
    BY <1>1, <1>2, RecordAssumption DEF Persist, IInv, StoreType
  <1>3. ASSUME NEW w \in Runs, SaveProgress(w) PROVE FALSE
    <2>1. runs[w].got # Absent
      BY <1>3, RecordAssumption, Works DEF IInv, SaveProgress, At, Idle
    <2> QED BY <1>1, <1>3, <2>1 DEF SaveProgress
  <1>4. ASSUME NEW w \in Runs, RemoveRecord(w) PROVE uploads[t] = "committed"
    <2>1. On(w) = t
      BY <1>1, <1>4 DEF RemoveRecord
    <2> QED BY <1>4, <2>1 DEF IInv, RunsOK, RunOK, RemoveRecord, At, Idle
  <1>5. CASE UNCHANGED store
    BY <1>1, <1>5
  <1>6. CASE \E u \in Transfers : Persist(u) \/ Lapse(u) \/ ExpireUpload(u) \/ Outdate(u)
    BY <1>2, <1>5, <1>6 DEF Lapse, ExpireUpload, Outdate, storeVars
  <1>7. CASE \E r \in Resumers : Resume(r)
    BY <1>5, <1>7 DEF Resume, storeVars
  <1>8. CASE \E w \in Runs : RunStep(w)
    BY <1>3, <1>4, <1>5, <1>8 DEF RunStep, Begin, Inspect, PutChunk, Commit, storeVars
  <1>9. CASE \E w \in Runs : ServerFull(w) \/ BrowserFull(w) \/ Lose(w)
    BY <1>5, <1>9 DEF ServerFull, BrowserFull, Lose, storeVars
  <1>10. CASE (\E d \in Readers : DownloadStep(d) \/ \E m \in Manifests : Download(d, m))
              \/ \E i \in DOMAIN cache : Damage(i)
    BY <1>5, <1>10, CacheStepsRest DEF CacheStep, storeVars
  <1>11. CASE UNCHANGED vars
    BY <1>5, <1>11 DEF vars, storeVars
  <1> QED BY <1>6, <1>7, <1>8, <1>9, <1>10, <1>11 DEF Next

(* For any number of uploads, chunks, resumption loops and faults, no      *)
(* record of encrypted work leaves the store before the server has         *)
(* committed its manifest (contentTransfer.ts, client.ts).                 *)
THEOREM WorkKept == Spec => KeptUntilCommitted
  <1>1. IInv /\ [Next]_vars =>
          [\A t \in Transfers :
             t \in Stored /\ store'[t] = Absent => uploads[t] = "committed"]_vars
    BY RecordStep
  <1> QED BY <1>1, Invariance, PTL DEF Spec, KeptUntilCommitted

-----------------------------------------------------------------------------
(* The section cache. *)

Names(c) == {c[i].of : i \in DOMAIN c}

OneEach(c) == \A i, j \in DOMAIN c : c[i].of = c[j].of => i = j

(* What the downloads under way are going to put.                          *)
Coming == {downloads[d].of : d \in {r \in Readers : downloads[r].at \in {"touch", "put"}}}

CacheType ==
  /\ cache \in Seq(Entries) /\ OneEach(cache)
  /\ downloads \in [Readers -> DownloadStates]

(* A hit puts back only what was in the cache, and a new entry has had     *)
(* room made for it: so what is in the cache and what is coming to it are  *)
(* bounded together.                                                       *)
CacheRoom ==
  Cardinality(Names(cache) \union Coming) <= MaxEntries + Cardinality(Readers) - 1

LEMMA NamesCounted ==
  ASSUME NEW c \in Seq(Entries), OneEach(c)
  PROVE  IsFiniteSet(Names(c)) /\ Cardinality(Names(c)) = Len(c) /\ Len(c) \in Nat
  <1> DEFINE f == [i \in 1..Len(c) |-> c[i].of]
  <1>1. DOMAIN c = 1..Len(c) /\ Len(c) \in Nat
    BY LenProperties
  <1>2. f \in Surjection(1..Len(c), Names(c)) /\ f \in Injection(1..Len(c), Names(c))
    BY <1>1 DEF Names, OneEach, Surjection, Injection, IsInjective
  <1>3. IsFiniteSet(1..Len(c)) /\ Cardinality(1..Len(c)) = Len(c)
    BY <1>1, FS_Interval
  <1> QED BY <1>1, <1>2, <1>3, FS_Surjection

LEMMA LastOfKept ==
  ASSUME NEW c \in Seq(Entries), OneEach(c), NEW n \in Nat
  PROVE  /\ LastOf(n, c) \in Seq(Entries) /\ OneEach(LastOf(n, c))
         /\ Names(LastOf(n, c)) \subseteq Names(c) /\ Len(LastOf(n, c)) <= n
  <1>1. DOMAIN c = 1..Len(c) /\ Len(c) \in Nat /\ \A i \in 1..Len(c) : c[i] \in Entries
    BY LenProperties, ElementOfSeq
  <1>2. CASE Len(c) <= n
    BY <1>1, <1>2 DEF LastOf
  <1>3. CASE ~(Len(c) <= n)
    <2> DEFINE k == Len(c) - n
               l == SubSeq(c, k + 1, Len(c))
    <2>1. LastOf(n, c) = l /\ k \in Nat /\ k + n = Len(c)
      BY <1>1, <1>3 DEF LastOf
    <2>2. l \in Seq(Entries) /\ Len(l) = n /\ \A i \in 1..n : l[i] = c[i + k]
      <3>1. \A i \in (k + 1)..Len(c) : c[i] \in Entries
        BY <1>1, <2>1
      <3>2. k + 1 \in Int /\ Len(c) \in Int /\ (k + 1 <= Len(c) <=> n # 0)
            /\ Len(c) - (k + 1) + 1 = n
        BY <1>1, <2>1
      <3> HIDE DEF k
      <3>3. /\ l \in Seq(Entries)
            /\ Len(l) = IF k + 1 <= Len(c) THEN Len(c) - (k + 1) + 1 ELSE 0
            /\ \A i \in 1..(Len(c) - (k + 1) + 1) : l[i] = c[(k + 1) + i - 1]
        BY <3>1, <3>2, SubSeqProperties
      <3>4. \A i \in 1..n : l[i] = c[(k + 1) + i - 1] /\ (k + 1) + i - 1 = i + k
        BY <2>1, <3>2, <3>3
      <3> QED BY <3>2, <3>3, <3>4
    <2> HIDE DEF k, l
    <2>3. DOMAIN l = 1..n
      BY <2>2, LenProperties
    <2>4. \A i \in 1..n : i + k \in 1..Len(c)
      BY <1>1, <2>1
    <2>5. Names(l) \subseteq Names(c)
      BY <1>1, <2>2, <2>3, <2>4 DEF Names
    <2>6. OneEach(l)
      <3> SUFFICES ASSUME NEW i \in 1..n, NEW j \in 1..n, l[i].of = l[j].of PROVE i = j
        BY <2>3 DEF OneEach
      <3>1. i + k = j + k
        BY <1>1, <2>2, <2>4 DEF OneEach
      <3> QED BY <2>1, <3>1
    <2> QED BY <2>1, <2>2, <2>5, <2>6
  <1> QED BY <1>2, <1>3

LEMMA RemovedAt ==
  ASSUME NEW c \in Seq(Entries), OneEach(c), NEW i \in 1..Len(c)
  PROVE  /\ RemoveAt(c, i) \in Seq(Entries) /\ OneEach(RemoveAt(c, i))
         /\ Names(RemoveAt(c, i)) \subseteq Names(c) \ {c[i].of}
  <1> DEFINE a == SubSeq(c, 1, i - 1)
             b == SubSeq(c, i + 1, Len(c))
             l == a \o b
             at(j) == IF j < i THEN j ELSE j + 1
  <1>1. DOMAIN c = 1..Len(c) /\ Len(c) \in Nat /\ \A j \in 1..Len(c) : c[j] \in Entries
    BY LenProperties, ElementOfSeq
  <1>2. a \in Seq(Entries) /\ Len(a) = i - 1 /\ \A j \in 1..(i - 1) : a[j] = c[j]
    <2>1. 1 \in Int /\ i - 1 \in Int /\ \A j \in 1..(i - 1) : c[j] \in Entries
      BY <1>1
    <2>2. /\ a \in Seq(Entries) /\ Len(a) = IF 1 <= i - 1 THEN (i - 1) - 1 + 1 ELSE 0
          /\ \A j \in 1..((i - 1) - 1 + 1) : a[j] = c[1 + j - 1]
      BY <2>1, SubSeqProperties
    <2> HIDE DEF a
    <2> QED BY <2>2
  <1>3. /\ b \in Seq(Entries) /\ Len(b) = Len(c) - i
        /\ \A j \in 1..(Len(c) - i) : b[j] = c[i + j]
    <2>1. i + 1 \in Int /\ Len(c) \in Int /\ \A j \in (i + 1)..Len(c) : c[j] \in Entries
      BY <1>1
    <2>2. /\ b \in Seq(Entries)
          /\ Len(b) = IF i + 1 <= Len(c) THEN Len(c) - (i + 1) + 1 ELSE 0
          /\ \A j \in 1..(Len(c) - (i + 1) + 1) : b[j] = c[(i + 1) + j - 1]
      BY <2>1, SubSeqProperties
    <2> HIDE DEF b
    <2>3. Len(c) - (i + 1) + 1 = Len(c) - i /\ (i + 1 <= Len(c) \/ Len(c) - i = 0)
      <3>1. Len(c) \in Nat /\ i \in Nat /\ i <= Len(c)
        BY <1>1
      <3>2. \A n, k \in Nat : k <= n => n - (k + 1) + 1 = n - k /\ (k + 1 <= n \/ n - k = 0)
        OBVIOUS
      <3> QED BY <3>1, <3>2
    <2>4. ASSUME NEW j \in 1..(Len(c) - i) PROVE b[j] = c[i + j]
      <3>1. b[j] = c[(i + 1) + j - 1]
        BY <2>2, <2>3
      <3>2. (i + 1) + j - 1 = i + j
        BY <1>1
      <3> QED BY <3>1, <3>2
    <2>5. Len(b) = Len(c) - i
      BY <2>2, <2>3
    <2> QED BY <2>2, <2>4, <2>5
  <1> HIDE DEF a, b
  <1>4. l \in Seq(Entries) /\ Len(l) = Len(c) - 1
    <2>1. l \in Seq(Entries) /\ Len(l) = Len(a) + Len(b)
      BY <1>2, <1>3, ConcatProperties
    <2>2. Len(a) + Len(b) = Len(c) - 1
      BY <1>1, <1>2, <1>3
    <2> QED BY <2>1, <2>2
  <1>5. \A j \in 1..(Len(c) - 1) : l[j] = c[at(j)] /\ at(j) \in (1..Len(c)) \ {i}
    <2> TAKE j \in 1..(Len(c) - 1)
    <2>1. l[j] = IF j <= Len(a) THEN a[j] ELSE b[j - Len(a)]
      BY <1>1, <1>2, <1>3, ConcatProperties
    <2>2. CASE j < i
      BY <1>1, <1>2, <2>1, <2>2
    <2>3. CASE ~(j < i)
      <3>1. l[j] = b[j - (i - 1)] /\ j - (i - 1) \in 1..(Len(c) - i)
        BY <1>1, <1>2, <2>1, <2>3
      <3>2. l[j] = c[i + (j - (i - 1))] /\ i + (j - (i - 1)) = j + 1
        BY <1>1, <1>3, <3>1
      <3> QED BY <1>1, <2>3, <3>2
    <2> QED BY <2>2, <2>3
  <1>6. RemoveAt(c, i) = l
    BY DEF RemoveAt, a, b
  <1> HIDE DEF l
  <1>7. DOMAIN l = 1..(Len(c) - 1)
    BY <1>4, LenProperties
  <1>8. Names(l) \subseteq Names(c) \ {c[i].of}
    <2> SUFFICES ASSUME NEW j \in 1..(Len(c) - 1) PROVE l[j].of \in Names(c) \ {c[i].of}
      BY <1>7 DEF Names
    <2>1. l[j] = c[at(j)] /\ at(j) \in (1..Len(c)) \ {i}
      BY <1>5
    <2> HIDE DEF at
    <2> QED BY <1>1, <2>1 DEF Names, OneEach
  <1>9. OneEach(l)
    <2> SUFFICES ASSUME NEW j \in 1..(Len(c) - 1), NEW k \in 1..(Len(c) - 1),
                        l[j].of = l[k].of
                 PROVE  j = k
      BY <1>7 DEF OneEach
    <2>1. at(j) = at(k)
      <3>1. /\ l[j] = c[at(j)] /\ at(j) \in (1..Len(c)) \ {i}
            /\ l[k] = c[at(k)] /\ at(k) \in (1..Len(c)) \ {i}
        BY <1>5
      <3> HIDE DEF at
      <3> QED BY <1>1, <3>1 DEF OneEach
    <2> QED BY <1>1, <2>1
  <1> QED BY <1>4, <1>6, <1>8, <1>9

LEMMA WithoutKept ==
  ASSUME CacheType, NEW m
  PROVE  /\ Without(m) \in Seq(Entries) /\ OneEach(Without(m))
         /\ Names(Without(m)) \subseteq Names(cache) \ {m}
  <1>1. DOMAIN cache = 1..Len(cache) /\ Len(cache) \in Nat
    BY LenProperties DEF CacheType
  <1> DEFINE I == {i \in 1..Len(cache) : cache[i].of = m}
  <1>2. CASE I = {}
    <2>1. Without(m) = cache
      BY <1>2 DEF Without, RemoveFirstMatch
    <2> QED BY <1>1, <1>2, <2>1 DEF CacheType, Names
  <1>3. CASE I # {}
    <2>1. I \in SUBSET Nat
      BY <1>1
    <2>2. Min(I) \in I
      BY <1>3, <2>1, LeastNumber
    <2>3. Without(m) = RemoveAt(cache, Min(I))
      BY <1>3 DEF Without, RemoveFirstMatch, SelectInSeq
    <2>4. Min(I) \in 1..Len(cache) /\ cache[Min(I)].of = m
      BY <2>2
    <2> HIDE DEF I
    <2> QED BY <2>3, <2>4, RemovedAt DEF CacheType
  <1> QED BY <1>2, <1>3

LEMMA Put ==
  ASSUME CacheType, NEW m \in Manifests,
         cache' = Append(Without(m), [of |-> m, whole |-> TRUE])
  PROVE  /\ cache' \in Seq(Entries) /\ OneEach(cache')
         /\ Names(cache') \subseteq Names(cache) \union {m}
  <1> DEFINE w == Without(m)
             e == [of |-> m, whole |-> TRUE]
             l == Append(w, e)
  <1>1. w \in Seq(Entries) /\ OneEach(w) /\ Names(w) \subseteq Names(cache) \ {m}
    BY WithoutKept
  <1>2. e \in Entries /\ e.of = m
    BY DEF Entries
  <1> HIDE DEF w, e
  <1>3. /\ l \in Seq(Entries) /\ Len(l) = Len(w) + 1
        /\ (\A i \in 1..Len(w) : l[i] = w[i]) /\ l[Len(w) + 1] = e
    BY <1>1, <1>2, AppendProperties
  <1>4. cache' = l
    BY DEF w, e
  <1> HIDE DEF l
  <1>5. /\ DOMAIN w = 1..Len(w) /\ Len(w) \in Nat /\ DOMAIN l = 1..(Len(w) + 1)
        /\ \A i \in 1..(Len(w) + 1) : i \in 1..Len(w) \/ i = Len(w) + 1
    <2>1. DOMAIN w = 1..Len(w) /\ Len(w) \in Nat
      BY <1>1, LenProperties
    <2>2. DOMAIN l = 1..Len(l)
      BY <1>3, LenProperties
    <2> QED BY <1>3, <2>1, <2>2
  <1>6. Names(l) \subseteq Names(cache) \union {m}
    <2> SUFFICES ASSUME NEW i \in 1..(Len(w) + 1) PROVE l[i].of \in Names(w) \union {m}
      BY <1>1, <1>5 DEF Names
    <2> QED BY <1>2, <1>3, <1>5 DEF Names
  <1>7. OneEach(l)
    <2> SUFFICES ASSUME NEW i \in 1..(Len(w) + 1), NEW j \in 1..(Len(w) + 1), l[i].of = l[j].of
                 PROVE  i = j
      BY <1>5 DEF OneEach
    <2>1. \A x \in 1..Len(w) : w[x].of # m
      BY <1>1, <1>5 DEF Names
    <2> QED BY <1>1, <1>2, <1>3, <1>5, <2>1 DEF OneEach
  <1> QED BY <1>3, <1>4, <1>6, <1>7

LEMMA ComingCounted ==
  IsFiniteSet(Coming) /\ Cardinality(Coming) <= Cardinality(Readers)
  <1> DEFINE R == {r \in Readers : downloads[r].at \in {"touch", "put"}}
             f == [d \in R |-> downloads[d].of]
  <1>1. IsFiniteSet(Readers)
    BY TransferBounds
  <1>2. IsFiniteSet(R) /\ Cardinality(R) <= Cardinality(Readers)
    BY <1>1, FS_Subset
  <1>3. f \in Surjection(R, Coming)
    BY DEF Surjection, Coming
  <1>4. IsFiniteSet(Coming) /\ Cardinality(Coming) <= Cardinality(R)
    BY <1>2, <1>3, FS_Surjection
  <1>5. /\ Cardinality(Coming) \in Nat /\ Cardinality(R) \in Nat
        /\ Cardinality(Readers) \in Nat
    BY <1>1, <1>2, <1>4, FS_CardinalityType
  <1> QED BY <1>2, <1>4, <1>5

(* What neither grows in the cache nor comes to it leaves the bound.       *)
LEMMA RoomKept ==
  ASSUME CacheType, CacheRoom,
         Names(cache)' \union Coming' \subseteq Names(cache) \union Coming
  PROVE  CacheRoom'
  <1> DEFINE S == Names(cache) \union Coming
             T == Names(cache)' \union Coming'
  <1>1. IsFiniteSet(S)
    BY NamesCounted, ComingCounted, FS_Union DEF CacheType
  <1>2. T \in SUBSET S
    OBVIOUS
  <1> HIDE DEF S, T
  <1>3. IsFiniteSet(T) /\ Cardinality(T) <= Cardinality(S)
    BY <1>1, <1>2, FS_Subset
  <1>4. /\ Cardinality(T) \in Nat /\ Cardinality(S) \in Nat /\ Cardinality(Readers) \in Nat
        /\ MaxEntries \in Nat
    BY <1>1, <1>3, FS_CardinalityType, TransferBounds
  <1>5. Cardinality(S) <= MaxEntries + Cardinality(Readers) - 1
    BY DEF S, CacheRoom
  <1>6. Cardinality(T) <= MaxEntries + Cardinality(Readers) - 1
    BY <1>3, <1>4, <1>5
  <1> QED BY <1>6 DEF T, CacheRoom

(* Room for one more entry is room for those of all downloads.             *)
LEMMA RoomMade ==
  ASSUME CacheType, CacheType', Len(cache') <= MaxEntries - 1
  PROVE  CacheRoom'
  <1> DEFINE C == Names(cache)'
             M == Coming'
  <1>1. /\ IsFiniteSet(C) /\ Cardinality(C) = Len(cache') /\ Len(cache') \in Nat
    BY NamesCounted DEF CacheType, Names, OneEach
  <1>2. IsFiniteSet(M) /\ Cardinality(M) <= Cardinality(Readers)
    <2> DEFINE R == {r \in Readers : downloads'[r].at \in {"touch", "put"}}
               f == [d \in R |-> downloads'[d].of]
    <2>1. IsFiniteSet(Readers)
      BY TransferBounds
    <2>2. IsFiniteSet(R) /\ Cardinality(R) <= Cardinality(Readers)
      BY <2>1, FS_Subset
    <2>3. f \in Surjection(R, M)
      BY DEF Surjection, Coming
    <2>4. IsFiniteSet(M) /\ Cardinality(M) <= Cardinality(R)
      BY <2>2, <2>3, FS_Surjection
    <2>5. Cardinality(M) \in Nat /\ Cardinality(R) \in Nat /\ Cardinality(Readers) \in Nat
      BY <2>1, <2>2, <2>4, FS_CardinalityType
    <2> HIDE DEF M, R
    <2> QED BY <2>2, <2>4, <2>5
  <1> HIDE DEF C, M
  <1>3. /\ IsFiniteSet(C \union M) /\ IsFiniteSet(C \cap M)
        /\ Cardinality(C \union M) = Cardinality(C) + Cardinality(M) - Cardinality(C \cap M)
    <2>1. C \cap M \in SUBSET C
      OBVIOUS
    <2>2. IsFiniteSet(C \cap M)
      BY <1>1, <2>1, FS_Subset
    <2> QED BY <1>1, <1>2, <2>2, FS_Union
  <1>4. /\ Cardinality(C \union M) \in Nat /\ Cardinality(C) \in Nat /\ Cardinality(M) \in Nat
        /\ Cardinality(C \cap M) \in Nat /\ Cardinality(Readers) \in Nat /\ MaxEntries \in Nat
    BY <1>1, <1>2, <1>3, FS_CardinalityType, TransferBounds
  <1>5. Cardinality(C \union M) <= MaxEntries + Cardinality(Readers) - 1
    BY <1>1, <1>2, <1>3, <1>4
  <1> QED BY <1>5 DEF C, M, CacheRoom

(* A download goes on: what may come new is its own entry.                 *)
LEMMA DownloadMoved ==
  ASSUME CacheType, NEW d \in Readers, NEW x \in DownloadStates,
         downloads' = [downloads EXCEPT ![d] = x]
  PROVE  /\ downloads' \in [Readers -> DownloadStates]
         /\ \A m \in Coming' : m \in Coming \/ (x.at \in {"touch", "put"} /\ m = x.of)
  <1>1. /\ downloads' \in [Readers -> DownloadStates] /\ downloads'[d] = x
        /\ \A r \in Readers \ {d} : downloads'[r] = downloads[r]
    BY DEF CacheType
  <1>2. ASSUME NEW m \in Coming' PROVE m \in Coming \/ (x.at \in {"touch", "put"} /\ m = x.of)
    <2>1. PICK r \in Readers : downloads'[r].at \in {"touch", "put"} /\ m = downloads'[r].of
      BY DEF Coming
    <2>2. CASE r = d
      BY <1>1, <2>1, <2>2
    <2>3. CASE r # d
      BY <1>1, <2>1, <2>3 DEF Coming
    <2> QED BY <2>2, <2>3
  <1> QED BY <1>1, <1>2

LEMMA StageMoved ==
  ASSUME CacheType, NEW d \in Readers, downloads[d].at \in Downloading,
         NEW stage \in Downloading, GoOn(d, stage)
  PROVE  /\ downloads' \in [Readers -> DownloadStates]
         /\ downloads[d].of \in Manifests
         /\ \A m \in Coming' :
                m \in Coming \/ (stage \in {"touch", "put"} /\ m = downloads[d].of)
  <1> DEFINE x == [downloads[d] EXCEPT !.at = stage]
  <1>1. downloads[d] \in [at : Downloading, of : Manifests, retried : BOOLEAN]
    BY DEF CacheType, DownloadStates, Idle, Downloading
  <1>2. /\ x \in DownloadStates /\ x.at = stage /\ x.of = downloads[d].of
        /\ downloads' = [downloads EXCEPT ![d] = x]
    BY <1>1 DEF DownloadStates, GoOn
  <1> HIDE DEF x
  <1> QED BY <1>1, <1>2, DownloadMoved

LEMMA RestMoved ==
  ASSUME CacheType, NEW d \in Readers, downloads' = [downloads EXCEPT ![d] = Idle]
  PROVE  downloads' \in [Readers -> DownloadStates] /\ Coming' \subseteq Coming
  <1>1. Idle \in DownloadStates /\ ~(Idle.at \in {"touch", "put"})
    BY DEF DownloadStates, Idle
  <1> QED BY <1>1, DownloadMoved

LEMMA CacheUnchanged ==
  ASSUME CacheType, CacheRoom, UNCHANGED cache,
         downloads' \in [Readers -> DownloadStates],
         Coming' \subseteq Names(cache) \union Coming
  PROVE  CacheType' /\ CacheRoom'
  <1>1. CacheType'
    BY DEF CacheType, OneEach
  <1>2. Names(cache)' = Names(cache)
    BY DEF Names
  <1> QED BY <1>1, <1>2, RoomKept

LEMMA DownloadOK ==
  ASSUME CacheType, CacheRoom, NEW d \in Readers, NEW m \in Manifests, Download(d, m)
  PROVE  CacheType' /\ CacheRoom'
  <1> DEFINE x == [at |-> "lookup", of |-> m, retried |-> FALSE]
  <1>1. /\ x \in DownloadStates /\ ~(x.at \in {"touch", "put"})
        /\ downloads' = [downloads EXCEPT ![d] = x] /\ UNCHANGED cache
    BY DEF DownloadStates, Downloading, Download
  <1> HIDE DEF x
  <1> QED BY <1>1, DownloadMoved, CacheUnchanged

LEMMA LookUpOK ==
  ASSUME CacheType, CacheRoom, NEW d \in Readers, LookUp(d)
  PROVE  CacheType' /\ CacheRoom'
  <1> DEFINE found == Cached(downloads[d].of)
  <1>1. downloads[d].at \in Downloading /\ UNCHANGED cache
    BY DEF LookUp, Downloading
  <1>2. \/ GoOn(d, "fetch") \/ GoOn(d, "discard")
        \/ GoOn(d, "touch") /\ found # {}
    BY DEF LookUp
  <1>3. found # {} => downloads[d].of \in Names(cache)
    BY DEF Cached, ToSet, Names
  <1>4. {"fetch", "discard", "touch"} \subseteq Downloading
    BY DEF Downloading
  <1>5. downloads' \in [Readers -> DownloadStates] /\ Coming' \subseteq Names(cache) \union Coming
    BY <1>1, <1>2, <1>3, <1>4, StageMoved
  <1> QED BY <1>1, <1>5, CacheUnchanged

LEMMA TouchOK ==
  ASSUME CacheType, CacheRoom, NEW d \in Readers, Touch(d)
  PROVE  CacheType' /\ CacheRoom'
  <1> DEFINE m == downloads[d].of
  <1>1. m \in Manifests /\ m \in Coming
    BY DEF Touch, Coming, CacheType, DownloadStates, Idle
  <1>2. cache' \in Seq(Entries) /\ OneEach(cache') /\ Names(cache') \subseteq Names(cache) \union {m}
    BY <1>1, Put DEF Touch
  <1>3. downloads' \in [Readers -> DownloadStates] /\ Coming' \subseteq Coming
    BY RestMoved DEF Touch
  <1>4. CacheType' /\ Names(cache)' = Names(cache')
    BY <1>2, <1>3 DEF CacheType, OneEach, Names
  <1> QED BY <1>1, <1>2, <1>3, <1>4, RoomKept

LEMMA DiscardOK ==
  ASSUME CacheType, CacheRoom, NEW d \in Readers, Discard(d)
  PROVE  CacheType' /\ CacheRoom'
  <1>1. /\ cache' \in Seq(Entries) /\ OneEach(cache') /\ Names(cache') \subseteq Names(cache)
    BY WithoutKept DEF Discard
  <1>2. downloads' \in [Readers -> DownloadStates] /\ Coming' \subseteq Coming
    BY StageMoved DEF Discard, Downloading
  <1>3. CacheType' /\ Names(cache)' = Names(cache')
    BY <1>1, <1>2 DEF CacheType, OneEach, Names
  <1> QED BY <1>1, <1>2, <1>3, RoomKept

LEMMA FetchOK ==
  ASSUME CacheType, CacheRoom, NEW d \in Readers, Fetch(d) \/ FetchFails(d)
  PROVE  CacheType' /\ CacheRoom'
  <1>1. UNCHANGED cache
    BY DEF Fetch, FetchFails
  <1>2. downloads' \in [Readers -> DownloadStates] /\ Coming' \subseteq Coming
    BY StageMoved, RestMoved DEF Fetch, FetchFails, Downloading
  <1> QED BY <1>1, <1>2, CacheUnchanged

LEMMA TrimOK ==
  ASSUME CacheType, CacheRoom, NEW d \in Readers, Trim(d)
  PROVE  CacheType' /\ CacheRoom'
  <1>1. MaxEntries - 1 \in Nat
    BY TransferBounds
  <1>2. cache' \in Seq(Entries) /\ OneEach(cache') /\ Len(cache') <= MaxEntries - 1
    BY <1>1, LastOfKept DEF Trim, CacheType
  <1>3. downloads' \in [Readers -> DownloadStates]
    BY StageMoved DEF Trim, Downloading
  <1>4. CacheType'
    BY <1>2, <1>3 DEF CacheType, OneEach
  <1> QED BY <1>2, <1>4, RoomMade

LEMMA PutCacheOK ==
  ASSUME CacheType, CacheRoom, NEW d \in Readers, PutCache(d)
  PROVE  CacheType' /\ CacheRoom'
  <1> DEFINE m == downloads[d].of
  <1>1. m \in Manifests /\ m \in Coming
    BY DEF PutCache, Coming, CacheType, DownloadStates, Idle
  <1>2. cache' \in Seq(Entries) /\ OneEach(cache') /\ Names(cache') \subseteq Names(cache) \union {m}
    BY <1>1, Put DEF PutCache
  <1>3. downloads' \in [Readers -> DownloadStates] /\ Coming' \subseteq Coming
    BY StageMoved DEF PutCache, Downloading
  <1>4. CacheType' /\ Names(cache)' = Names(cache')
    BY <1>2, <1>3 DEF CacheType, OneEach, Names
  <1> QED BY <1>1, <1>2, <1>3, <1>4, RoomKept

LEMMA PutCacheFullOK ==
  ASSUME CacheType, CacheRoom, NEW d \in Readers, PutCacheFull(d)
  PROVE  CacheType' /\ CacheRoom'
  <1> DEFINE stage == IF downloads[d].retried THEN "settle" ELSE "trim"
             x == [downloads[d] EXCEPT !.at = stage, !.retried = TRUE]
  <1>1. downloads[d] \in [at : Downloading, of : Manifests, retried : BOOLEAN]
    BY DEF PutCacheFull, CacheType, DownloadStates, Idle, Downloading
  <1>2. stage \in Downloading /\ ~(stage \in {"touch", "put"})
    BY DEF Downloading
  <1>3. downloads' = [downloads EXCEPT ![d] = x] /\ UNCHANGED cache
    BY DEF PutCacheFull
  <1> HIDE DEF stage
  <1>4. x \in DownloadStates /\ x.at = stage
    BY <1>1, <1>2 DEF DownloadStates
  <1> HIDE DEF x
  <1>5. downloads' \in [Readers -> DownloadStates] /\ Coming' \subseteq Coming
    BY <1>2, <1>3, <1>4, DownloadMoved
  <1> QED BY <1>3, <1>5, CacheUnchanged

LEMMA SettleCacheOK ==
  ASSUME CacheType, CacheRoom, NEW d \in Readers, SettleCache(d)
  PROVE  CacheType' /\ CacheRoom'
  <1>1. MaxEntries \in Nat
    BY TransferBounds
  <1>2. cache' \in Seq(Entries) /\ OneEach(cache') /\ Names(cache') \subseteq Names(cache)
    BY <1>1, LastOfKept DEF SettleCache, CacheType
  <1>3. downloads' \in [Readers -> DownloadStates] /\ Coming' \subseteq Coming
    BY RestMoved DEF SettleCache
  <1>4. CacheType' /\ Names(cache)' = Names(cache')
    BY <1>2, <1>3 DEF CacheType, OneEach, Names
  <1> QED BY <1>2, <1>3, <1>4, RoomKept

LEMMA DamageOK ==
  ASSUME CacheType, CacheRoom, NEW i \in DOMAIN cache, Damage(i)
  PROVE  CacheType' /\ CacheRoom'
  <1> DEFINE e == [cache[i] EXCEPT !.whole = FALSE]
  <1>1. DOMAIN cache = 1..Len(cache) /\ cache[i] \in Entries
    BY LenProperties, ElementOfSeq DEF CacheType
  <1>2. e \in Entries /\ e.of = cache[i].of
    BY <1>1 DEF Entries
  <1>3. cache' = [cache EXCEPT ![i] = e] /\ UNCHANGED downloads
    BY DEF Damage
  <1> HIDE DEF e
  <1>4. /\ cache' \in Seq(Entries) /\ DOMAIN cache' = DOMAIN cache
        /\ \A j \in DOMAIN cache : cache'[j].of = cache[j].of
    BY <1>1, <1>2, <1>3, ExceptSeq, LenProperties DEF CacheType
  <1>5. CacheType' /\ Names(cache)' = Names(cache)
    BY <1>3, <1>4 DEF CacheType, OneEach, Names
  <1>6. Coming' = Coming
    BY <1>3 DEF Coming
  <1> QED BY <1>5, <1>6, RoomKept

LEMMA CacheOK ==
  (CacheType /\ CacheRoom) /\ [Next]_vars => (CacheType /\ CacheRoom)'
  <1> SUFFICES ASSUME CacheType, CacheRoom, [Next]_vars PROVE CacheType' /\ CacheRoom'
    OBVIOUS
  <1>1. CASE UNCHANGED cacheVars
    <2>1. UNCHANGED <<cache, downloads>>
      BY <1>1 DEF cacheVars
    <2>2. Coming' = Coming /\ downloads' \in [Readers -> DownloadStates]
      BY <2>1 DEF Coming, CacheType
    <2> QED BY <2>1, <2>2, CacheUnchanged
  <1>2. ASSUME NEW d \in Readers, DownloadStep(d) PROVE CacheType' /\ CacheRoom'
    BY <1>2, LookUpOK, TouchOK, DiscardOK, FetchOK, TrimOK, PutCacheOK, PutCacheFullOK,
       SettleCacheOK DEF DownloadStep
  <1>3. ASSUME NEW d \in Readers, NEW m \in Manifests, Download(d, m)
        PROVE  CacheType' /\ CacheRoom'
    BY <1>3, DownloadOK
  <1>4. ASSUME NEW i \in DOMAIN cache, Damage(i) PROVE CacheType' /\ CacheRoom'
    BY <1>4, DamageOK
  <1>5. CASE \E t \in Transfers : Persist(t) \/ Lapse(t) \/ ExpireUpload(t) \/ Outdate(t)
    BY <1>1, <1>5 DEF Persist, Lapse, ExpireUpload, Outdate
  <1>6. CASE \E r \in Resumers : Resume(r)
    BY <1>1, <1>6 DEF Resume
  <1>7. CASE \E w \in Runs : RunStep(w) \/ ServerFull(w) \/ BrowserFull(w) \/ Lose(w)
    BY <1>1, <1>7 DEF RunStep, Begin, Inspect, SaveProgress, PutChunk, Commit, RemoveRecord,
                      ServerFull, BrowserFull, Lose
  <1>8. CASE UNCHANGED vars
    BY <1>1, <1>8 DEF vars
  <1> QED BY <1>2, <1>3, <1>4, <1>5, <1>6, <1>7, <1>8 DEF Next

LEMMA CacheBegins == Init => CacheType /\ CacheRoom
  <1> SUFFICES ASSUME Init PROVE CacheType /\ CacheRoom
    OBVIOUS
  <1>1. cache = <<>> /\ downloads = [d \in Readers |-> Idle]
    BY DEF Init
  <1>2. cache \in Seq(Entries) /\ DOMAIN cache = {}
    BY <1>1, EmptySeq
  <1>3. CacheType
    BY <1>1, <1>2 DEF CacheType, OneEach, DownloadStates
  <1>4. Names(cache) \union Coming = {}
    BY <1>1, <1>2 DEF Names, Coming, Idle
  <1>5. Cardinality(Readers) \in Nat /\ MaxEntries \in Nat \ {0}
    BY TransferBounds, FS_CardinalityType
  <1>6. Cardinality(Names(cache) \union Coming) = 0
    BY <1>4, FS_EmptySet
  <1>7. 0 <= MaxEntries + Cardinality(Readers) - 1
    BY <1>5
  <1> QED BY <1>3, <1>6, <1>7 DEF CacheRoom

(* The remaining variables have their types.                               *)
OtherTypes ==
  /\ outgoing \in BOOLEAN /\ prepared \in 0..Cardinality(Transfers)
  /\ lapsed \subseteq Transfers /\ stale \subseteq Rotating
  /\ faults \in 0..MaxFaults

LEMMA OthersBegin == Init => OtherTypes
  <1> SUFFICES ASSUME Init PROVE OtherTypes
    OBVIOUS
  <1>1. Cardinality(Transfers) \in Nat
    BY TransferBounds, FS_CardinalityType
  <1> QED BY <1>1, TransferBounds DEF Init, OtherTypes

LEMMA OthersKeptTyped ==
  ASSUME IInv, OtherTypes, [Next]_vars
  PROVE  OtherTypes'
  <1>1. Fault => faults' \in 0..MaxFaults
    BY TransferBounds DEF Fault, OtherTypes
  <1>2. CASE UNCHANGED <<outgoing, prepared, lapsed, stale>>
             /\ (Fault \/ UNCHANGED faults)
    BY <1>1, <1>2 DEF OtherTypes
  <1>3. ASSUME NEW t \in Transfers, Persist(t) PROVE OtherTypes'
    <2>1. t \in 0..Cardinality(Transfers)
      <3>1. \A k : \A n \in 1..k : n \in 0..k
        OBVIOUS
      <3> QED BY <3>1, TransferBounds
    <2> QED BY <1>3, <2>1 DEF Persist, OtherTypes, serverVars
  <1>4. ASSUME NEW t \in Transfers, Lapse(t) PROVE OtherTypes'
    BY <1>1, <1>4 DEF Lapse, OtherTypes, storeVars
  <1>5. ASSUME NEW t \in Transfers, Outdate(t) PROVE OtherTypes'
    BY <1>5 DEF Outdate, OtherTypes, storeVars
  <1>6. ASSUME NEW t \in Transfers, ExpireUpload(t) PROVE OtherTypes'
    BY <1>2, <1>6 DEF ExpireUpload, storeVars
  <1>7. ASSUME NEW w \in Runs, Begin(w) PROVE OtherTypes'
    <2>1. On(w) \in Transfers
      BY <1>7, Works DEF IInv, Begin, At, Idle
    <2> QED BY <1>7, <2>1 DEF Begin, OtherTypes, storeVars
  <1>8. ASSUME NEW w \in Runs,
               \/ Inspect(w) \/ SaveProgress(w) \/ PutChunk(w) \/ Commit(w)
               \/ RemoveRecord(w) \/ ServerFull(w) \/ BrowserFull(w) \/ Lose(w)
        PROVE  OtherTypes'
    BY <1>2, <1>8 DEF Inspect, SaveProgress, PutChunk, Commit, RemoveRecord, ServerFull,
                      BrowserFull, Lose, storeVars, serverVars
  <1>9. ASSUME NEW r \in Resumers, Resume(r) PROVE OtherTypes'
    BY <1>2, <1>9 DEF Resume, storeVars, serverVars
  <1>10. ASSUME NEW d \in Readers, DownloadStep(d) \/ \E m \in Manifests : Download(d, m)
         PROVE  OtherTypes'
    BY <1>2, <1>10 DEF DownloadStep, LookUp, Touch, Discard, Fetch, FetchFails, Trim, PutCache,
         PutCacheFull, SettleCache, Download, CacheStep, storeVars, serverVars
  <1>11. ASSUME NEW i \in DOMAIN cache, Damage(i) PROVE OtherTypes'
    BY <1>2, <1>11 DEF Damage, CacheStep, storeVars, serverVars
  <1>12. CASE UNCHANGED vars
    BY <1>2, <1>12 DEF vars, storeVars, serverVars
  <1> QED BY <1>3, <1>4, <1>5, <1>6, <1>7, <1>8, <1>9, <1>10, <1>11, <1>12
          DEF Next, RunStep

(* For any number of downloads, the section cache exceeds its bound by     *)
(* less than the number of downloads that run at a time, whichever entries *)
(* they read, discard, put back and evict beside each other, and it never  *)
(* holds two entries of one manifest (realtime/contentTransfer.ts,         *)
(* lib/indexedDb.ts).                                                      *)
THEOREM CacheStaysBounded == Spec => []CacheBounded
  <1> DEFINE J == IInv /\ OtherTypes /\ CacheType /\ CacheRoom
  <1>1. Init => J
    BY InitOK, OthersBegin, CacheBegins
  <1>2. J /\ [Next]_vars => J'
    BY NextOK, OthersKeptTyped, CacheOK
  <1>3. J => CacheBounded
    <2> SUFFICES ASSUME IInv, OtherTypes, CacheType, CacheRoom PROVE CacheBounded
      OBVIOUS
    <2>1. \A t \in Transfers : store[t] = Absent \/ store[t] \subseteq Chunks
      BY DEF IInv, StoreType
    <2>2. TypeOK
      BY <2>1 DEF TypeOK, IInv, UploadsType, Statuses, ChunksType, RunsOK, OtherTypes, CacheType
    <2> DEFINE S == Names(cache) \union Coming
    <2>3. /\ IsFiniteSet(S) /\ Names(cache) \in SUBSET S
          /\ Cardinality(Names(cache)) = Len(cache) /\ Len(cache) \in Nat
      BY NamesCounted, ComingCounted, FS_Union DEF CacheType
    <2>4. Cardinality(S) <= MaxEntries + Cardinality(Readers) - 1
      BY DEF CacheRoom
    <2> HIDE DEF S
    <2>5. Len(cache) <= Cardinality(S)
      BY <2>3, FS_Subset
    <2>6. /\ Cardinality(S) \in Nat /\ Cardinality(Readers) \in Nat /\ MaxEntries \in Nat
      BY <2>3, FS_CardinalityType, TransferBounds
    <2>7. Len(cache) <= MaxEntries + Cardinality(Readers) - 1
      BY <2>3, <2>4, <2>5, <2>6
    <2> QED BY <2>2, <2>7 DEF CacheBounded, CacheType, OneEach
  <1> HIDE DEF J
  <1> QED BY <1>1, <1>2, <1>3, PTL DEF Spec
=============================================================================
