---------------------------- MODULE SearchIndex ----------------------------
(***************************************************************************)
(* The protected search index of one device.  A search lists the sections, *)
(* then loads those whose index record is behind what the list said, two   *)
(* at a time, until all are covered.  Meanwhile every change of an open    *)
(* section has it indexed again.  A record is labelled with the server     *)
(* sequence it is meant to cover; both writers take a snapshot first and   *)
(* store it later, and so may a search that another one has replaced.      *)
(*                                                                         *)
(* The edits of a section are numbered as the server stores them.  Of the  *)
(* bindings this keeps what the index sees (SectionSync has the rest): the *)
(* edits in the document, the observed sequence, whether it is synced.     *)
(***************************************************************************)
EXTENDS Integers, FiniteSets, Sequences, Functions

CONSTANTS
  Sections,
  Rank,            \* the order in which sections are indexed
  MaxEdits,        \* bound on the edits of a section
  MaxSearches,     \* bound on searches begun and retried
  MaxSwitches,        \* bound on sections opened in the editor
  MaxFailures,       \* bound on loads that fail
  BatchSize        \* DEFAULT_MAX_SECTIONS_PER_BATCH

ASSUME SearchAssumption ==
  /\ IsFiniteSet(Sections) /\ Rank \in [Sections -> Nat]
  /\ BatchSize \in Nat \ {0}
  /\ {MaxEdits, MaxSearches, MaxSwitches, MaxFailures} \subseteq Nat

Unindexed == -1
Editor == "editor"
Search == "search"
Nobody == "nobody"

VARIABLES
  stored,    \* edits of each section the server has
  doc,       \* edits in each binding's document
  observed,  \* observedServerSequence
  synced,    \* bindings that are ready
  holder,    \* who opened each binding last
  index,     \* the stored records: label and the edits indexed
  target,    \* the session's targets, by section
  listed,    \* what the server had when the session was listed
  unseen,    \* ghost: edits a list counted that an open section had not received
  dirty,     \* changed sections the session has yet to index
  task,      \* the search under way
  writes,    \* records on their way to the store
  counts     \* searches, moves and faults so far

bindingVars == <<stored, doc, observed, synced, holder>>
sessionVars == <<target, listed, unseen, dirty, task>>
searchVars == <<bindingVars, index, sessionVars, writes, counts>>

Edits == 1..MaxEdits
Labels == 0..MaxEdits
Stages == {"off", "listing", "building", "loading", "waiting", "writing",
           "idle", "ready", "error"}

OpenSections == {s \in Sections : holder[s] # Nobody}

(* A load: the section and the sequence it is asked for.                   *)
Load(s, label) == [section |-> s, label |-> label]
Writers == {Editor, Search, Nobody}
Write(s, label, writer) ==
  [section |-> s, label |-> label, edits |-> doc[s], writer |-> writer]

NoTask == [at |-> "off", batch |-> <<>>, lost |-> FALSE, query |-> FALSE]

SearchTypeOK ==
  /\ stored \in [Sections -> Labels]
  /\ \A s \in Sections : doc[s] \subseteq 1..stored[s] /\ observed[s] \in 0..stored[s]
  /\ synced \subseteq OpenSections
  /\ holder \in [Sections -> Writers]
  /\ index \in [Sections -> [label : Labels \union {Unindexed}, edits : SUBSET Edits]]
  /\ target \in [Sections -> Labels \union {Unindexed}]
  /\ listed \in [Sections -> Labels \union {Unindexed}]
  /\ unseen \in [Sections -> SUBSET Edits]
  /\ dirty \subseteq Sections
  /\ task.at \in Stages /\ Len(task.batch) <= BatchSize
  /\ \A w \in writes : w.writer \in Writers /\ w.edits \subseteq Edits
  /\ counts \in [searches : 0..MaxSearches, moves : 0..MaxSwitches, faults : 0..MaxFailures]

SearchInit ==
  /\ stored = [s \in Sections |-> 0]
  /\ doc = [s \in Sections |-> {}] /\ observed = [s \in Sections |-> 0]
  /\ synced = {} /\ holder = [s \in Sections |-> Nobody]
  /\ index = [s \in Sections |-> [label |-> Unindexed, edits |-> {}]]
  /\ target = [s \in Sections |-> Unindexed] /\ listed = target
  /\ unseen = [s \in Sections |-> {}]
  /\ dirty = {} /\ task = NoTask /\ writes = {}
  /\ counts = [searches |-> 0, moves |-> 0, faults |-> 0]

Count(what, bound) ==
  counts[what] < bound /\ counts' = [counts EXCEPT ![what] = @ + 1]

-----------------------------------------------------------------------------
(* Bindings.  A change tells the session, which raises its target and      *)
(* indexes the section in its turn.                                        *)
Notify(s, sequence) ==
  IF target[s] = Unindexed THEN UNCHANGED <<target, dirty>>
  ELSE /\ target' = [target EXCEPT ![s] = IF sequence > @ THEN sequence ELSE @]
       /\ dirty' = dirty \union {s}

(* A binding nobody has is made; it asks for its history.                  *)
Opened(s, who) ==
  /\ holder' = [holder EXCEPT ![s] = who]
  /\ IF s \in OpenSections THEN UNCHANGED <<doc, observed>>
     ELSE /\ doc' = [doc EXCEPT ![s] = {}]
          /\ observed' = [observed EXCEPT ![s] = 0]
  /\ UNCHANGED <<stored, synced>>

(* A release destroys the binding unless it was opened again since.        *)
Released(s, who) ==
  IF holder[s] = who
  THEN /\ holder' = [holder EXCEPT ![s] = Nobody]
       /\ synced' = synced \ {s}
       /\ doc' = [doc EXCEPT ![s] = {}]
       /\ observed' = [observed EXCEPT ![s] = 0]
       /\ UNCHANGED stored
  ELSE UNCHANGED bindingVars

WaitsFor(s) == task.at = "waiting" /\ Head(task.batch).section = s

OpenInEditor(s) ==
  /\ holder[s] # Editor /\ Count("moves", MaxSwitches)
  /\ Opened(s, Editor)
  /\ UNCHANGED <<index, sessionVars, writes>>

CloseInEditor(s) ==
  /\ holder[s] = Editor
  /\ Released(s, Editor)
  /\ task' = [task EXCEPT !.lost = @ \/ WaitsFor(s)]
  /\ UNCHANGED <<index, target, listed, unseen, dirty, writes, counts>>

(* The history has arrived.                                                *)
Synchronize(s) ==
  /\ s \in OpenSections \ synced
  /\ synced' = synced \union {s}
  /\ doc' = [doc EXCEPT ![s] = 1..stored[s]]
  /\ observed' = [observed EXCEPT ![s] = stored[s]]
  /\ Notify(s, stored[s])
  /\ UNCHANGED <<stored, holder, index, listed, unseen, task, writes, counts>>

(* Others' edits are observed as they come, its own never.                 *)
Missing(s) == (1..stored[s]) \ doc[s]

Deliver(s) ==
  LET edit == CHOOSE e \in Missing(s) : \A f \in Missing(s) : e <= f IN
  /\ s \in synced /\ Missing(s) # {}
  /\ doc' = [doc EXCEPT ![s] = @ \union {edit}]
  /\ observed' = [observed EXCEPT ![s] = IF edit > @ THEN edit ELSE @]
  /\ Notify(s, observed'[s])
  /\ UNCHANGED <<stored, synced, holder, index, listed, unseen, task, writes, counts>>

EditElsewhere(s) ==
  /\ stored[s] < MaxEdits
  /\ stored' = [stored EXCEPT ![s] = @ + 1]
  /\ UNCHANGED <<doc, observed, synced, holder, index, sessionVars, writes, counts>>

EditHere(s) ==
  /\ s \in synced /\ holder[s] = Editor /\ stored[s] < MaxEdits
  /\ stored' = [stored EXCEPT ![s] = @ + 1]
  /\ doc' = [doc EXCEPT ![s] = @ \union {stored'[s]}]
  /\ Notify(s, observed[s])
  /\ UNCHANGED <<observed, synced, holder, index, listed, unseen, task, writes, counts>>

-----------------------------------------------------------------------------
(* The store. *)

(* Faulty: a record replaces whatever is there.                            *)
ReplacesAny(w) == TRUE

Replaces(w) == index[w.section].label <= w.label

Store(w) ==
  /\ w \in writes
  /\ writes' = writes \ {w}
  /\ index' = IF Replaces(w)
              THEN [index EXCEPT ![w.section] = [label |-> w.label, edits |-> w.edits]]
              ELSE index
  /\ UNCHANGED <<bindingVars, sessionVars, counts>>

InFlight(who) == \E w \in writes : w.writer = who

(* The session indexes a changed section, if it is still open.             *)
Refresh(s) ==
  /\ s \in dirty /\ ~InFlight(Editor)
  /\ dirty' = dirty \ {s}
  /\ writes' = IF s \in synced
               THEN writes \union {Write(s, target[s], Editor)} ELSE writes
  /\ UNCHANGED <<bindingVars, index, target, listed, unseen, task, counts>>

-----------------------------------------------------------------------------
(* The search. *)

(* Another search, or a changed list of notes: the session and what it had *)
(* still to do are dropped; a record on its way is stored all the same.    *)
Orphans == {[w EXCEPT !.writer = Nobody] : w \in writes}

StartSearch(query) ==
  /\ Count("searches", MaxSearches)
  /\ IF task.at = "waiting"
     THEN Released(Head(task.batch).section, Search)
     ELSE UNCHANGED bindingVars
  /\ task' = [NoTask EXCEPT !.at = "listing", !.query = query]
  /\ target' = [s \in Sections |-> Unindexed] /\ listed' = target'
  /\ dirty' = {}
  /\ writes' = Orphans
  /\ UNCHANGED <<index, unseen>>

(* What a section open already is labelled with may be ahead of it: the    *)
(* list counts what its connection has yet to bring.                       *)
ListSections ==
  /\ task.at = "listing"
  /\ target' = stored /\ listed' = stored
  /\ unseen' = [s \in Sections |-> unseen[s] \union IF s \in synced THEN Missing(s) ELSE {}]
  /\ task' = [task EXCEPT !.at = IF task.query THEN "building" ELSE "idle"]
  /\ UNCHANGED <<bindingVars, index, dirty, writes, counts>>

Covered(s) == index[s].label >= target[s]

Pending == {s \in Sections : ~Covered(s)}

(* The next sections in their order, with the sequences of this moment.    *)
Ordered(q) ==
  /\ IsInjective(q)
  /\ \A i \in DOMAIN q, s \in Pending :
       Rank[s] < Rank[q[i]] => \E j \in 1..(i - 1) : q[j] = s

NextSections ==
  LET n == IF Cardinality(Pending) < BatchSize THEN Cardinality(Pending) ELSE BatchSize
  IN {q \in [1..n -> Pending] : Ordered(q)}

BuildNextBatch ==
  /\ task.at = "building"
  /\ IF Pending = {}
     THEN task' = [task EXCEPT !.at = "ready"]
     ELSE \E q \in NextSections :
            task' = [task EXCEPT !.at = "loading",
                       !.batch = [i \in DOMAIN q |-> Load(q[i], target[q[i]])]]
  /\ UNCHANGED <<bindingVars, index, target, listed, unseen, dirty, writes, counts>>

(* A section open already is not opened again.                             *)
OpenForSearch ==
  LET s == Head(task.batch).section IN
  /\ task.at = "loading"
  /\ task' = [task EXCEPT !.at = "waiting", !.lost = FALSE]
  /\ IF s \in OpenSections THEN UNCHANGED bindingVars ELSE Opened(s, Search)
  /\ UNCHANGED <<index, target, listed, unseen, dirty, writes, counts>>

(* Faulty: the section has to be ahead of what was asked for.              *)
ArrivedAhead(load) ==
  load.section \in synced /\ \E e \in doc[load.section] : e > load.label

Arrived(load) == load.section \in synced

(* Once it is synced the snapshot is taken, and the section released.      *)
TakeSnapshot ==
  LET load == Head(task.batch) IN
  /\ task.at = "waiting" /\ ~task.lost
  /\ Arrived(load)
  /\ writes' = writes \union {Write(load.section, load.label, Search)}
  /\ task' = [task EXCEPT !.at = "writing"]
  /\ Released(load.section, Search)
  /\ UNCHANGED <<index, target, listed, unseen, dirty, counts>>

FinishLoad ==
  /\ task.at = "writing" /\ ~InFlight(Search)
  /\ task' = [task EXCEPT !.batch = Tail(@),
                !.at = IF Len(task.batch) > 1 THEN "loading" ELSE "building"]
  /\ UNCHANGED <<bindingVars, index, target, listed, unseen, dirty, writes, counts>>

(* The section does not synchronize in time, or its binding is gone.       *)
FailSearch ==
  LET s == Head(task.batch).section IN
  /\ task.at = "waiting"
  /\ IF task.lost THEN UNCHANGED counts
     ELSE s \notin synced /\ Count("faults", MaxFailures)
  /\ task' = [task EXCEPT !.at = "error", !.batch = <<>>, !.lost = FALSE]
  /\ Released(s, Search)
  /\ UNCHANGED <<index, target, listed, unseen, dirty, writes>>

-----------------------------------------------------------------------------
Bindings == \E s \in Sections : Synchronize(s) \/ Deliver(s)

Task ==
  \/ ListSections \/ BuildNextBatch \/ OpenForSearch \/ TakeSnapshot
  \/ FinishLoad \/ FailSearch

Indexing == (\E s \in Sections : Refresh(s)) \/ (\E w \in writes : Store(w))

UserSteps ==
  \/ \E s \in Sections :
       OpenInEditor(s) \/ CloseInEditor(s) \/ EditHere(s) \/ EditElsewhere(s)
  \/ \E query \in BOOLEAN : StartSearch(query)

Background == Bindings \/ Indexing \/ Task

SearchNext == Background \/ UserSteps

(* Histories arrive, the store answers; nobody has to edit or search.      *)
SearchSpec == SearchInit /\ [][SearchNext]_searchVars /\ WF_searchVars(Background)

-----------------------------------------------------------------------------
(* Once a search says it is complete, it finds every edit the server had   *)
(* when the search listed the sections, and goes on finding them, whatever *)
(* older snapshots are stored late.  Edits that a list counted and that a  *)
(* section, open already, had not received by then are left out: the code  *)
(* labels its snapshot with them all the same.                             *)
FoundWhenReady ==
  /\ SearchTypeOK
  /\ task.at = "ready" =>
       \A s \in Sections : 1..listed[s] \subseteq index[s].edits \union unseen[s]

(* Every search comes to an end: complete, with an error, or replaced.     *)
SearchEnds == []<>(task.at \in {"off", "idle", "ready", "error"})
=============================================================================
