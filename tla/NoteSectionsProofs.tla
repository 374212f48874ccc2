------------------------- MODULE NoteSectionsProofs -------------------------
(***************************************************************************)
(* That a section of a note is initialized once, that what a device shows  *)
(* is open, and when an edit can be destroyed with the binding it was typed *)
(* in.  The argument is about leases: the one a load holds has a           *)
(* generation that no release remembers, so that a release that comes late *)
(* finds it another's.                                                     *)
(***************************************************************************)
EXTENDS NoteSections, FiniteSetTheorems, WellFoundedInduction, TLAPS

Manifests == [by: Clients \cup Others \cup {None}, section: Sections, epoch: Nat]
Rows == [state: {"none", "live", "deleted"}, created: Nat, init: Manifests \cup {None}]
Views == [root: Nat, epoch: Nat]
Indexes == [ready: BOOLEAN, listed: SUBSET Sections, initialized: SUBSET Sections]
Jobs == [at: {"none", "root", "listed"}, listed: SUBSET Sections,
         initialized: SUBSET Sections]
Bindings == [epoch: Nat, opens: Nat, synced: BOOLEAN, pending: SUBSET Nat,
             doc: SUBSET Nat, inherited: BOOLEAN, sending: BOOLEAN]
Calls == [client: Clients \cup Others, section: Sections,
          at: {"prepare", "upload", "request", "answered", "refused"},
          epoch: Nat, root: Nat, live: BOOLEAN]
Releases == [client: Clients, section: Sections, opens: Nat, awaits: SUBSET Nat]

ServerTypes ==
    /\ note \in Views
    /\ sect \in [Sections -> Rows]
    /\ manifests \subseteq Manifests

ListTypes ==
    /\ behind \subseteq Clients
    /\ view \in [Clients -> Views]
    /\ shown \in [Clients -> BOOLEAN]
    /\ index \in [Clients -> Indexes]
    /\ indexing \in [Clients -> Jobs]
    /\ \A d \in Clients : /\ index[d].initialized \subseteq index[d].listed
                          /\ indexing[d].initialized \subseteq indexing[d].listed
                          /\ indexing[d].at # "none" => shown[d]
    /\ selected \in [Clients -> Sections \cup {None}]

LeaseTypes ==
    /\ bound \in [Clients -> [Sections -> Bindings \cup {None}]]
    /\ target \in [Clients -> [Sections -> Nat \cup {None}]]
    /\ state \in [Clients -> [Sections -> {"none", "loading", "ready", "releasing", "error"}]]
    /\ work \in [Clients -> [Sections -> {"idle", "sync", "init"}]]
    /\ next \in [Clients -> SUBSET Sections]
    /\ calls \subseteq Calls
    /\ releases \subseteq Releases /\ IsFiniteSet(releases)

TypingTypes == edits \in Nat /\ typed \subseteq 1..edits

Types == ServerTypes /\ ListTypes /\ LeaseTypes /\ TypingTypes

(* A section that was never created was never initialized.                 *)
ServerOK ==
    /\ Live # {}
    /\ \A i \in inits : /\ i.section \in Sections /\ i.manifest \in manifests
                        /\ i.manifest.section = i.section /\ i.manifest.epoch = i.epoch
                        /\ sect[i.section].init = i.manifest
    /\ \A s \in Sections : /\ sect[s].init \in manifests \cup {None}
                           /\ sect[s].state = "none" => sect[s].init = None
                           /\ sect[s].init # None =>
                                  \E i \in inits : i.section = s /\ i.manifest = sect[s].init

IsShown(d, s) == state[d][s] \in {"loading", "ready"}

(* A target is the lease of the binding there is, and a load that is under *)
(* way holds one.                                                          *)
LeaseOK(d, s) ==
    /\ bound[d][s] = None <=> target[d][s] = None
    /\ bound[d][s] # None => target[d][s] = bound[d][s].opens
    /\ IsShown(d, s) => bound[d][s] # None /\ shown[d] /\ bound[d][s].epoch = view[d].epoch
    /\ work[d][s] # "idle" => state[d][s] = "loading"
    /\ s \in next[d] => work[d][s] = "idle"

(* A release has a binding, and what is shown is not the lease it is of.   *)
ReleaseOK(r) ==
    /\ bound[r.client][r.section] # None
    /\ IsShown(r.client, r.section) => r.opens # bound[r.client][r.section].opens

(* The load that waits for an initialization has not been stopped.         *)
CallOK(c) == c.live => c.client \in Clients /\ work[c.client][c.section] = "init"

OneCall ==
    \A c, o \in calls :
        c.live /\ o.live /\ c.client = o.client /\ c.section = o.section => c = o

LeasesOK ==
    /\ \A d \in Clients, s \in Sections : LeaseOK(d, s)
    /\ \A r \in releases : ReleaseOK(r)
    /\ \A c \in calls : CallOK(c)
    /\ OneCall

(* A device that may not write has no edits of its own.                    *)
EditsOK ==
    /\ EditsKept
    /\ \A d \in Clients \ Writers, s \in Sections : bound[d][s] # None => bound[d][s].doc = {}

Inv == Types /\ ServerOK /\ LeasesOK /\ EditsOK

-----------------------------------------------------------------------------
(* Numbers and places. *)

LEMMA LeastNumber ==
    ASSUME NEW S \in SUBSET Nat, S # {}
    PROVE  \E n \in S : \A m \in S : n <= m
  <1>1. PICK n \in S : \A m \in S : ~ (<<m, n>> \in OpToRel(<, Nat))
    BY NatLessThanWellFounded, WFMin
  <1>2. \A m \in S : ~(m < n)
    BY <1>1 DEF OpToRel
  <1> QED BY <1>2

(* There is a number that a finite set has not, with all before it in it.  *)
LEMMA NextNumber ==
    ASSUME NEW S, IsFiniteSet(S)
    PROVE  \E n \in 1..(Cardinality(S) + 1) : n \notin S /\ 1..(n - 1) \subseteq S
  <1>1. Cardinality(S) \in Nat
    BY FS_CardinalityType
  <1> DEFINE free == {n \in 1..(Cardinality(S) + 1) : n \notin S}
  <1>2. free # {}
    <2> SUFFICES ASSUME free = {} PROVE FALSE
      OBVIOUS
    <2>1. 1..(Cardinality(S) + 1) \subseteq S
      OBVIOUS
    <2>2. Cardinality(1..(Cardinality(S) + 1)) <= Cardinality(S)
      BY <2>1, FS_Subset
    <2>3. Cardinality(1..(Cardinality(S) + 1)) = Cardinality(S) + 1
      BY <1>1, FS_Interval
    <2> QED BY <1>1, <2>2, <2>3
  <1>3. free \in SUBSET Nat
    BY <1>1
  <1>4. PICK n \in free : \A m \in free : n <= m
    BY <1>2, <1>3, LeastNumber
  <1>5. ASSUME NEW m \in 1..(n - 1) PROVE m \in S
    <2>1. m \in 1..(Cardinality(S) + 1) /\ ~(n <= m)
      BY <1>1
    <2> QED BY <1>4, <2>1
  <1> QED BY <1>5

LEMMA Places ==
    ASSUME NEW s \in Sections
    PROVE  Place[s] \in Nat
  <1>1. \E i \in 1..Len(Order) : Order[i] = s
    BY DEF Sections
  <1>2. Len(Order) \in Nat
    BY SectionsAssumption
  <1>3. Place[s] \in 1..Len(Order)
    BY <1>1 DEF Place
  <1> QED BY <1>2, <1>3

LEMMA FirstListed ==
    ASSUME NEW listed \in SUBSET Sections, listed # {}
    PROVE  FirstOf(listed) \in listed
  <1> DEFINE places == {Place[s] : s \in listed}
  <1>1. places \in SUBSET Nat /\ places # {}
    BY Places
  <1>2. PICK n \in places : \A m \in places : n <= m
    BY <1>1, LeastNumber
  <1>3. \E s \in listed : \A x \in listed : Place[s] <= Place[x]
    BY <1>2
  <1> QED BY <1>3 DEF FirstOf

LEMMA SectionsFinite == IsFiniteSet(Sections)
  <1> DEFINE f == [i \in 1..Len(Order) |-> Order[i]]
  <1>1. Len(Order) \in Nat
    BY SectionsAssumption
  <1>2. f \in Surjection(1..Len(Order), Sections)
    BY DEF Surjection, Sections
  <1>3. IsFiniteSet(1..Len(Order))
    BY <1>1, FS_Interval
  <1> QED BY <1>2, <1>3, FS_Surjection

-----------------------------------------------------------------------------
(* Records. *)

(* What a binding becomes: its lease stays as it is.                       *)
Same(b, x) == x \in Bindings /\ x.opens = b.opens /\ x.epoch = b.epoch

LEMMA BindingChanged ==
    ASSUME NEW b \in Bindings, NEW d, NEW e \in Nat
    PROVE  /\ Same(b, Arrived(b, d))
           /\ Arrived(b, d).doc = b.doc /\ Arrived(b, d).pending = b.pending
           /\ Arrived(b, d).sending = (b.sending \/ (b.inherited /\ d \in Writers))
           /\ Same(b, Pending(b, e))
           /\ Pending(b, e).doc = b.doc /\ Pending(b, e).pending = b.pending \cup {e}
           /\ Pending(b, e).inherited = b.inherited /\ Pending(b, e).sending = b.sending
           /\ Same(b, Edited(b, e))
           /\ Edited(b, e).doc = b.doc \cup {e} /\ Edited(b, e).pending = b.pending \cup {e}
           /\ Edited(b, e).inherited = b.inherited /\ Edited(b, e).sending = b.sending
  <1>1. Same(b, Arrived(b, d)) /\ Arrived(b, d).doc = b.doc /\ Arrived(b, d).pending = b.pending
        /\ Arrived(b, d).sending = (b.sending \/ (b.inherited /\ d \in Writers))
    BY DEF Bindings, Arrived, Same
  <1>2. Same(b, Pending(b, e))
        /\ Pending(b, e).doc = b.doc /\ Pending(b, e).pending = b.pending \cup {e}
        /\ Pending(b, e).inherited = b.inherited /\ Pending(b, e).sending = b.sending
    BY DEF Bindings, Pending, Same
  <1>3. Same(b, Edited(b, e))
        /\ Edited(b, e).doc = b.doc \cup {e} /\ Edited(b, e).pending = b.pending \cup {e}
        /\ Edited(b, e).inherited = b.inherited /\ Edited(b, e).sending = b.sending
    BY DEF Bindings, Edited, Same
  <1> QED BY <1>1, <1>2, <1>3

LEMMA BindingUnkept ==
    ASSUME NEW b \in Bindings, NEW e
    PROVE  /\ Same(b, Unkept(b, e))
           /\ Unkept(b, e).doc = b.doc /\ Unkept(b, e).pending = b.pending \ {e}
           /\ Unkept(b, e).inherited = b.inherited /\ Unkept(b, e).sending = b.sending
  BY DEF Bindings, Unkept, Same

LEMMA BindingKept ==
    ASSUME NEW b \in Bindings, NEW e
    PROVE  /\ Same(b, Kept(b, e))
           /\ Kept(b, e).doc = b.doc \ {e} /\ Kept(b, e).pending = b.pending \ {e}
           /\ Kept(b, e).inherited = b.inherited /\ Kept(b, e).sending = b.sending
  BY DEF Bindings, Kept, Same

LEMMA BindingPublished ==
    ASSUME NEW b \in Bindings, NEW P \in SUBSET Nat
    PROVE  /\ Same(b, Published(b, P)) /\ Published(b, P).doc = P
           /\ Published(b, P).pending = b.pending
           /\ Published(b, P).inherited = b.inherited
  BY DEF Bindings, Published, Same

LEMMA BindingReopened ==
    ASSUME NEW b \in Bindings, NEW n \in Nat
    PROVE  /\ [b EXCEPT !.opens = n] \in Bindings /\ [b EXCEPT !.opens = n].opens = n
           /\ [b EXCEPT !.opens = n].epoch = b.epoch /\ [b EXCEPT !.opens = n].doc = b.doc
           /\ [b EXCEPT !.opens = n].pending = b.pending
           /\ [b EXCEPT !.opens = n].inherited = b.inherited
           /\ [b EXCEPT !.opens = n].sending = b.sending
  BY DEF Bindings

LEMMA NoneIsNoBinding == None \notin Bindings /\ None \notin Manifests /\ None \notin Nat
  BY NoneAssumption DEF Bindings, Manifests

-----------------------------------------------------------------------------
(* Opening and releasing. *)

(* The releases that begin have a binding, whose lease they are of.        *)
LEMMA Beginning ==
    ASSUME Types, LeasesOK, NEW d \in Clients, NEW left \in SUBSET Sections
    PROVE  /\ Begun(d, left) \subseteq Releases /\ IsFiniteSet(Begun(d, left))
           /\ \A r \in Begun(d, left) :
                  r.client = d /\ r.section \in left /\ bound[d][r.section] # None
  <1> DEFINE held == {x \in left : target[d][x] # None}
             Begins(s) == [client |-> d, section |-> s, opens |-> target[d][s],
                           awaits |-> bound[d][s].pending]
             f == [s \in held |-> Begins(s)]
  <1>1. Begun(d, left) = {Begins(s) : s \in held}
    BY DEF Begun
  <1>2. ASSUME NEW s \in held PROVE bound[d][s] # None /\ Begins(s) \in Releases
    <2>1. bound[d][s] # None /\ target[d][s] # None
      BY DEF LeasesOK, LeaseOK
    <2>2. bound[d][s] \in Bindings /\ target[d][s] \in Nat
      BY <2>1 DEF Types, LeaseTypes
    <2>3. bound[d][s].pending \in SUBSET Nat
      BY <2>2 DEF Bindings
    <2> QED BY <2>1, <2>2, <2>3 DEF Releases
  <1>3. IsFiniteSet(Begun(d, left))
    <2>1. IsFiniteSet(held)
      BY SectionsFinite, FS_Subset
    <2>2. f \in Surjection(held, Begun(d, left))
      BY <1>1 DEF Surjection
    <2> QED BY <2>1, <2>2, FS_Surjection
  <1>4. ASSUME NEW r \in Begun(d, left)
        PROVE  r \in Releases /\ r.client = d /\ r.section \in left /\ bound[d][r.section] # None
    <2>1. PICK s \in held : r = Begins(s)
      BY <1>1
    <2>2. r.client = d /\ r.section = s
      BY <2>1
    <2> QED BY <1>2, <2>1, <2>2
  <1> QED BY <1>3, <1>4

(* A new generation is one that no release of the section remembers.       *)
LEMMA Generation ==
    ASSUME NEW d, NEW s, NEW rs, rs \subseteq Releases, IsFiniteSet(rs)
    PROVE  /\ NewGeneration(d, s, rs) \in Nat
           /\ \A r \in rs : r.client = d /\ r.section = s => r.opens # NewGeneration(d, s, rs)
  <1> DEFINE his == {x \in rs : x.client = d /\ x.section = s}
             known == {r.opens : r \in his}
             f == [r \in his |-> r.opens]
  <1>1. IsFiniteSet(known)
    <2>1. IsFiniteSet(his)
      BY FS_Subset
    <2>2. f \in Surjection(his, known)
      BY DEF Surjection
    <2> QED BY <2>1, <2>2, FS_Surjection
  <1>2. Cardinality(known) \in Nat
    BY <1>1, FS_CardinalityType
  <1>3. \E n \in 1..(Cardinality(known) + 1) : n \notin known /\ (1..(n - 1)) \subseteq known
    BY <1>1, NextNumber
  <1>4. NewGeneration(d, s, rs) \in 1..(Cardinality(known) + 1)
        /\ NewGeneration(d, s, rs) \notin known
    BY <1>3 DEF NewGeneration
  <1> QED BY <1>2, <1>4

(* What an opening of the sections ss leaves, when releases of the         *)
(* sections `left` began before.                                           *)
LeasesOpened(d, ss, left) ==
    /\ bound' \in [Clients -> [Sections -> Bindings \cup {None}]]
    /\ target' \in [Clients -> [Sections -> Nat \cup {None}]]
    /\ \A e \in Clients \ {d} : bound'[e] = bound[e] /\ target'[e] = target[e]
    /\ \A s \in Sections : /\ bound'[d][s] = None <=> target'[d][s] = None
                           /\ bound'[d][s] # None => target'[d][s] = bound'[d][s].opens
    /\ \A s \in ss : bound'[d][s] # None /\ bound'[d][s].epoch = view'[d].epoch
    /\ \A s \in Sections \ ss :
           /\ bound'[d][s] = None <=> bound[d][s] = None
           /\ bound'[d][s] # None => /\ bound'[d][s].opens = bound[d][s].opens
                                     /\ bound'[d][s].epoch = bound[d][s].epoch
    /\ releases' \subseteq Releases /\ IsFiniteSet(releases')
    /\ \A r \in releases' : /\ r \in releases \/ (r.client = d /\ r.section \in left)
                            /\ bound'[r.client][r.section] # None
                            /\ r.client = d /\ r.section \in ss =>
                                   r.opens # bound'[d][r.section].opens

(* A document stays, or is inherited.                                      *)
DocOpened(d, s) ==
    /\ bound[d][s] # None => bound'[d][s] # None /\ bound'[d][s].doc = bound[d][s].doc
    /\ bound'[d][s] # None =>
           \/ bound'[d][s].doc = {} \/ bound'[d][s].inherited
           \/ /\ bound[d][s] # None
              /\ bound'[d][s].doc = bound[d][s].doc
              /\ bound'[d][s].pending = bound[d][s].pending
              /\ bound'[d][s].inherited = bound[d][s].inherited
              /\ bound'[d][s].sending = bound[d][s].sending
    /\ bound'[d][s] # None /\ bound[d][s] = None => bound'[d][s].doc = {}

EditsOpened(d) == \A s \in Sections : DocOpened(d, s)

(* The binding that is opened where there is none of the epoch.            *)
LEMMA NewBinding ==
    ASSUME NEW d \in Clients, NEW s \in Sections, view' \in [Clients -> Views],
           bound[d][s] \in Bindings \cup {None}
    PROVE  /\ Fresh(d) \in Bindings /\ Fresh(d).epoch = view'[d].epoch /\ Fresh(d).doc = {}
           /\ bound[d][s] # None =>
                  /\ Heir(d, s) \in Bindings /\ Heir(d, s).epoch = view'[d].epoch
                  /\ Heir(d, s).doc = bound[d][s].doc
                  /\ Heir(d, s).doc = {} \/ Heir(d, s).inherited
  <1>1. view'[d].epoch \in Nat
    BY DEF Views
  <1>2. Fresh(d) = [epoch |-> view'[d].epoch, opens |-> 1, synced |-> FALSE, pending |-> {},
                    doc |-> {}, inherited |-> FALSE, sending |-> FALSE]
    BY DEF Fresh
  <1>3. Fresh(d) \in Bindings /\ Fresh(d).epoch = view'[d].epoch /\ Fresh(d).doc = {}
    BY <1>1, <1>2 DEF Bindings
  <1>4. ASSUME bound[d][s] # None
        PROVE  /\ Heir(d, s) \in Bindings /\ Heir(d, s).epoch = view'[d].epoch
               /\ Heir(d, s).doc = bound[d][s].doc
               /\ Heir(d, s).doc = {} \/ Heir(d, s).inherited
    <2>1. bound[d][s].doc \in SUBSET Nat
      BY <1>4 DEF Bindings
    <2> DEFINE doc == bound[d][s].doc
               became(was) == [[Fresh(d) EXCEPT !.doc = doc] EXCEPT !.inherited = was]
    <2>2. Heir(d, s) = became(doc # {})
      BY DEF Heir
    <2>3. ASSUME NEW was \in BOOLEAN
          PROVE  /\ became(was) \in Bindings /\ became(was).epoch = view'[d].epoch
                 /\ became(was).doc = doc /\ became(was).inherited = was
      BY <1>3, <2>1 DEF Bindings
    <2> HIDE DEF became
    <2>4. CASE doc = {}
      <3>1. Heir(d, s) = became(FALSE)
        BY <2>2, <2>4
      <3> QED BY <2>3, <2>4, <3>1
    <2>5. CASE doc # {}
      <3>1. Heir(d, s) = became(TRUE)
        BY <2>2, <2>5
      <3> QED BY <2>3, <3>1
    <2> QED BY <2>4, <2>5
  <1> QED BY <1>3, <1>4

LEMMA Opening ==
    ASSUME Types, LeasesOK, view' \in [Clients -> Views], NEW d \in Clients,
           NEW ss \in SUBSET Sections, NEW left \in SUBSET Sections,
           OpenAfter(d, ss, releases \cup Begun(d, left))
    PROVE  LeasesOpened(d, ss, left) /\ EditsOpened(d)
  <1> DEFINE rs == releases \cup Begun(d, left)
             Generated(s) == [bound[d][s] EXCEPT !.opens = NewGeneration(d, s, rs)]
             New(s) == IF Current(d, s) THEN Generated(s)
                       ELSE IF bound[d][s] # None THEN Heir(d, s) ELSE Fresh(d)
  <1>1. /\ bound' = [bound EXCEPT ![d] = [s \in Sections |->
                        IF s \in ss THEN New(s) ELSE bound[d][s]]]
        /\ target' = [target EXCEPT ![d] = [s \in Sections |->
                        IF s \in ss THEN New(s).opens ELSE target[d][s]]]
        /\ releases' = {r \in rs : r.client = d /\ r.section \in ss => Current(d, r.section)}
    BY DEF OpenAfter, LeaseTypes, Types
  <1>2. rs \subseteq Releases /\ IsFiniteSet(rs)
    BY Beginning, FS_Union DEF Types, LeaseTypes
  <1>3. ASSUME NEW s \in Sections, Current(d, s)
        PROVE  /\ New(s) \in Bindings /\ New(s).epoch = view'[d].epoch
               /\ bound[d][s] \in Bindings /\ bound[d][s] # None
               /\ New(s).doc = bound[d][s].doc
               /\ New(s).pending = bound[d][s].pending
               /\ New(s).inherited = bound[d][s].inherited
               /\ New(s).sending = bound[d][s].sending
               /\ \A r \in rs : r.client = d /\ r.section = s => r.opens # New(s).opens
    <2>1. bound[d][s] \in Bindings /\ bound[d][s] # None /\ bound[d][s].epoch = view'[d].epoch
      BY <1>3 DEF Types, LeaseTypes, Current
    <2>2. /\ NewGeneration(d, s, rs) \in Nat
          /\ \A r \in rs : r.client = d /\ r.section = s => r.opens # NewGeneration(d, s, rs)
      BY <1>2, Generation
    <2>3. New(s) = Generated(s)
      BY <1>3
    <2>4. /\ Generated(s) \in Bindings
          /\ Generated(s).opens = NewGeneration(d, s, rs)
          /\ Generated(s).epoch = bound[d][s].epoch
          /\ Generated(s).doc = bound[d][s].doc
          /\ Generated(s).pending = bound[d][s].pending
          /\ Generated(s).inherited = bound[d][s].inherited
          /\ Generated(s).sending = bound[d][s].sending
      BY <2>1, <2>2, BindingReopened
    <2> QED BY <2>1, <2>2, <2>3, <2>4
  <1>4. ASSUME NEW s \in Sections, ~Current(d, s)
        PROVE  /\ New(s) \in Bindings /\ New(s).epoch = view'[d].epoch
               /\ New(s).doc = {} \/ New(s).inherited
               /\ bound[d][s] # None => New(s).doc = bound[d][s].doc
               /\ bound[d][s] = None => New(s).doc = {}
    <2>1. bound[d][s] \in Bindings \cup {None}
      BY DEF Types, LeaseTypes
    <2>2. New(s) = IF bound[d][s] # None THEN Heir(d, s) ELSE Fresh(d)
      BY <1>4
    <2> HIDE DEF New
    <2>3. CASE bound[d][s] # None
      BY <2>1, <2>2, <2>3, NewBinding
    <2>4. CASE bound[d][s] = None
      BY <2>1, <2>2, <2>4, NewBinding
    <2> QED BY <2>3, <2>4
  <1> HIDE DEF New
  <1>6. ASSUME NEW s \in Sections
        PROVE  /\ s \in ss => bound'[d][s] = New(s) /\ target'[d][s] = New(s).opens
               /\ s \notin ss => bound'[d][s] = bound[d][s] /\ target'[d][s] = target[d][s]
    BY <1>1 DEF Types, LeaseTypes
  <1>7. \A s \in Sections : New(s) \in Bindings /\ New(s).epoch = view'[d].epoch
    BY <1>3, <1>4
  <1>8. \A s \in Sections : New(s) # None /\ New(s).opens \in Nat
    BY <1>7, NoneIsNoBinding DEF Bindings
  <1>10. /\ bound' \in [Clients -> [Sections -> Bindings \cup {None}]]
         /\ target' \in [Clients -> [Sections -> Nat \cup {None}]]
         /\ \A e \in Clients \ {d} : bound'[e] = bound[e] /\ target'[e] = target[e]
    <2>1. /\ bound \in [Clients -> [Sections -> Bindings \cup {None}]]
          /\ target \in [Clients -> [Sections -> Nat \cup {None}]]
      BY DEF Types, LeaseTypes
    <2> DEFINE row == [s \in Sections |-> IF s \in ss THEN New(s) ELSE bound[d][s]]
               goals == [s \in Sections |-> IF s \in ss THEN New(s).opens ELSE target[d][s]]
    <2>2. row \in [Sections -> Bindings \cup {None}]
      BY <1>7, <2>1
    <2>3. goals \in [Sections -> Nat \cup {None}]
      BY <1>8, <2>1
    <2>4. bound' = [bound EXCEPT ![d] = row] /\ target' = [target EXCEPT ![d] = goals]
      BY <1>1
    <2> HIDE DEF row, goals
    <2> QED BY <2>1, <2>2, <2>3, <2>4
  <1>11. ASSUME NEW s \in Sections
         PROVE  /\ bound'[d][s] = None <=> target'[d][s] = None
                /\ bound'[d][s] # None => target'[d][s] = bound'[d][s].opens
    <2>1. LeaseOK(d, s)
      BY DEF LeasesOK
    <2> QED BY <1>6, <1>8, <2>1, NoneIsNoBinding DEF LeaseOK
  <1>12. \A s \in ss : bound'[d][s] # None /\ bound'[d][s].epoch = view'[d].epoch
    BY <1>6, <1>7, <1>8
  <1>13. \A s \in Sections \ ss :
             /\ bound'[d][s] = None <=> bound[d][s] = None
             /\ bound'[d][s] # None => /\ bound'[d][s].opens = bound[d][s].opens
                                       /\ bound'[d][s].epoch = bound[d][s].epoch
    BY <1>6
  <1>14. releases' \subseteq rs
    BY <1>1
  <1>15. releases' \subseteq Releases /\ IsFiniteSet(releases')
    BY <1>2, <1>14, FS_Subset
  <1>16. ASSUME NEW r \in releases'
         PROVE  /\ r \in releases \/ (r.client = d /\ r.section \in left)
                /\ bound'[r.client][r.section] # None
                /\ r.client = d /\ r.section \in ss => r.opens # bound'[d][r.section].opens
    <2>1. r \in rs /\ r \in Releases
      BY <1>14, <1>15
    <2>2. r.client \in Clients /\ r.section \in Sections
      BY <2>1 DEF Releases
    <2>3. bound[r.client][r.section] # None
      BY <2>1, Beginning DEF LeasesOK, ReleaseOK
    <2>4. r \in releases \/ (r.client = d /\ r.section \in left)
      BY <2>1, Beginning
    <2>5. CASE r.client # d
      BY <1>10, <2>2, <2>3, <2>4, <2>5
    <2>6. CASE r.client = d /\ r.section \notin ss
      BY <1>13, <2>2, <2>3, <2>4, <2>6
    <2>7. CASE r.client = d /\ r.section \in ss
      <3>1. Current(d, r.section)
        BY <1>1, <2>7
      <3>2. r.opens # New(r.section).opens
        BY <1>3, <2>1, <2>2, <2>7, <3>1
      <3> QED BY <1>6, <1>8, <2>2, <2>4, <2>7, <3>2
    <2> QED BY <2>5, <2>6, <2>7
  <1>17. ASSUME NEW s \in Sections PROVE DocOpened(d, s)
    <2>1. CASE s \notin ss
      BY <1>6, <2>1 DEF DocOpened
    <2>2. CASE s \in ss /\ Current(d, s)
      BY <1>3, <1>6, <1>8, <2>2 DEF DocOpened
    <2>3. CASE s \in ss /\ ~Current(d, s)
      BY <1>4, <1>6, <1>8, <2>3 DEF DocOpened
    <2> QED BY <2>1, <2>2, <2>3
  <1> QED BY <1>10, <1>11, <1>12, <1>13, <1>15, <1>16, <1>17 DEF LeasesOpened, EditsOpened

-----------------------------------------------------------------------------
(* What a load of a device leaves. *)

LEMMA LeasesKept ==
    ASSUME LeasesOK, NEW d \in Clients,
           NEW ss \in SUBSET Sections, NEW left \in SUBSET Sections,
           LeasesOpened(d, ss, left),
           \A e \in Clients \ {d} :
               /\ shown'[e] = shown[e] /\ view'[e].epoch = view[e].epoch
               /\ state'[e] = state[e] /\ work'[e] = work[e] /\ next'[e] = next[e],
           \A s \in Sections : IsShown(d, s)' =>
               /\ shown'[d]
               /\ s \in ss \/ (s \notin left /\ IsShown(d, s) /\ view'[d].epoch = view[d].epoch),
           \A s \in Sections : /\ work'[d][s] # "idle" => state'[d][s] = "loading"
                               /\ s \in next'[d] => work'[d][s] = "idle",
           \A c \in calls' : CallOK(c)',
           OneCall'
    PROVE  LeasesOK'
  <1>1. ASSUME NEW e \in Clients, NEW s \in Sections PROVE LeaseOK(e, s)'
    <2>1. LeaseOK(e, s)
      BY DEF LeasesOK
    <2>2. CASE e # d
      BY <2>1, <2>2 DEF LeaseOK, IsShown, LeasesOpened
    <2>3. CASE e = d
      <3>1. /\ bound'[d][s] = None <=> target'[d][s] = None
            /\ bound'[d][s] # None => target'[d][s] = bound'[d][s].opens
        BY DEF LeasesOpened
      <3>2. ASSUME IsShown(d, s)'
            PROVE  bound'[d][s] # None /\ shown'[d] /\ bound'[d][s].epoch = view'[d].epoch
        <4>1. CASE s \in ss
          BY <3>2, <4>1 DEF LeasesOpened
        <4>2. CASE s \notin ss
          BY <2>1, <2>3, <3>2, <4>2 DEF LeasesOpened, LeaseOK
        <4> QED BY <4>1, <4>2
      <3> QED BY <2>3, <3>1, <3>2 DEF LeaseOK
    <2> QED BY <2>2, <2>3
  <1>2. ASSUME NEW r \in releases' PROVE ReleaseOK(r)'
    <2>1. /\ r.client \in Clients /\ r.section \in Sections
          /\ bound'[r.client][r.section] # None
          /\ r \in releases \/ (r.client = d /\ r.section \in left)
      BY DEF LeasesOpened, Releases
    <2>2. ASSUME IsShown(r.client, r.section)'
          PROVE  r.opens # bound'[r.client][r.section].opens
      <3>1. CASE r.client = d /\ r.section \in ss
        BY <3>1 DEF LeasesOpened
      <3>2. CASE r.client = d /\ r.section \notin ss
        <4>1. r \in releases /\ IsShown(d, r.section)
          BY <2>1, <2>2, <3>2 DEF IsShown
        <4>2. r.opens # bound[d][r.section].opens
          BY <3>2, <4>1 DEF LeasesOK, ReleaseOK
        <4> QED BY <2>1, <3>2, <4>2 DEF LeasesOpened
      <3>3. CASE r.client # d
        <4>1. r \in releases /\ IsShown(r.client, r.section)
          BY <2>1, <2>2, <3>3 DEF IsShown
        <4> QED BY <2>1, <3>3, <4>1 DEF LeasesOpened, LeasesOK, ReleaseOK
      <3> QED BY <3>1, <3>2, <3>3
    <2> QED BY <2>1, <2>2 DEF ReleaseOK
  <1> QED BY <1>1, <1>2 DEF LeasesOK

LEMMA Aborting ==
    ASSUME Types, LeasesOK, NEW d \in Clients, NEW cs \in SUBSET calls,
           calls' = Aborted(d, cs), \A e \in Clients \ {d} : work'[e] = work[e]
    PROVE  calls' \subseteq Calls /\ (\A c \in calls' : CallOK(c)') /\ OneCall'
  <1>1. ASSUME NEW c \in calls'
        PROVE  c \in Calls /\ (c.live => c \in calls /\ c.client # d)
    <2>1. PICK o \in cs : c = IF o.client = d THEN [o EXCEPT !.live = FALSE] ELSE o
      BY DEF Aborted
    <2>2. o \in Calls
      BY DEF Types, LeaseTypes
    <2>3. CASE o.client = d
      BY <2>1, <2>2, <2>3 DEF Calls
    <2>4. CASE o.client # d
      BY <2>1, <2>2, <2>4
    <2> QED BY <2>3, <2>4
  <1>2. ASSUME NEW c \in calls' PROVE CallOK(c)'
    BY <1>1 DEF LeasesOK, CallOK
  <1>3. OneCall'
    BY <1>1 DEF LeasesOK, OneCall
  <1> QED BY <1>1, <1>2, <1>3

LEMMA EditsSurvive ==
    ASSUME EditsOK, NEW d \in Clients, EditsOpened(d),
           \A e \in Clients \ {d} : bound'[e] = bound[e], UNCHANGED typing
    PROVE  EditsOK'
  <1>1. UNCHANGED <<edits, typed, refused, dropped>>
    BY DEF typing
  <1>2. \A e \in Clients, s \in Sections : bound[e][s] # None =>
            bound'[e][s] # None /\ bound'[e][s].doc = bound[e][s].doc
    BY DEF EditsOpened, DocOpened
  <1>3. ASSUME NEW e \in Clients, NEW s \in Sections, bound'[e][s] # None
        PROVE  bound[e][s] = None => bound'[e][s].doc = {}
    BY <1>3 DEF EditsOpened, DocOpened
  <1>4. \A n \in typed' : \/ n \in dropped'
                          \/ \E e \in Clients, s \in Sections :
                                 bound'[e][s] # None /\ n \in bound'[e][s].doc
    BY <1>1, <1>2 DEF EditsOK, EditsKept
  <1>5. ASSUME NEW e \in Clients, NEW s \in Sections
        PROVE  \/ bound'[e][s] = None \/ bound'[e][s].inherited \/ bound'[e][s].sending
               \/ bound'[e][s].doc \subseteq bound'[e][s].pending \cup refused'
    <2>1. \/ bound[e][s] = None \/ bound[e][s].inherited \/ bound[e][s].sending
          \/ bound[e][s].doc \subseteq bound[e][s].pending \cup refused
      BY DEF EditsOK, EditsKept
    <2>2. CASE e # d
      BY <1>1, <2>1, <2>2
    <2>3. CASE e = d
      BY <1>1, <2>1, <2>3 DEF EditsOpened, DocOpened
    <2> QED BY <2>2, <2>3
  <1>6. ASSUME NEW e \in Clients \ Writers, NEW s \in Sections, bound'[e][s] # None
        PROVE  bound'[e][s].doc = {}
    BY <1>2, <1>3, <1>6 DEF EditsOK
  <1> QED BY <1>4, <1>5, <1>6 DEF EditsOK, EditsKept

(* The section effect: what is not wanted is released, the selected        *)
(* section opened.                                                         *)
LEMMA Running ==
    ASSUME Types, LeasesOK, EditsOK, NEW d \in Clients, shown[d], shown' = shown,
           view' \in [Clients -> Views], \A e \in Clients : view'[e].epoch = view[e].epoch,
           index' \in [Clients -> Indexes], UNCHANGED typing,
           NEW cs \in SUBSET calls, Run(d, cs)
    PROVE  LeaseTypes' /\ LeasesOK' /\ EditsOK'
  <1> DEFINE wanted == Targets(index'[d].listed, selected'[d])
             left == {s \in Sections : target[d][s] # None} \ wanted
             first == wanted \cap {selected'[d]}
  <1>1. /\ OpenAfter(d, first, releases \cup Begun(d, left))
        /\ state' = [state EXCEPT ![d] = [s \in Sections |->
                       IF s \in first THEN "loading" ELSE Leaving(d, left)[s]]]
        /\ work' = [work EXCEPT ![d] = [s \in Sections |->
                       IF s \in first THEN "sync" ELSE "idle"]]
        /\ next' = [next EXCEPT ![d] = wanted \ first]
        /\ calls' = Aborted(d, cs)
    BY DEF Run
  <1>2. wanted \in SUBSET Sections
    BY DEF Targets, Indexes
  <1>3. first \in SUBSET Sections /\ left \in SUBSET Sections
    BY <1>2
  <1> HIDE DEF wanted, left, first
  <1>4. LeasesOpened(d, first, left) /\ EditsOpened(d)
    BY <1>1, <1>3, Opening
  <1>5. \A e \in Clients \ {d} :
            state'[e] = state[e] /\ work'[e] = work[e] /\ next'[e] = next[e]
    BY <1>1 DEF Types, LeaseTypes
  <1>6. calls' \subseteq Calls /\ (\A c \in calls' : CallOK(c)') /\ OneCall'
    BY <1>1, <1>5, Aborting
  <1>7. \A s \in Sections :
            /\ state'[d][s] = IF s \in first THEN "loading"
                              ELSE IF s \in left /\ state[d][s] # "none" THEN "releasing"
                              ELSE state[d][s]
            /\ work'[d][s] = IF s \in first THEN "sync" ELSE "idle"
            /\ s \in next'[d] => s \notin first
    BY <1>1 DEF Types, LeaseTypes, Leaving
  <1>8. LeasesOK'
    <2>1. \A s \in Sections : IsShown(d, s)' =>
              /\ shown'[d]
              /\ s \in first \/ (s \notin left /\ IsShown(d, s) /\ view'[d].epoch = view[d].epoch)
      BY <1>7 DEF IsShown
    <2>2. \A s \in Sections : /\ work'[d][s] # "idle" => state'[d][s] = "loading"
                              /\ s \in next'[d] => work'[d][s] = "idle"
      BY <1>7
    <2> QED BY <1>3, <1>4, <1>5, <1>6, <2>1, <2>2, LeasesKept
  <1>9. LeaseTypes'
    <2>1. state' \in [Clients -> [Sections -> {"none", "loading", "ready", "releasing", "error"}]]
      <3>1. [s \in Sections |-> IF s \in first THEN "loading" ELSE Leaving(d, left)[s]]
              \in [Sections -> {"none", "loading", "ready", "releasing", "error"}]
        BY DEF Leaving, Types, LeaseTypes
      <3> QED BY <1>1, <3>1 DEF Types, LeaseTypes
    <2>2. work' \in [Clients -> [Sections -> {"idle", "sync", "init"}]]
      <3>1. [s \in Sections |-> IF s \in first THEN "sync" ELSE "idle"]
              \in [Sections -> {"idle", "sync", "init"}]
        OBVIOUS
      <3> QED BY <1>1, <3>1 DEF Types, LeaseTypes
    <2>3. next' \in [Clients -> SUBSET Sections]
      BY <1>1, <1>2 DEF Types, LeaseTypes
    <2> QED BY <1>4, <1>6, <2>1, <2>2, <2>3 DEF LeaseTypes, LeasesOpened
  <1>10. EditsOK'
    BY <1>4, EditsSurvive DEF LeasesOpened
  <1> QED BY <1>8, <1>9, <1>10

(* The note is opened anew: every lease there is is released.              *)
LEMMA Restarting ==
    ASSUME Types, LeasesOK, EditsOK, NEW d \in Clients, shown'[d],
           \A e \in Clients \ {d} : shown'[e] = shown[e] /\ view'[e].epoch = view[e].epoch,
           view' \in [Clients -> Views], UNCHANGED typing,
           Restart(d)
    PROVE  LeaseTypes' /\ LeasesOK' /\ EditsOK'
  <1> DEFINE held == {s \in Sections : target[d][s] # None}
             first == IF index[d].ready THEN {selected[d]} \cap index[d].listed ELSE {}
  <1>1. /\ OpenAfter(d, first, releases \cup Begun(d, held))
        /\ state' = [state EXCEPT ![d] = [s \in Sections |->
                       IF s \in first THEN "loading" ELSE Leaving(d, held)[s]]]
        /\ work' = [work EXCEPT ![d] = [s \in Sections |-> "idle"]]
        /\ next' = [next EXCEPT ![d] = {}]
        /\ calls' = Aborted(d, calls)
    BY DEF Restart, Stop
  <1>2. first \in SUBSET Sections /\ held \in SUBSET Sections
    BY DEF Types, ListTypes, Indexes
  <1>3. \A s \in Sections : IsShown(d, s) => s \in held
    BY DEF LeasesOK, LeaseOK
  <1> HIDE DEF held, first
  <1>4. LeasesOpened(d, first, held) /\ EditsOpened(d)
    BY <1>1, <1>2, Opening
  <1>5. \A e \in Clients \ {d} :
            state'[e] = state[e] /\ work'[e] = work[e] /\ next'[e] = next[e]
    BY <1>1 DEF Types, LeaseTypes
  <1>6. calls' \subseteq Calls /\ (\A c \in calls' : CallOK(c)') /\ OneCall'
    BY <1>1, <1>5, Aborting
  <1>7. \A s \in Sections :
            /\ state'[d][s] = IF s \in first THEN "loading"
                              ELSE IF s \in held /\ state[d][s] # "none" THEN "releasing"
                              ELSE state[d][s]
            /\ work'[d][s] = "idle"
    BY <1>1 DEF Types, LeaseTypes, Leaving
  <1>8. LeasesOK'
    <2>1. \A s \in Sections : IsShown(d, s)' => shown'[d] /\ s \in first
      BY <1>3, <1>7 DEF IsShown
    <2>2. \A s \in Sections : /\ work'[d][s] # "idle" => state'[d][s] = "loading"
                              /\ s \in next'[d] => work'[d][s] = "idle"
      BY <1>7
    <2> QED BY <1>2, <1>4, <1>5, <1>6, <2>1, <2>2, LeasesKept
  <1>9. LeaseTypes'
    <2>1. state' \in [Clients -> [Sections -> {"none", "loading", "ready", "releasing", "error"}]]
      <3>1. [s \in Sections |-> IF s \in first THEN "loading" ELSE Leaving(d, held)[s]]
              \in [Sections -> {"none", "loading", "ready", "releasing", "error"}]
        BY DEF Leaving, Types, LeaseTypes
      <3> QED BY <1>1, <3>1 DEF Types, LeaseTypes
    <2>2. work' \in [Clients -> [Sections -> {"idle", "sync", "init"}]]
      BY <1>1 DEF Types, LeaseTypes
    <2>3. next' \in [Clients -> SUBSET Sections]
      BY <1>1 DEF Types, LeaseTypes
    <2> QED BY <1>4, <1>6, <2>1, <2>2, <2>3 DEF LeaseTypes, LeasesOpened
  <1>10. EditsOK'
    BY <1>4, EditsSurvive DEF LeasesOpened
  <1> QED BY <1>8, <1>9, <1>10

(* The loads of a device stop; nothing is released.                        *)
LEMMA Stopping ==
    ASSUME Types, LeasesOK, EditsOK, NEW d \in Clients, NEW cs \in SUBSET calls, Stop(d, cs),
           UNCHANGED <<bound, target, state, releases>>, shown' = shown, UNCHANGED typing,
           \A e \in Clients : view'[e].epoch = view[e].epoch
    PROVE  LeaseTypes' /\ LeasesOK' /\ EditsOK'
  <1>1. /\ work' = [work EXCEPT ![d] = [s \in Sections |-> "idle"]]
        /\ next' = [next EXCEPT ![d] = {}]
        /\ calls' = Aborted(d, cs)
    BY DEF Stop
  <1>2. \A e \in Clients \ {d} : work'[e] = work[e] /\ next'[e] = next[e]
    BY <1>1 DEF Types, LeaseTypes
  <1>3. calls' \subseteq Calls /\ (\A c \in calls' : CallOK(c)') /\ OneCall'
    BY <1>1, <1>2, Aborting
  <1>4. work'[d] = [s \in Sections |-> "idle"] /\ next'[d] = {}
    BY <1>1 DEF Types, LeaseTypes
  <1>5. \A e \in Clients, s \in Sections : LeaseOK(e, s)'
    <2>1. \A e \in Clients, s \in Sections : LeaseOK(e, s)
      BY DEF LeasesOK
    <2> QED BY <1>2, <1>4, <2>1 DEF LeaseOK, IsShown
  <1>6. \A r \in releases' : ReleaseOK(r)'
    BY DEF LeasesOK, ReleaseOK, IsShown
  <1>7. LeaseTypes'
    BY <1>1, <1>3 DEF Types, LeaseTypes
  <1>8. EditsOK'
    BY DEF EditsOK, EditsKept, typing
  <1> QED BY <1>3, <1>5, <1>6, <1>7, <1>8 DEF LeasesOK

(* A load is over, and the sections beside it are opened.                  *)
LEMMA Finishing ==
    ASSUME Types, LeasesOK, EditsOK, NEW d \in Clients, NEW s \in Sections,
           NEW status \in {"ready", "error"}, Done(d, s, status),
           work[d][s] # "idle", shown' = shown, view' = view, UNCHANGED typing,
           calls' \subseteq calls, \A c \in calls' : c.live /\ c.client = d => c.section # s
    PROVE  LeaseTypes' /\ LeasesOK' /\ EditsOK'
  <1>1. /\ OpenAfter(d, next[d], releases \cup Begun(d, {}))
        /\ state' = [state EXCEPT ![d] = [x \in Sections |->
                       IF x = s THEN status
                       ELSE IF x \in next[d] THEN "loading" ELSE state[d][x]]]
        /\ work' = [work EXCEPT ![d] = [x \in Sections |->
                       IF x = s THEN "idle" ELSE IF x \in next[d] THEN "sync" ELSE work[d][x]]]
        /\ next' = [next EXCEPT ![d] = {}]
    <2>1. releases = releases \cup Begun(d, {})
      BY DEF Begun
    <2> QED BY <2>1 DEF Done, Types, LeaseTypes
  <1>2. next[d] \in SUBSET Sections /\ view' \in [Clients -> Views]
    BY DEF Types, LeaseTypes, ListTypes
  <1>3. /\ state[d][s] = "loading" /\ s \notin next[d]
        /\ IsShown(d, s) /\ bound[d][s] # None /\ shown[d]
    BY DEF LeasesOK, LeaseOK, IsShown
  <1>4. LeasesOpened(d, next[d], {}) /\ EditsOpened(d)
    <2>1. {} \in SUBSET Sections
      OBVIOUS
    <2>2. OpenAfter(d, next[d], releases \cup Begun(d, {}))
      BY <1>1
    <2> QED BY <1>2, <2>1, <2>2, Opening
  <1>5. \A e \in Clients \ {d} :
            state'[e] = state[e] /\ work'[e] = work[e] /\ next'[e] = next[e]
    BY <1>1 DEF Types, LeaseTypes
  <1>6. \A x \in Sections :
            /\ state'[d][x] = IF x = s THEN status
                              ELSE IF x \in next[d] THEN "loading" ELSE state[d][x]
            /\ work'[d][x] = IF x = s THEN "idle"
                             ELSE IF x \in next[d] THEN "sync" ELSE work[d][x]
            /\ next'[d] = {}
    BY <1>1 DEF Types, LeaseTypes
  <1>7. ASSUME NEW c \in calls' PROVE CallOK(c)'
    <2>1. CallOK(c) /\ c.section \in Sections
      BY DEF LeasesOK, Types, LeaseTypes, Calls
    <2> SUFFICES ASSUME c.live PROVE c.client \in Clients /\ work'[c.client][c.section] = "init"
      BY DEF CallOK
    <2>2. c.client \in Clients /\ work[c.client][c.section] = "init"
      BY <2>1 DEF CallOK
    <2>3. c.client = d => c.section # s /\ c.section \notin next[d]
      BY <2>1, <2>2 DEF LeasesOK, LeaseOK
    <2> QED BY <1>5, <1>6, <2>1, <2>2, <2>3
  <1>8. OneCall'
    BY DEF LeasesOK, OneCall
  <1>9. LeasesOK'
    <2>1. \A x \in Sections : IsShown(d, x)' =>
              /\ shown'[d]
              /\ x \in next[d] \/ (x \notin {} /\ IsShown(d, x) /\ view'[d].epoch = view[d].epoch)
      BY <1>3, <1>6 DEF IsShown
    <2>2. \A x \in Sections : LeaseOK(d, x)
      BY DEF LeasesOK
    <2>3. \A x \in Sections : /\ work'[d][x] # "idle" => state'[d][x] = "loading"
                              /\ x \in next'[d] => work'[d][x] = "idle"
      BY <1>6, <2>2 DEF LeaseOK
    <2> QED BY <1>2, <1>4, <1>5, <1>7, <1>8, <2>1, <2>3, LeasesKept
  <1>10. LeaseTypes'
    <2>1. state' \in [Clients -> [Sections -> {"none", "loading", "ready", "releasing", "error"}]]
      <3>1. [x \in Sections |->
                IF x = s THEN status ELSE IF x \in next[d] THEN "loading" ELSE state[d][x]]
              \in [Sections -> {"none", "loading", "ready", "releasing", "error"}]
        BY DEF Types, LeaseTypes
      <3> QED BY <1>1, <3>1 DEF Types, LeaseTypes
    <2>2. work' \in [Clients -> [Sections -> {"idle", "sync", "init"}]]
      <3>1. [x \in Sections |->
                IF x = s THEN "idle" ELSE IF x \in next[d] THEN "sync" ELSE work[d][x]]
              \in [Sections -> {"idle", "sync", "init"}]
        BY DEF Types, LeaseTypes
      <3> QED BY <1>1, <3>1 DEF Types, LeaseTypes
    <2>3. next' \in [Clients -> SUBSET Sections]
      BY <1>1 DEF Types, LeaseTypes
    <2>4. calls' \subseteq Calls
      BY DEF Types, LeaseTypes
    <2> QED BY <1>4, <2>1, <2>2, <2>3, <2>4 DEF LeaseTypes, LeasesOpened
  <1>11. EditsOK'
    BY <1>4, EditsSurvive DEF LeasesOpened
  <1> QED BY <1>9, <1>10, <1>11

-----------------------------------------------------------------------------
(* The initial state. *)

LEMMA InitHolds == Init => Inv
  <1> SUFFICES ASSUME Init PROVE Inv
    OBVIOUS
  <1>1. \A s \in Sections : /\ First(s) \in Manifests /\ First(s) # None
                            /\ First(s).section = s /\ First(s).epoch = 1
    BY NoneIsNoBinding DEF First, Manifests
  <1>2. /\ note \in Views
        /\ sect \in [Sections -> Rows]
    BY <1>1 DEF Init, Views, Rows
  <1>3. manifests = {First(s) : s \in InitiallyLive \ Uninitialized}
    BY DEF Init
  <1>4. manifests \subseteq Manifests
    BY <1>1, <1>3, SectionsAssumption
  <1>5. ListTypes
    BY DEF Init, ListTypes, Views, Indexes, Jobs, NoIndex, Job
  <1>6. LeaseTypes
    BY FS_EmptySet DEF Init, LeaseTypes
  <1>7. TypingTypes /\ EditsOK
    BY NoneAssumption DEF Init, TypingTypes, EditsOK, EditsKept
  <1>8. ServerOK
    <2>1. \A s \in Sections :
              /\ sect[s].state = (IF s \in InitiallyLive THEN "live" ELSE "none")
              /\ sect[s].init = IF s \in InitiallyLive \ Uninitialized THEN First(s) ELSE None
      BY DEF Init
    <2>2. Live # {}
      BY <2>1, SectionsAssumption DEF Live
    <2>3. ASSUME NEW s \in InitiallyLive \ Uninitialized
          PROVE  /\ First(s) \in manifests
                 /\ [section |-> First(s).section, epoch |-> 1, manifest |-> First(s)] \in inits
      BY <1>3 DEF Init
    <2>4. ASSUME NEW i \in inits
          PROVE  \E s \in InitiallyLive \ Uninitialized :
                     i.section = s /\ i.epoch = 1 /\ i.manifest = First(s)
      <3>1. PICK m \in manifests : i = [section |-> m.section, epoch |-> 1, manifest |-> m]
        BY DEF Init
      <3>2. PICK s \in InitiallyLive \ Uninitialized : m = First(s)
        BY <1>3
      <3>3. s \in Sections
        BY SectionsAssumption
      <3> QED BY <1>1, <3>1, <3>2, <3>3
    <2>5. ASSUME NEW i \in inits
          PROVE  /\ i.section \in Sections /\ i.manifest \in manifests
                 /\ i.manifest.section = i.section /\ i.manifest.epoch = i.epoch
                 /\ sect[i.section].init = i.manifest
      <3>1. PICK s \in InitiallyLive \ Uninitialized :
                i.section = s /\ i.epoch = 1 /\ i.manifest = First(s)
        BY <2>4
      <3>2. s \in Sections
        BY SectionsAssumption
      <3>3. /\ First(s) \in manifests /\ sect[s].init = First(s)
            /\ First(s).section = s /\ First(s).epoch = 1
        BY <1>1, <2>1, <2>3, <3>2
      <3> QED BY <3>1, <3>2, <3>3
    <2>6. ASSUME NEW s \in Sections
          PROVE  /\ sect[s].init \in manifests \cup {None}
                 /\ sect[s].state = "none" => sect[s].init = None
                 /\ sect[s].init # None =>
                        \E i \in inits : i.section = s /\ i.manifest = sect[s].init
      <3>1. CASE s \in InitiallyLive \ Uninitialized
        <4>1. First(s).section = s
          BY <1>1
        <4> QED BY <2>1, <2>3, <3>1, <4>1
      <3>2. CASE s \notin InitiallyLive \ Uninitialized
        BY <2>1, <3>2
      <3> QED BY <3>1, <3>2
    <2> QED BY <2>2, <2>5, <2>6 DEF ServerOK
  <1>9. LeasesOK
    BY DEF Init, LeasesOK, LeaseOK, IsShown, OneCall
  <1> QED BY <1>2, <1>4, <1>5, <1>6, <1>7, <1>8, <1>9 DEF Inv, Types, ServerTypes

-----------------------------------------------------------------------------
(* The server. *)

LEMMA RowChanged ==
    ASSUME NEW row \in Rows
    PROVE  /\ [row EXCEPT !.state = "deleted"] \in Rows
           /\ [row EXCEPT !.state = "deleted"].state = "deleted"
           /\ [row EXCEPT !.state = "deleted"].init = row.init
           /\ \A m \in Manifests : /\ [row EXCEPT !.init = m] \in Rows
                                   /\ [row EXCEPT !.init = m].state = row.state
                                   /\ [row EXCEPT !.init = m].init = m
  BY DEF Rows

(* An event of a change reaches the devices; their leases are as they were. *)
LEMMA Notified ==
    ASSUME Inv, Notify, UNCHANGED <<leases, typing>>
    PROVE  ListTypes' /\ LeaseTypes' /\ TypingTypes' /\ LeasesOK' /\ EditsOK'
  <1>1. UNCHANGED <<view, shown, index, indexing, selected, bound, target, state, work, next,
                    calls, releases, edits, typed, refused, dropped>> /\ behind' = Clients
    BY DEF Notify, leases, typing
  <1>2. ListTypes' /\ LeaseTypes' /\ TypingTypes'
    BY <1>1 DEF Inv, Types, ListTypes, LeaseTypes, TypingTypes
  <1>3. LeasesOK'
    BY <1>1 DEF Inv, LeasesOK, LeaseOK, ReleaseOK, CallOK, OneCall, IsShown
  <1>4. EditsOK'
    BY <1>1 DEF Inv, EditsOK, EditsKept
  <1> QED BY <1>2, <1>3, <1>4

LEMMA NoteAdvances ==
    ASSUME Inv, Advance
    PROVE  note' \in Views
  BY DEF Advance, Inv, Types, ServerTypes, Views

LEMMA SaveStep == ASSUME Inv, NEW d, Save(d) PROVE Inv'
  <1>1. ListTypes' /\ LeaseTypes' /\ TypingTypes' /\ LeasesOK' /\ EditsOK'
    BY Notified DEF Save, Advance
  <1>2. ServerTypes' /\ ServerOK'
    BY NoteAdvances DEF Save, Inv, Types, ServerTypes, ServerOK, Live
  <1> QED BY <1>1, <1>2 DEF Inv, Types

(* A section that is created was not initialized before.                   *)
LEMMA CreateStep == ASSUME Inv, NEW d, NEW s \in Sections, Create(d, s) PROVE Inv'
  <1>1. ListTypes' /\ LeaseTypes' /\ TypingTypes' /\ LeasesOK' /\ EditsOK'
    BY Notified DEF Create, Advance
  <1> DEFINE row == [state |-> "live", created |-> note.epoch, init |-> None]
  <1>2. sect' = [sect EXCEPT ![s] = row] /\ UNCHANGED <<manifests, inits>>
    BY DEF Create
  <1>3. row \in Rows /\ row.state = "live" /\ row.init = None
    BY DEF Inv, Types, ServerTypes, Views, Rows
  <1> HIDE DEF row
  <1>4. sect \in [Sections -> Rows] /\ manifests \subseteq Manifests
    BY DEF Inv, Types, ServerTypes
  <1>5. ServerTypes'
    BY <1>2, <1>3, <1>4, NoteAdvances DEF Create, ServerTypes
  <1>6. sect'[s] = row /\ \A x \in Sections \ {s} : sect'[x] = sect[x]
    BY <1>2, <1>4
  <1>7. sect[s].state = "none" /\ sect[s].init = None
    BY DEF Create, Inv, ServerOK
  <1>8. ServerOK'
    <2>1. Live' # {}
      BY <1>3, <1>6 DEF Live
    <2>2. \A i \in inits : i.section # s
      BY <1>4, <1>7, NoneIsNoBinding DEF Inv, ServerOK
    <2> QED BY <1>2, <1>3, <1>6, <2>1, <2>2 DEF Inv, ServerOK
  <1> QED BY <1>1, <1>5, <1>8 DEF Inv, Types

(* A section is left.                                                      *)
LEMMA TombstoneStep == ASSUME Inv, NEW d, NEW s \in Sections, Tombstone(d, s) PROVE Inv'
  <1>1. ListTypes' /\ LeaseTypes' /\ TypingTypes' /\ LeasesOK' /\ EditsOK'
    BY Notified DEF Tombstone, Advance
  <1> DEFINE row == [sect[s] EXCEPT !.state = "deleted"]
  <1>2. sect \in [Sections -> Rows]
    BY DEF Inv, Types, ServerTypes
  <1>3. sect' = [sect EXCEPT ![s] = row] /\ UNCHANGED <<manifests, inits>>
    BY DEF Tombstone
  <1>4. row \in Rows /\ row.state = "deleted" /\ row.init = sect[s].init
    BY <1>2, RowChanged
  <1> HIDE DEF row
  <1>5. ServerTypes'
    BY <1>2, <1>3, <1>4, NoteAdvances DEF Tombstone, ServerTypes, Inv, Types
  <1>6. sect'[s] = row /\ \A x \in Sections \ {s} : sect'[x] = sect[x]
    BY <1>2, <1>3
  <1>7. ServerOK'
    <2>1. Live' # {}
      <3> SUFFICES ASSUME Live' = {} PROVE FALSE
        OBVIOUS
      <3>1. \A x \in Live : x = s
        BY <1>6 DEF Live
      <3>2. Live = {s}
        BY <3>1 DEF Tombstone
      <3>3. Cardinality(Live) = 1
        BY <3>2, FS_Singleton
      <3> QED BY <3>3 DEF Tombstone, NotLast
    <2>2. \A x \in Sections : sect'[x].init = sect[x].init
      BY <1>4, <1>6
    <2>3. \A x \in Sections : sect'[x].state = "none" => sect[x].state = "none"
      BY <1>4, <1>6
    <2> QED BY <1>3, <2>1, <2>2, <2>3 DEF Inv, ServerOK
  <1> QED BY <1>1, <1>5, <1>7 DEF Inv, Types

LEMMA RotateStep == ASSUME Inv, Rotate PROVE Inv'
  <1>1. ListTypes' /\ LeaseTypes' /\ TypingTypes' /\ LeasesOK' /\ EditsOK'
    BY Notified DEF Rotate
  <1>2. ServerTypes' /\ ServerOK'
    BY DEF Rotate, Inv, Types, ServerTypes, Views, ServerOK, Live
  <1> QED BY <1>1, <1>2 DEF Inv, Types

-----------------------------------------------------------------------------
(* Calls and bindings. *)

(* A call is replaced by one that is as far as `x`, or ends.               *)
LEMMA CallReplaced ==
    ASSUME Types, LeasesOK, NEW c \in calls, NEW x \in Calls,
           x.client = c.client, x.section = c.section, x.live = c.live,
           calls' \subseteq (calls \ {c}) \cup {x}, work' = work
    PROVE  calls' \subseteq Calls /\ (\A o \in calls' : CallOK(o)') /\ OneCall'
  <1>1. calls' \subseteq Calls
    BY DEF Types, LeaseTypes
  <1>2. ASSUME NEW o \in calls' PROVE CallOK(o)'
    BY DEF LeasesOK, CallOK
  <1>3. OneCall'
    BY DEF LeasesOK, OneCall
  <1> QED BY <1>1, <1>2, <1>3

LEMMA CallMoved ==
    ASSUME NEW c \in Calls,
           NEW at \in {"prepare", "upload", "request", "answered", "refused"}, NEW n \in Nat
    PROVE  /\ [c EXCEPT !.at = at] \in Calls
           /\ [c EXCEPT !.at = at].client = c.client
           /\ [c EXCEPT !.at = at].section = c.section
           /\ [c EXCEPT !.at = at].live = c.live
           /\ [c EXCEPT !.at = at, !.root = n] \in Calls
           /\ [c EXCEPT !.at = at, !.root = n].client = c.client
           /\ [c EXCEPT !.at = at, !.root = n].section = c.section
           /\ [c EXCEPT !.at = at, !.root = n].live = c.live
  BY DEF Calls

LEMMA Proceeding ==
    ASSUME Types, LeasesOK, NEW c \in calls,
           NEW at \in {"prepare", "upload", "request", "answered", "refused"},
           Proceeds(c, at), work' = work
    PROVE  calls' \subseteq Calls /\ (\A o \in calls' : CallOK(o)') /\ OneCall'
  <1>1. c \in Calls
    BY DEF Types, LeaseTypes
  <1> DEFINE x == [c EXCEPT !.at = at]
  <1>2. x \in Calls /\ x.client = c.client /\ x.section = c.section /\ x.live = c.live
    BY <1>1, CallMoved
  <1>3. calls' \subseteq (calls \ {c}) \cup {x}
    BY DEF Proceeds
  <1> HIDE DEF x
  <1> QED BY <1>2, <1>3, CallReplaced

(* One binding changes, and its lease does not.                            *)
BindingIs(d, s, b) ==
    /\ bound' \in [Clients -> [Sections -> Bindings \cup {None}]]
    /\ \A e \in Clients, x \in Sections :
           /\ bound'[e][x] = None <=> bound[e][x] = None
           /\ bound'[e][x] # None => /\ bound'[e][x].opens = bound[e][x].opens
                                     /\ bound'[e][x].epoch = bound[e][x].epoch
           /\ e # d \/ x # s => bound'[e][x] = bound[e][x]
    /\ bound'[d][s] = b /\ b # None

LEMMA BindingReplaced ==
    ASSUME Types, NEW d \in Clients, NEW s \in Sections, bound[d][s] # None,
           NEW b, Same(bound[d][s], b), bound' = [bound EXCEPT ![d][s] = b]
    PROVE  BindingIs(d, s, b)
  <1>1. bound \in [Clients -> [Sections -> Bindings \cup {None}]]
    BY DEF Types, LeaseTypes
  <1>2. /\ b \in Bindings /\ b.opens = bound[d][s].opens /\ b.epoch = bound[d][s].epoch
        /\ b # None
    BY NoneIsNoBinding DEF Same
  <1>3. bound' = [bound EXCEPT ![d] = [bound[d] EXCEPT ![s] = b]]
    OBVIOUS
  <1>4. [bound[d] EXCEPT ![s] = b] \in [Sections -> Bindings \cup {None}]
    BY <1>1, <1>2
  <1>5. bound' \in [Clients -> [Sections -> Bindings \cup {None}]]
    BY <1>1, <1>3, <1>4
  <1>6. bound'[d][s] = b
    BY <1>1, <1>3
  <1>7. \A e \in Clients, x \in Sections : e # d \/ x # s => bound'[e][x] = bound[e][x]
    BY <1>1, <1>3
  <1> QED BY <1>2, <1>5, <1>6, <1>7 DEF BindingIs

LEMMA LeasesStay ==
    ASSUME LeasesOK, NEW d \in Clients, NEW s \in Sections, NEW b, BindingIs(d, s, b),
           UNCHANGED <<target, state, work, next, shown, view>>
    PROVE  /\ \A e \in Clients, x \in Sections : LeaseOK(e, x)'
           /\ \A r : /\ r.client \in Clients /\ r.section \in Sections
                     /\ \E o \in releases : /\ ReleaseOK(o) /\ o.opens = r.opens
                                            /\ o.client = r.client /\ o.section = r.section
                     => ReleaseOK(r)'
  <1>1. ASSUME NEW e \in Clients, NEW x \in Sections PROVE LeaseOK(e, x)'
    <2>1. LeaseOK(e, x)
      BY DEF LeasesOK
    <2> QED BY <2>1 DEF LeaseOK, IsShown, BindingIs
  <1>2. ASSUME NEW r, r.client \in Clients, r.section \in Sections,
               NEW o \in releases, ReleaseOK(o), o.opens = r.opens,
               o.client = r.client, o.section = r.section
        PROVE  ReleaseOK(r)'
    BY <1>2 DEF ReleaseOK, IsShown, BindingIs
  <1> QED BY <1>1, <1>2

(* What a step leaves that changes one binding and not its lease.          *)
LEMMA OnlyBinding ==
    ASSUME Inv, NEW d \in Clients, NEW s \in Sections, NEW b, BindingIs(d, s, b),
           UNCHANGED <<server, list, target, state, work, next, calls, releases>>
    PROVE  ServerTypes' /\ ServerOK' /\ ListTypes' /\ LeaseTypes' /\ LeasesOK'
  <1>1. UNCHANGED <<behind, view, shown, index, indexing, selected>>
    BY DEF list
  <1>2. ServerTypes' /\ ServerOK'
    <2>1. UNCHANGED <<note, sect, manifests, inits>>
      BY DEF server
    <2> QED BY <2>1 DEF Inv, Types, ServerTypes, ServerOK, Live
  <1>3. ListTypes'
    BY <1>1 DEF Inv, Types, ListTypes
  <1>4. LeaseTypes'
    BY DEF BindingIs, Inv, Types, LeaseTypes
  <1>5. \A r \in releases : r.client \in Clients /\ r.section \in Sections /\ ReleaseOK(r)
    BY DEF Inv, Types, LeaseTypes, Releases, LeasesOK
  <1>6. \A e \in Clients, x \in Sections : LeaseOK(e, x)'
    BY <1>1, LeasesStay DEF Inv
  <1>7. \A r \in releases' : ReleaseOK(r)'
    BY <1>1, <1>5, LeasesStay DEF Inv
  <1>8. LeasesOK'
    BY <1>6, <1>7 DEF Inv, LeasesOK, CallOK, OneCall
  <1> QED BY <1>2, <1>3, <1>4, <1>8

(* A document changes: what leaves it is kept, and what is left in it is   *)
(* waited for, refused or still to be published.                           *)
LEMMA EditsAfter ==
    ASSUME EditsOK, NEW d \in Clients, NEW s \in Sections, NEW b,
           bound[d][s] # None, BindingIs(d, s, b),
           refused \subseteq refused', dropped \subseteq dropped',
           typed' \subseteq typed \cup b.doc,
           \A n \in bound[d][s].doc : n \in typed' => n \in b.doc,
           b.inherited \/ b.sending \/ b.doc \subseteq b.pending \cup refused',
           d \notin Writers => b.doc = {}
    PROVE  EditsOK'
  <1>1. ASSUME NEW n \in typed', n \notin dropped'
        PROVE  \E e \in Clients, x \in Sections : bound'[e][x] # None /\ n \in bound'[e][x].doc
    <2>1. CASE n \in b.doc
      BY <2>1 DEF BindingIs
    <2>2. CASE n \notin b.doc
      <3>1. n \in typed /\ n \notin dropped
        BY <1>1, <2>2
      <3>2. PICK e \in Clients, x \in Sections : bound[e][x] # None /\ n \in bound[e][x].doc
        BY <3>1 DEF EditsOK, EditsKept
      <3>3. e # d \/ x # s
        BY <2>2, <3>2
      <3>4. bound'[e][x] = bound[e][x]
        BY <3>3 DEF BindingIs
      <3> QED BY <3>2, <3>4
    <2> QED BY <2>1, <2>2
  <1>2. ASSUME NEW e \in Clients, NEW x \in Sections
        PROVE  \/ bound'[e][x] = None \/ bound'[e][x].inherited \/ bound'[e][x].sending
               \/ bound'[e][x].doc \subseteq bound'[e][x].pending \cup refused'
    <2>1. CASE e = d /\ x = s
      <3>1. bound'[e][x] = b
        BY <2>1 DEF BindingIs
      <3> QED BY <3>1
    <2>2. CASE e # d \/ x # s
      <3>1. bound'[e][x] = bound[e][x]
        BY <2>2 DEF BindingIs
      <3>2. \/ bound[e][x] = None \/ bound[e][x].inherited \/ bound[e][x].sending
            \/ bound[e][x].doc \subseteq bound[e][x].pending \cup refused
        BY DEF EditsOK, EditsKept
      <3> QED BY <3>1, <3>2
    <2> QED BY <2>1, <2>2
  <1>3. ASSUME NEW e \in Clients \ Writers, NEW x \in Sections, bound'[e][x] # None
        PROVE  bound'[e][x].doc = {}
    <2>1. CASE e = d /\ x = s
      BY <2>1 DEF BindingIs
    <2>2. CASE e # d \/ x # s
      <3>1. bound'[e][x] = bound[e][x]
        BY <2>2 DEF BindingIs
      <3> QED BY <1>3, <3>1 DEF EditsOK
    <2> QED BY <2>1, <2>2
  <1>4. EditsKept'
    BY <1>1, <1>2 DEF EditsKept
  <1> QED BY <1>3, <1>4 DEF EditsOK

(* What is known of a document.                                            *)
LEMMA DocKnown ==
    ASSUME Inv, NEW d \in Clients, NEW s \in Sections, bound[d][s] # None
    PROVE  /\ bound[d][s] \in Bindings
           /\ bound[d][s].doc \in SUBSET Nat /\ bound[d][s].pending \in SUBSET Nat
           /\ \/ bound[d][s].inherited \/ bound[d][s].sending
              \/ bound[d][s].doc \subseteq bound[d][s].pending \cup refused
           /\ d \notin Writers => bound[d][s].doc = {}
           /\ edits \in Nat /\ typed \subseteq 1..edits
  <1>1. bound[d][s] \in Bindings
    BY DEF Inv, Types, LeaseTypes
  <1>2. edits \in Nat /\ typed \subseteq 1..edits
    BY DEF Inv, Types, TypingTypes
  <1>3. /\ \/ bound[d][s].inherited \/ bound[d][s].sending
           \/ bound[d][s].doc \subseteq bound[d][s].pending \cup refused
        /\ d \notin Writers => bound[d][s].doc = {}
    BY DEF Inv, EditsOK, EditsKept
  <1>4. bound[d][s].doc \in SUBSET Nat /\ bound[d][s].pending \in SUBSET Nat
    BY <1>1 DEF Bindings
  <1> QED BY <1>1, <1>2, <1>3, <1>4

-----------------------------------------------------------------------------
(* Initializing a section. *)

LEMMA PrepareStep ==
    ASSUME Inv, NEW c \in calls, c.client \in Clients, Prepare(c)
    PROVE  Inv'
  <1> DEFINE d == c.client
             s == c.section
             b == Pending(bound[d][s], Upload)
  <1>1. s \in Sections
    BY DEF Inv, Types, LeaseTypes, Calls
  <1>2. bound[d][s] # None /\ bound' = [bound EXCEPT ![d][s] = b]
        /\ UNCHANGED <<server, list, target, state, work, next, releases, typing>>
    BY DEF Prepare
  <1>3. /\ Same(bound[d][s], b) /\ b.doc = bound[d][s].doc
        /\ b.pending = bound[d][s].pending \cup {Upload}
        /\ b.inherited = bound[d][s].inherited /\ b.sending = bound[d][s].sending
    <2>1. bound[d][s] \in Bindings /\ Upload \in Nat
      BY <1>1, <1>2, DocKnown DEF Upload
    <2> QED BY <2>1, BindingChanged
  <1> HIDE DEF b
  <1>4. BindingIs(d, s, b)
    BY <1>1, <1>2, <1>3, BindingReplaced DEF Inv
  <1>5. calls' \subseteq Calls /\ (\A o \in calls' : CallOK(o)') /\ OneCall'
    BY <1>2, Proceeding DEF Prepare, Inv
  <1>6. UNCHANGED <<note, sect, manifests, inits, behind, view, shown, index, indexing,
                    selected, target, state, work, next, releases, edits, typed, refused,
                    dropped>>
    BY <1>2 DEF server, list, typing
  <1>7. Types'
    BY <1>4, <1>5, <1>6 DEF BindingIs, Inv, Types, ServerTypes, ListTypes, LeaseTypes, TypingTypes
  <1>8. ServerOK'
    BY <1>6 DEF Inv, ServerOK, Live
  <1>9. LeasesOK'
    <2>1. \A r \in releases : r.client \in Clients /\ r.section \in Sections /\ ReleaseOK(r)
      BY DEF Inv, Types, LeaseTypes, Releases, LeasesOK
    <2>2. \A e \in Clients, x \in Sections : LeaseOK(e, x)'
      BY <1>1, <1>4, <1>6, LeasesStay DEF Inv
    <2>3. \A r \in releases' : ReleaseOK(r)'
      BY <1>1, <1>4, <1>6, <2>1, LeasesStay DEF Inv
    <2> QED BY <1>5, <2>2, <2>3 DEF LeasesOK
  <1>10. EditsOK'
    <2>1. /\ b.inherited \/ b.sending \/ b.doc \subseteq b.pending \cup refused'
          /\ d \notin Writers => b.doc = {}
      BY <1>1, <1>2, <1>3, <1>6, DocKnown
    <2> QED BY <1>1, <1>2, <1>3, <1>4, <1>6, <2>1, EditsAfter DEF Inv
  <1> QED BY <1>7, <1>8, <1>9, <1>10 DEF Inv

(* A manifest is committed: more of them.                                  *)
LEMMA MoreManifests ==
    ASSUME ServerTypes, ServerOK, NEW m \in Manifests, manifests' = manifests \cup {m},
           UNCHANGED <<note, sect, inits>>
    PROVE  ServerTypes' /\ ServerOK'
  <1>1. ServerTypes'
    BY DEF ServerTypes
  <1>2. Live' = Live
    BY DEF Live
  <1>3. ServerOK'
    BY <1>2 DEF ServerOK
  <1> QED BY <1>1, <1>3

(* What a step leaves that changes only the calls of all that a device     *)
(* keeps.                                                                  *)
LEMMA OnlyCalls ==
    ASSUME Inv, calls' \subseteq Calls, \A o \in calls' : CallOK(o)', OneCall',
           UNCHANGED <<view, shown, index, indexing, selected, bound, target, state, work, next,
                       releases, edits, typed, refused, dropped>>,
           behind' \subseteq Clients
    PROVE  ListTypes' /\ LeaseTypes' /\ TypingTypes' /\ LeasesOK' /\ EditsOK'
  <1>1. ListTypes' /\ LeaseTypes' /\ TypingTypes'
    BY DEF Inv, Types, ListTypes, LeaseTypes, TypingTypes
  <1>2. LeasesOK'
    BY DEF Inv, LeasesOK, LeaseOK, ReleaseOK, IsShown
  <1>3. EditsOK'
    BY DEF Inv, EditsOK, EditsKept
  <1> QED BY <1>1, <1>2, <1>3

LEMMA CommitStep == ASSUME Inv, NEW c \in calls, Commit(c) PROVE Inv'
  <1>1. c \in Calls
    BY DEF Inv, Types, LeaseTypes
  <1>2. Manifest(c) \in Manifests
    BY <1>1 DEF Manifest, Manifests, Calls
  <1>3. ServerTypes' /\ ServerOK'
    BY <1>2, MoreManifests DEF Commit, Inv, Types
  <1>4. calls' \subseteq Calls /\ (\A o \in calls' : CallOK(o)') /\ OneCall'
    BY Proceeding DEF Commit, Inv
  <1>5. ListTypes' /\ LeaseTypes' /\ TypingTypes' /\ LeasesOK' /\ EditsOK'
    BY <1>4, OnlyCalls DEF Commit, list, typing, Inv, Types, ListTypes
  <1> QED BY <1>3, <1>5 DEF Inv, Types

LEMMA ElsewhereStep ==
    ASSUME Inv, NEW d \in Others, NEW s \in Sections, Elsewhere(d, s)
    PROVE  Inv'
  <1> DEFINE c == [client |-> d, section |-> s, at |-> "request", epoch |-> note.epoch,
                   root |-> note.root, live |-> FALSE]
  <1>1. /\ manifests' = manifests \cup {Manifest(c)} /\ calls' = calls \cup {c}
        /\ UNCHANGED <<note, sect, inits, list, bound, target, state, work, next, releases,
                       typing>>
    BY DEF Elsewhere
  <1>2. c \in Calls /\ ~c.live
    BY DEF Calls, Inv, Types, ServerTypes, Views
  <1> HIDE DEF c
  <1>3. Manifest(c) \in Manifests
    BY <1>2 DEF Manifest, Manifests, Calls
  <1>4. ServerTypes' /\ ServerOK'
    BY <1>1, <1>3, MoreManifests DEF Inv, Types
  <1>5. calls' \subseteq Calls /\ (\A o \in calls' : CallOK(o)') /\ OneCall'
    <2>1. calls' \subseteq Calls
      BY <1>1, <1>2 DEF Inv, Types, LeaseTypes
    <2>2. \A o \in calls' : CallOK(o)'
      BY <1>1, <1>2 DEF Inv, LeasesOK, CallOK
    <2>3. OneCall'
      BY <1>1, <1>2 DEF Inv, LeasesOK, OneCall
    <2> QED BY <2>1, <2>2, <2>3
  <1>6. ListTypes' /\ LeaseTypes' /\ TypingTypes' /\ LeasesOK' /\ EditsOK'
    BY <1>1, <1>5, OnlyCalls DEF list, typing, Inv, Types, ListTypes
  <1> QED BY <1>4, <1>6 DEF Inv, Types

(* An initialization is installed in a section that has none.              *)
LEMMA Installing ==
    ASSUME ServerTypes, ServerOK, NEW c \in Calls, Acceptable(c), Installable(c),
           inits' = inits \cup {[section |-> c.section, epoch |-> c.epoch,
                                 manifest |-> Manifest(c)]},
           sect' = [sect EXCEPT ![c.section].init = Manifest(c)],
           UNCHANGED <<note, manifests>>
    PROVE  ServerTypes' /\ ServerOK'
  <1> DEFINE s == c.section
             m == Manifest(c)
             row == [sect[s] EXCEPT !.init = m]
             i == [section |-> s, epoch |-> c.epoch, manifest |-> m]
  <1>1. s \in Sections /\ m \in Manifests /\ m.section = s /\ m.epoch = c.epoch
    BY DEF Calls, Manifest, Manifests
  <1>2. sect \in [Sections -> Rows]
    BY DEF ServerTypes
  <1>3. row \in Rows /\ row.init = m /\ row.state = sect[s].state
    BY <1>1, <1>2, RowChanged
  <1>4. /\ sect' = [sect EXCEPT ![s] = row]
        /\ inits' = inits \cup {i} /\ i.section = s /\ i.epoch = c.epoch /\ i.manifest = m
    OBVIOUS
  <1>5. m \in manifests /\ s \in Live /\ sect[s].init = None /\ m # None
    <2>1. m \in manifests /\ s \in Live /\ sect[s].init = None
      BY DEF Acceptable, Installable
    <2> HIDE DEF m
    <2> QED BY <1>1, <2>1, NoneIsNoBinding
  <1> HIDE DEF row, i, m, s
  <1>6. sect'[s] = row /\ \A x \in Sections \ {s} : sect'[x] = sect[x]
    BY <1>1, <1>2, <1>4
  <1>7. ServerTypes'
    BY <1>2, <1>3, <1>4 DEF ServerTypes
  <1>8. Live' # {}
    BY <1>3, <1>5, <1>6 DEF Live
  <1>9. \A o \in inits : o.section # s
    BY <1>5, NoneIsNoBinding DEF ServerOK, ServerTypes
  <1>10. ASSUME NEW o \in inits'
         PROVE  /\ o.section \in Sections /\ o.manifest \in manifests
                /\ o.manifest.section = o.section /\ o.manifest.epoch = o.epoch
                /\ sect'[o.section].init = o.manifest
    <2>1. CASE o \in inits
      BY <1>6, <1>9, <2>1 DEF ServerOK
    <2>2. CASE o = i
      BY <1>1, <1>3, <1>4, <1>5, <1>6, <2>2
    <2> QED BY <1>4, <2>1, <2>2
  <1>11. ASSUME NEW x \in Sections
         PROVE  /\ sect'[x].init \in manifests \cup {None}
                /\ sect'[x].state = "none" => sect'[x].init = None
                /\ sect'[x].init # None =>
                       \E o \in inits' : o.section = x /\ o.manifest = sect'[x].init
    <2>1. CASE x = s
      <3>1. sect'[x].init = m /\ sect'[x].state = sect[s].state
        BY <1>3, <1>6, <2>1
      <3>2. sect[s].state = "live"
        BY <1>5 DEF Live
      <3>3. i \in inits' /\ i.section = x /\ i.manifest = m
        BY <1>4, <2>1
      <3>4. \E o \in inits' : o.section = x /\ o.manifest = sect'[x].init
        BY <3>1, <3>3
      <3>5. sect'[x].init \in manifests \cup {None} /\ sect'[x].state # "none"
        BY <1>5, <3>1, <3>2
      <3> QED BY <3>4, <3>5
    <2>2. CASE x # s
      <3>1. sect'[x] = sect[x] /\ inits \subseteq inits'
        BY <1>4, <1>6, <2>2
      <3>2. /\ sect[x].init \in manifests \cup {None}
            /\ sect[x].state = "none" => sect[x].init = None
            /\ sect[x].init # None =>
                   \E o \in inits : o.section = x /\ o.manifest = sect[x].init
        BY DEF ServerOK
      <3> QED BY <3>1, <3>2
    <2> QED BY <2>1, <2>2
  <1> QED BY <1>7, <1>8, <1>10, <1>11 DEF ServerOK

LEMMA InitializeStep == ASSUME Inv, NEW c \in calls, Initialize(c) PROVE Inv'
  <1>1. c \in Calls
    BY DEF Inv, Types, LeaseTypes
  <1>2. UNCHANGED <<note, manifests, bound, target, state, work, next, releases, edits, typed,
                    refused, dropped>>
    BY DEF Initialize, typing
  <1>3. UNCHANGED <<view, shown, index, indexing, selected>> /\ behind' \subseteq Clients
    BY DEF Initialize, Notify, list, Inv, Types, ListTypes
  <1>4. ServerTypes' /\ ServerOK'
    <2>1. CASE UNCHANGED <<sect, inits>>
      BY <1>2, <2>1 DEF Inv, Types, ServerTypes, ServerOK, Live
    <2>2. CASE /\ Acceptable(c) /\ Installable(c)
               /\ inits' = inits \cup {[section |-> c.section, epoch |-> c.epoch,
                                        manifest |-> Manifest(c)]}
               /\ sect' = [sect EXCEPT ![c.section].init = Manifest(c)]
      BY <1>1, <1>2, <2>2, Installing DEF Inv, Types
    <2> QED BY <2>1, <2>2 DEF Initialize
  <1>5. calls' \subseteq Calls /\ (\A o \in calls' : CallOK(o)') /\ OneCall'
    <2>1. PICK at \in {"answered", "refused"} :
              calls' = (calls \ {c}) \cup
                  {[x EXCEPT !.at = at, !.root = note.root] : x \in {c} \cap Heard}
      BY DEF Initialize
    <2> DEFINE x == [c EXCEPT !.at = at, !.root = note.root]
    <2>2. calls' \subseteq (calls \ {c}) \cup {x}
      BY <2>1
    <2>3. note.root \in Nat
      BY DEF Inv, Types, ServerTypes, Views
    <2>4. at \in {"prepare", "upload", "request", "answered", "refused"}
      OBVIOUS
    <2>5. x \in Calls /\ x.client = c.client /\ x.section = c.section /\ x.live = c.live
      BY <1>1, <2>3, <2>4 DEF Calls
    <2> HIDE DEF x
    <2> QED BY <1>2, <2>2, <2>5, CallReplaced DEF Inv
  <1>6. ListTypes' /\ LeaseTypes' /\ TypingTypes' /\ LeasesOK' /\ EditsOK'
    BY <1>2, <1>3, <1>5, OnlyCalls
  <1> QED BY <1>4, <1>6 DEF Inv, Types

(* A call ends.                                                            *)
LEMMA CallEnded ==
    ASSUME LeasesOK, Types, NEW c, calls' = calls \ {c}, work' = work
    PROVE  calls' \subseteq Calls /\ (\A o \in calls' : CallOK(o)') /\ OneCall'
  BY DEF Types, LeaseTypes, LeasesOK, CallOK, OneCall

LEMMA ServerUntouched ==
    ASSUME ServerTypes, ServerOK, UNCHANGED server
    PROVE  ServerTypes' /\ ServerOK'
  BY DEF server, ServerTypes, ServerOK, Live

LEMMA AnsweredStep ==
    ASSUME Inv, NEW c \in calls, c.client \in Clients, Answered(c)
    PROVE  Inv'
  <1> DEFINE d == c.client
             listed == [index[d] EXCEPT !.initialized = @ \cup ({c.section} \cap index[d].listed)]
             root == IF view[d].root # c.root /\ view[d].epoch = c.epoch THEN c.root
                     ELSE view[d].root
  <1>1. c \in Calls /\ root \in Nat
    BY DEF Inv, Types, LeaseTypes, ListTypes, Calls, Views
  <1>2. ServerTypes' /\ ServerOK'
    BY ServerUntouched DEF Answered, Inv, Types
  <1>3. /\ view' \in [Clients -> Views]
        /\ \A e \in Clients : view'[e].epoch = view[e].epoch
    <2> DEFINE v == [view[d] EXCEPT !.root = root]
    <2>1. view \in [Clients -> Views]
      BY DEF Inv, Types, ListTypes
    <2>2. v \in Views /\ v.epoch = view[d].epoch
      BY <1>1, <2>1 DEF Views
    <2>3. view' = [view EXCEPT ![d] = v]
      BY DEF Answered
    <2> HIDE DEF v
    <2> QED BY <2>1, <2>2, <2>3
  <1>4. /\ listed \in Indexes /\ listed.initialized \subseteq listed.listed
        /\ index[d] \in Indexes
    BY DEF Inv, Types, ListTypes, Indexes
  <1>5. UNCHANGED <<behind, shown, selected>> /\ UNCHANGED typing
    BY DEF Answered
  <1>8. \/ shown[d] /\ Reindex(d, calls \ {c})
        \/ /\ index' = [index EXCEPT ![d] = listed] /\ indexing' = indexing
           /\ \/ shown[d] /\ Run(d, calls \ {c})
              \/ /\ calls' = calls \ {c}
                 /\ UNCHANGED <<bound, target, state, work, next, releases>>
    BY DEF Answered
  <1> HIDE DEF root, listed
  <1>6. CASE shown[d] /\ Reindex(d, calls \ {c})
    <2>1. LeaseTypes' /\ LeasesOK' /\ EditsOK'
      BY <1>3, <1>5, <1>6, Stopping DEF Reindex, Inv
    <2>2. /\ NoIndex \in Indexes /\ NoIndex.initialized = {}
          /\ Job("root") \in Jobs /\ Job("root").initialized = {}
      BY DEF NoIndex, Indexes, Job, Jobs
    <2>3. ListTypes'
      BY <1>3, <1>5, <1>6, <2>2 DEF Reindex, Inv, Types, ListTypes
    <2> QED BY <1>2, <1>5, <2>1, <2>3 DEF Inv, Types, TypingTypes, typing
  <1>7. CASE /\ index' = [index EXCEPT ![d] = listed] /\ indexing' = indexing
             /\ \/ shown[d] /\ Run(d, calls \ {c})
                \/ /\ calls' = calls \ {c}
                   /\ UNCHANGED <<bound, target, state, work, next, releases>>
    <2>1. ListTypes'
      BY <1>3, <1>4, <1>5, <1>7 DEF Inv, Types, ListTypes
    <2>2. CASE shown[d] /\ Run(d, calls \ {c})
      <3>1. LeaseTypes' /\ LeasesOK' /\ EditsOK'
        BY <1>3, <1>5, <2>1, <2>2, Running DEF Inv, ListTypes
      <3> QED BY <1>2, <1>5, <2>1, <3>1 DEF Inv, Types, TypingTypes, typing
    <2>3. CASE calls' = calls \ {c} /\ UNCHANGED <<bound, target, state, work, next, releases>>
      <3>1. calls' \subseteq Calls /\ (\A o \in calls' : CallOK(o)') /\ OneCall'
        BY <2>3, CallEnded DEF Inv
      <3>2. LeaseTypes'
        BY <2>3, <3>1 DEF Inv, Types, LeaseTypes
      <3>3. LeasesOK'
        BY <1>3, <1>5, <2>3, <3>1 DEF Inv, LeasesOK, LeaseOK, ReleaseOK, IsShown
      <3>4. EditsOK'
        BY <1>3, <1>5, <2>3 DEF Inv, EditsOK, EditsKept, typing
      <3> QED BY <1>2, <1>5, <2>1, <3>2, <3>3, <3>4 DEF Inv, Types, TypingTypes, typing
    <2> QED BY <1>7, <2>2, <2>3
  <1> QED BY <1>6, <1>7, <1>8

LEMMA FailedStep ==
    ASSUME Inv, NEW c \in calls, c.client \in Clients, Failed(c)
    PROVE  Inv'
  <1> DEFINE d == c.client
             s == c.section
  <1>1. s \in Sections
    BY DEF Inv, Types, LeaseTypes, Calls
  <1>2. ServerTypes' /\ ServerOK'
    BY ServerUntouched DEF Failed, Inv, Types
  <1>3. /\ UNCHANGED <<behind, view, shown, index, indexing, selected, edits, typed, refused,
                       dropped>>
        /\ calls' = calls \ {c} /\ UNCHANGED typing
    BY DEF Failed, typing
  <1>4. CASE c.live /\ Done(d, s, "error")
    <2>1. work[d][s] = "init"
      BY <1>4 DEF Inv, LeasesOK, CallOK
    <2>2. \A o \in calls' : o.live /\ o.client = d => o.section # s
      BY <1>3, <1>4 DEF Inv, LeasesOK, OneCall
    <2>3. LeaseTypes' /\ LeasesOK' /\ EditsOK'
      BY <1>1, <1>3, <1>4, <2>1, <2>2, Finishing DEF Inv
    <2> QED BY <1>2, <1>3, <2>3 DEF Inv, Types, ListTypes, TypingTypes
  <1>5. CASE UNCHANGED <<bound, target, state, work, next, releases>>
    <2>1. calls' \subseteq Calls /\ (\A o \in calls' : CallOK(o)') /\ OneCall'
      BY <1>3, <1>5, CallEnded DEF Inv
    <2>2. ListTypes' /\ LeaseTypes' /\ TypingTypes' /\ LeasesOK' /\ EditsOK'
      BY <1>3, <1>5, <2>1, OnlyCalls DEF Inv, Types, ListTypes
    <2> QED BY <1>2, <2>2 DEF Inv, Types
  <1> QED BY <1>4, <1>5 DEF Failed

-----------------------------------------------------------------------------
(* Loading the index. *)

LEMMA JobMade ==
    /\ NoIndex \in Indexes /\ NoIndex.initialized \subseteq NoIndex.listed
    /\ \A at \in {"none", "root"} : /\ Job(at) \in Jobs /\ Job(at).at = at
                                    /\ Job(at).initialized \subseteq Job(at).listed
  BY DEF NoIndex, Indexes, Job, Jobs

(* A restarted index.                                                      *)
LEMMA IndexDropped ==
    ASSUME ListTypes, NEW d \in Clients,
           index' = [index EXCEPT ![d] = NoIndex],
           indexing' = [indexing EXCEPT ![d] = Job("root")],
           view' \in [Clients -> Views], behind' \subseteq Clients, UNCHANGED selected,
           shown' \in [Clients -> BOOLEAN], shown'[d],
           \A e \in Clients : shown[e] => shown'[e]
    PROVE  ListTypes'
  BY JobMade DEF ListTypes

LEMMA ReloadStep == ASSUME Inv, NEW d \in Clients, Reload(d) PROVE Inv'
  <1>1. UNCHANGED server /\ UNCHANGED typing /\ UNCHANGED <<shown, selected>>
    BY DEF Reload
  <1>2. ServerTypes' /\ ServerOK'
    BY <1>1, ServerUntouched DEF Inv, Types
  <1>3. TypingTypes'
    BY <1>1 DEF typing, TypingTypes, Inv, Types
  <1> DEFINE v == [root |-> note.root, epoch |-> note.epoch]
  <1>4. view' = [view EXCEPT ![d] = v] /\ v \in Views /\ v.epoch = note.epoch
    BY DEF Reload, Views, Inv, Types, ServerTypes
  <1> HIDE DEF v
  <1>5. /\ view' \in [Clients -> Views] /\ view'[d].epoch = note.epoch
        /\ \A e \in Clients \ {d} : view'[e] = view[e]
    BY <1>4 DEF Inv, Types, ListTypes
  <1>6. behind' \subseteq Clients
    BY DEF Reload, Inv, Types, ListTypes
  <1>8. CASE /\ UNCHANGED <<index, indexing, leases>>
             /\ ~shown[d] \/ view'[d] = view[d]
    <2>1. UNCHANGED <<bound, target, state, work, next, calls, releases>>
      BY <1>8 DEF leases
    <2>2. ListTypes'
      BY <1>1, <1>5, <1>6, <1>8 DEF Inv, Types, ListTypes
    <2>3. LeaseTypes'
      BY <2>1 DEF Inv, Types, LeaseTypes
    <2>4. ASSUME NEW e \in Clients, NEW s \in Sections PROVE LeaseOK(e, s)'
      <3>1. LeaseOK(e, s)
        BY DEF Inv, LeasesOK
      <3>2. e # d \/ ~shown[d] \/ view'[d] = view[d]
        BY <1>8
      <3> QED BY <1>1, <1>5, <2>1, <3>1, <3>2 DEF LeaseOK, IsShown
    <2>5. LeasesOK'
      BY <2>1, <2>4 DEF Inv, LeasesOK, ReleaseOK, CallOK, OneCall, IsShown
    <2>6. EditsOK'
      BY <1>1, <2>1 DEF Inv, EditsOK, EditsKept, typing
    <2> QED BY <1>2, <1>3, <2>2, <2>3, <2>5, <2>6 DEF Inv, Types
  <1>9. CASE shown[d] /\ Restart(d)
    <2>1. LeaseTypes' /\ LeasesOK' /\ EditsOK'
        BY <1>1, <1>5, <1>9, Restarting DEF Inv
    <2>2. ListTypes'
      BY <1>1, <1>5, <1>6, <1>9, IndexDropped DEF Restart, Inv, Types, ListTypes
    <2> QED BY <1>2, <1>3, <2>1, <2>2 DEF Inv, Types
  <1>10. CASE shown[d] /\ view[d].epoch = note.epoch /\ Reindex(d, calls)
    <2>1. \A e \in Clients : view'[e].epoch = view[e].epoch
      BY <1>5, <1>10
    <2>2. LeaseTypes' /\ LeasesOK' /\ EditsOK'
      BY <1>1, <1>10, <2>1, Stopping DEF Reindex, Inv
    <2>3. ListTypes'
      BY <1>1, <1>5, <1>6, <1>10, IndexDropped DEF Reindex, Inv, Types, ListTypes
    <2> QED BY <1>2, <1>3, <2>2, <2>3 DEF Inv, Types
  <1>11. CASE ~shown[d] \/ view'[d] = view[d]
    <2>1. view'[d].epoch = note.epoch /\ view'[d].root = note.root
      BY <1>4 DEF v, Inv, Types, ListTypes
    <2>2. ~(shown[d] /\ (view[d].epoch # note.epoch \/ view[d].root # note.root))
      BY <1>11, <2>1
    <2> QED BY <1>8, <1>11, <2>2 DEF Reload
  <1>12. CASE shown[d] /\ view[d].epoch # note.epoch
    <2>1. view'[d] # view[d]
      BY <1>5, <1>12
    <2> QED BY <1>9, <1>12, <2>1 DEF Reload
  <1>13. CASE shown[d] /\ view'[d] # view[d] /\ view[d].epoch = note.epoch
    <2>1. view[d].root # note.root
      BY <1>4, <1>13 DEF v, Inv, Types, ListTypes, Views
    <2> QED BY <1>10, <1>13, <2>1 DEF Reload
  <1> QED BY <1>11, <1>12, <1>13

(* What a step leaves that changes only the list of a device.              *)
LEMMA OnlyList ==
    ASSUME Inv, UNCHANGED <<server, leases, typing>>, ListTypes', UNCHANGED <<view, shown>>
    PROVE  Inv'
  <1>1. UNCHANGED <<bound, target, state, work, next, calls, releases, edits, typed, refused,
                    dropped>>
    BY DEF leases, typing
  <1>2. ServerTypes' /\ ServerOK'
    BY ServerUntouched DEF Inv, Types
  <1>3. LeaseTypes' /\ TypingTypes'
    BY <1>1 DEF Inv, Types, LeaseTypes, TypingTypes
  <1>4. LeasesOK'
    BY <1>1 DEF Inv, LeasesOK, LeaseOK, ReleaseOK, CallOK, OneCall, IsShown
  <1>5. EditsOK'
    BY <1>1 DEF Inv, EditsOK, EditsKept
  <1> QED BY <1>2, <1>3, <1>4, <1>5 DEF Inv, Types

LEMMA ListStep == ASSUME Inv, NEW d \in Clients, List(d) PROVE Inv'
  <1> DEFINE job == [at |-> "listed", listed |-> Live,
                     initialized |-> {s \in Live : sect[s].init # None}]
  <1>1. job \in Jobs /\ job.initialized \subseteq job.listed
    BY DEF Jobs, Live
  <1>2. indexing' = [indexing EXCEPT ![d] = job] /\ shown[d]
    BY DEF List, Inv, Types, ListTypes
  <1> HIDE DEF job
  <1>3. ListTypes'
    BY <1>1, <1>2 DEF List, Inv, Types, ListTypes
  <1> QED BY <1>3, OnlyList DEF List

LEMMA ListedStep == ASSUME Inv, NEW d \in Clients, Listed(d) PROVE Inv'
  <1> DEFINE answer == indexing[d].listed
             new == [ready |-> TRUE, listed |-> answer, initialized |-> indexing[d].initialized]
             choice == IF selected[d] \in answer THEN selected[d]
                       ELSE IF answer = {} THEN None ELSE FirstOf(answer)
  <1>1. /\ indexing' = [indexing EXCEPT ![d] = Job("none")]
        /\ index' = [index EXCEPT ![d] = new]
        /\ selected' = [selected EXCEPT ![d] = choice]
        /\ view' = view /\ Run(d, calls)
        /\ UNCHANGED <<server, behind, shown, typing, counts>>
    BY DEF Listed, Inv, Types, ListTypes
  <1>2. answer \in SUBSET Sections
    BY DEF Inv, Types, ListTypes, Jobs
  <1>3. choice \in Sections \cup {None}
    BY <1>2, FirstListed
  <1>4. new \in Indexes /\ new.initialized \subseteq new.listed
    BY DEF Inv, Types, ListTypes, Jobs, Indexes
  <1>5. shown[d]
    BY DEF Listed, Inv, Types, ListTypes
  <1> HIDE DEF new, choice
  <1>6. ListTypes'
    BY <1>1, <1>3, <1>4, JobMade DEF Inv, Types, ListTypes
  <1>7. LeaseTypes' /\ LeasesOK' /\ EditsOK'
    BY <1>1, <1>5, <1>6, Running DEF Inv, ListTypes
  <1>8. ServerTypes' /\ ServerOK'
    BY <1>1, ServerUntouched DEF Inv, Types
  <1> QED BY <1>1, <1>6, <1>7, <1>8 DEF Inv, Types, TypingTypes, typing

LEMMA SelectStep ==
    ASSUME Inv, NEW d \in Clients, NEW s \in Sections, Select(d, s)
    PROVE  Inv'
  <1>1. /\ shown[d] /\ selected' = [selected EXCEPT ![d] = s]
        /\ UNCHANGED <<view, index>> /\ Run(d, calls)
        /\ UNCHANGED <<behind, shown, indexing>> /\ UNCHANGED server /\ UNCHANGED typing
    BY DEF Select
  <1>2. ListTypes'
    BY <1>1 DEF Inv, Types, ListTypes
  <1>3. LeaseTypes' /\ LeasesOK' /\ EditsOK'
    BY <1>1, <1>2, Running DEF Inv, ListTypes
  <1>4. ServerTypes' /\ ServerOK'
    BY <1>1, ServerUntouched DEF Inv, Types
  <1> QED BY <1>1, <1>2, <1>3, <1>4 DEF Inv, Types, TypingTypes, typing

(* Nothing is left open for the device to show.                            *)
LEMMA CloseStep == ASSUME Inv, NEW d \in Clients, Close(d) PROVE Inv'
  <1> DEFINE held == {s \in Sections : target[d][s] # None}
  <1>1. /\ shown' = [shown EXCEPT ![d] = FALSE]
        /\ releases' = releases \cup Begun(d, held)
        /\ state' = [state EXCEPT ![d] = Leaving(d, held)]
        /\ Stop(d, calls)
        /\ indexing' = [indexing EXCEPT ![d] = Job("none")]
        /\ UNCHANGED <<behind, view, index, selected, bound, target>>
        /\ UNCHANGED server /\ UNCHANGED typing
    BY DEF Close
  <1>2. \A s \in Sections : IsShown(d, s) => s \in held
    BY DEF Inv, LeasesOK, LeaseOK
  <1>3. held \in SUBSET Sections
    OBVIOUS
  <1> HIDE DEF held
  <1>4. /\ shown' \in [Clients -> BOOLEAN] /\ ~shown'[d]
        /\ \A e \in Clients \ {d} : shown'[e] = shown[e]
    BY <1>1 DEF Inv, Types, ListTypes
  <1>5. ListTypes'
    BY <1>1, <1>4, JobMade DEF Inv, Types, ListTypes
  <1>6. /\ work' = [work EXCEPT ![d] = [s \in Sections |-> "idle"]]
        /\ next' = [next EXCEPT ![d] = {}]
        /\ calls' = Aborted(d, calls)
    BY <1>1 DEF Stop
  <1>7. \A e \in Clients \ {d} :
            state'[e] = state[e] /\ work'[e] = work[e] /\ next'[e] = next[e]
    BY <1>1, <1>6 DEF Inv, Types, LeaseTypes
  <1>8. \A s \in Sections :
            /\ state'[d][s] = IF s \in held /\ state[d][s] # "none" THEN "releasing"
                              ELSE state[d][s]
            /\ work'[d][s] = "idle"
    BY <1>1, <1>6 DEF Inv, Types, LeaseTypes, Leaving
  <1>9. calls' \subseteq Calls /\ (\A c \in calls' : CallOK(c)') /\ OneCall'
    BY <1>6, <1>7, Aborting DEF Inv
  <1>10. LeasesOpened(d, {}, held)
    <2>1. releases' \subseteq Releases /\ IsFiniteSet(releases')
      BY <1>1, <1>3, Beginning, FS_Union DEF Inv, Types, LeaseTypes
    <2>2. ASSUME NEW r \in releases'
          PROVE  /\ r \in releases \/ (r.client = d /\ r.section \in held)
                 /\ bound'[r.client][r.section] # None
      BY <1>1, <1>3, Beginning DEF Inv, LeasesOK, ReleaseOK
    <2>3. \A s \in Sections : LeaseOK(d, s)
      BY DEF Inv, LeasesOK
    <2> QED BY <1>1, <2>1, <2>2, <2>3 DEF LeasesOpened, Inv, Types, LeaseTypes, LeaseOK
  <1>11. LeasesOK'
    <2>1. \A s \in Sections : ~IsShown(d, s)'
      BY <1>2, <1>8 DEF IsShown
    <2>2. \A e \in Clients : view'[e].epoch = view[e].epoch
      BY <1>1
    <2> QED BY <1>3, <1>4, <1>7, <1>8, <1>9, <1>10, <2>1, <2>2, LeasesKept DEF Inv
  <1>12. LeaseTypes'
    <2>1. Leaving(d, held)
            \in [Sections -> {"none", "loading", "ready", "releasing", "error"}]
      BY DEF Leaving, Inv, Types, LeaseTypes
    <2>2. state' \in [Clients -> [Sections -> {"none", "loading", "ready", "releasing", "error"}]]
      BY <1>1, <2>1 DEF Inv, Types, LeaseTypes
    <2>3. /\ work' \in [Clients -> [Sections -> {"idle", "sync", "init"}]]
          /\ next' \in [Clients -> SUBSET Sections]
      BY <1>6 DEF Inv, Types, LeaseTypes
    <2> QED BY <1>9, <1>10, <2>2, <2>3 DEF LeaseTypes, LeasesOpened
  <1>13. EditsOK'
    BY <1>1 DEF Inv, EditsOK, EditsKept, typing
  <1>14. ServerTypes' /\ ServerOK'
    BY <1>1, ServerUntouched DEF Inv, Types
  <1> QED BY <1>1, <1>5, <1>11, <1>12, <1>13, <1>14 DEF Inv, Types, TypingTypes, typing

LEMMA ReopenStep == ASSUME Inv, NEW d \in Clients, Reopen(d) PROVE Inv'
  <1>1. /\ shown' = [shown EXCEPT ![d] = TRUE] /\ view' = view /\ Restart(d)
        /\ UNCHANGED <<behind, selected>> /\ UNCHANGED server /\ UNCHANGED typing
    BY DEF Reopen
  <1>2. /\ shown' \in [Clients -> BOOLEAN] /\ shown'[d]
        /\ \A e \in Clients \ {d} : shown'[e] = shown[e]
    BY <1>1 DEF Inv, Types, ListTypes
  <1>3. view' \in [Clients -> Views]
    BY <1>1 DEF Inv, Types, ListTypes
  <1>4. LeaseTypes' /\ LeasesOK' /\ EditsOK'
    BY <1>1, <1>2, <1>3, Restarting DEF Inv
  <1>5. ListTypes'
    <2>1. \A e \in Clients : shown[e] => shown'[e]
      BY <1>2
    <2> QED BY <1>1, <1>2, <1>3, <2>1, IndexDropped DEF Restart, Inv, Types, ListTypes
  <1>6. ServerTypes' /\ ServerOK'
    BY <1>1, ServerUntouched DEF Inv, Types
  <1> QED BY <1>1, <1>4, <1>5, <1>6 DEF Inv, Types, TypingTypes, typing

-----------------------------------------------------------------------------
(* Loading, typing and releasing a section. *)

LEMMA ReadyStep ==
    ASSUME Inv, NEW d \in Clients, NEW s \in Sections, Ready(d, s)
    PROVE  Inv'
  <1>1. /\ work[d][s] = "sync" /\ UNCHANGED <<behind, view, shown, index, indexing, selected>>
        /\ view' = view /\ UNCHANGED server /\ UNCHANGED typing
    BY DEF Ready
  <1>2. ServerTypes' /\ ServerOK' /\ ListTypes' /\ TypingTypes'
    BY <1>1, ServerUntouched DEF Inv, Types, ListTypes, TypingTypes, typing
  <1>3. LeaseOK(d, s) /\ state[d][s] = "loading" /\ bound[d][s] # None /\ s \notin next[d]
    BY <1>1 DEF Inv, LeasesOK, LeaseOK, IsShown
  <1>4. \A o \in calls : o.live /\ o.client = d => o.section # s
    BY <1>1 DEF Inv, LeasesOK, CallOK
  <1>5. CASE Done(d, s, "ready") /\ calls' = calls
    <2>1. LeaseTypes' /\ LeasesOK' /\ EditsOK'
      BY <1>1, <1>4, <1>5, Finishing DEF Inv
    <2> QED BY <1>2, <2>1 DEF Inv, Types
  <1> DEFINE x == [client |-> d, section |-> s, at |-> "prepare",
                   epoch |-> view[d].epoch, root |-> view[d].root, live |-> TRUE]
  <1>6. CASE /\ work' = [work EXCEPT ![d][s] = "init"]
             /\ calls' = calls \cup {x}
             /\ UNCHANGED <<bound, target, state, next, releases>>
    <2>1. /\ work' \in [Clients -> [Sections -> {"idle", "sync", "init"}]]
          /\ work'[d][s] = "init"
          /\ \A e \in Clients, y \in Sections : e # d \/ y # s => work'[e][y] = work[e][y]
      BY <1>6 DEF Inv, Types, LeaseTypes
    <2>2. x \in Calls /\ x.client = d /\ x.section = s
      BY DEF Calls, Inv, Types, ListTypes, Views
    <2> HIDE DEF x
    <2>3. LeaseTypes'
      BY <1>6, <2>1, <2>2 DEF Inv, Types, LeaseTypes
    <2>4. ASSUME NEW e \in Clients, NEW y \in Sections PROVE LeaseOK(e, y)'
      <3>1. LeaseOK(e, y)
        BY DEF Inv, LeasesOK
      <3>2. CASE e = d /\ y = s
        BY <1>1, <1>3, <1>6, <2>1, <3>1, <3>2 DEF LeaseOK, IsShown
      <3>3. CASE e # d \/ y # s
        BY <1>1, <1>6, <2>1, <3>1, <3>3 DEF LeaseOK, IsShown
      <3> QED BY <3>2, <3>3
    <2>5. ASSUME NEW r \in releases' PROVE ReleaseOK(r)'
      BY <1>6 DEF Inv, LeasesOK, ReleaseOK, IsShown
    <2>6. ASSUME NEW o \in calls' PROVE CallOK(o)'
      <3>1. CASE o = x
        BY <2>1, <2>2, <3>1 DEF CallOK
      <3>2. CASE o \in calls
        <4>1. CallOK(o) /\ o.section \in Sections
          BY <3>2 DEF Inv, Types, LeaseTypes, Calls, LeasesOK
        <4> QED BY <1>4, <2>1, <3>2, <4>1 DEF CallOK
      <3> QED BY <1>6, <3>1, <3>2
    <2>7. OneCall'
      BY <1>4, <1>6, <2>2 DEF Inv, LeasesOK, OneCall
    <2>8. EditsOK'
      BY <1>1, <1>6 DEF Inv, EditsOK, EditsKept, typing
    <2> QED BY <1>2, <2>3, <2>4, <2>5, <2>6, <2>7, <2>8 DEF Inv, Types, LeasesOK
  <1> QED BY <1>5, <1>6 DEF Ready

LEMMA ArrivesStep ==
    ASSUME Inv, NEW d \in Clients, NEW s \in Sections, Arrives(d, s)
    PROVE  Inv'
  <1> DEFINE b == Arrived(bound[d][s], d)
  <1>1. /\ bound[d][s] # None /\ bound' = [bound EXCEPT ![d][s] = b]
        /\ UNCHANGED <<server, list, target, state, work, next, calls, releases>>
        /\ UNCHANGED <<edits, typed, refused, dropped>>
    BY DEF Arrives, typing
  <1>2. /\ Same(bound[d][s], b) /\ b.doc = bound[d][s].doc
        /\ b.pending = bound[d][s].pending
        /\ b.sending = (bound[d][s].sending \/ (bound[d][s].inherited /\ d \in Writers))
    <2>1. bound[d][s] \in Bindings /\ 0 \in Nat
      BY <1>1, DocKnown
    <2> QED BY <2>1, BindingChanged
  <1> HIDE DEF b
  <1>3. BindingIs(d, s, b)
    BY <1>1, <1>2, BindingReplaced DEF Inv
  <1>4. ServerTypes' /\ ServerOK' /\ ListTypes' /\ LeaseTypes' /\ LeasesOK'
    BY <1>1, <1>3, OnlyBinding
  <1>5. TypingTypes'
    BY <1>1 DEF TypingTypes, Inv, Types
  <1>6. /\ b.inherited \/ b.sending \/ b.doc \subseteq b.pending \cup refused'
        /\ d \notin Writers => b.doc = {}
    BY <1>1, <1>2, DocKnown
  <1>7. EditsOK'
    BY <1>1, <1>2, <1>3, <1>6, EditsAfter DEF Inv
  <1> QED BY <1>4, <1>5, <1>7 DEF Inv, Types

(* What is typed is in the document of a binding, and pending.             *)
LEMMA TypeStep ==
    ASSUME Inv, NEW d \in Clients, NEW s \in Sections, Type(d, s)
    PROVE  Inv'
  <1> DEFINE b == Edited(bound[d][s], edits')
  <1>1. /\ bound[d][s] # None /\ d \in Writers
        /\ edits' = edits + 1 /\ typed' = typed \cup {edits'}
        /\ bound' = [bound EXCEPT ![d][s] = b]
        /\ UNCHANGED <<refused, dropped>>
        /\ UNCHANGED <<server, list, target, state, work, next, calls, releases>>
    BY DEF Type
  <1>2. edits \in Nat /\ edits' \in Nat /\ typed \subseteq 1..edits
    BY <1>1, DocKnown
  <1>3. /\ Same(bound[d][s], b) /\ b.doc = bound[d][s].doc \cup {edits'}
        /\ b.pending = bound[d][s].pending \cup {edits'}
        /\ b.inherited = bound[d][s].inherited /\ b.sending = bound[d][s].sending
    <2>1. bound[d][s] \in Bindings
      BY <1>1, DocKnown
    <2> QED BY <1>2, <2>1, BindingChanged
  <1> HIDE DEF b
  <1>4. BindingIs(d, s, b)
    BY <1>1, <1>3, BindingReplaced DEF Inv
  <1>5. ServerTypes' /\ ServerOK' /\ ListTypes' /\ LeaseTypes' /\ LeasesOK'
    BY <1>1, <1>4, OnlyBinding
  <1>6. TypingTypes'
    BY <1>1, <1>2 DEF TypingTypes
  <1>7. b.inherited \/ b.sending \/ b.doc \subseteq b.pending \cup refused'
    BY <1>1, <1>3, DocKnown
  <1>8. EditsOK'
    BY <1>1, <1>3, <1>4, <1>7, EditsAfter DEF Inv
  <1> QED BY <1>5, <1>6, <1>8 DEF Inv, Types

(* A broadcast is kept; no release waits for it any more.                  *)
LEMMA SealStep ==
    ASSUME Inv, NEW d \in Clients, NEW s \in Sections, NEW n, Seal(d, s, n)
    PROVE  Inv'
  <1> DEFINE b == Kept(bound[d][s], n)
             Sealed(r) == IF r.client = d /\ r.section = s
                          THEN [r EXCEPT !.awaits = @ \ {n}] ELSE r
             f == [r \in releases |-> Sealed(r)]
  <1>1. /\ bound[d][s] # None
        /\ bound' = [bound EXCEPT ![d][s] = b]
        /\ releases' = {Sealed(r) : r \in releases}
        /\ typed' = typed \ {n} /\ UNCHANGED <<edits, refused, dropped>>
        /\ UNCHANGED <<behind, view, shown, index, indexing, selected>>
        /\ UNCHANGED <<target, state, work, next, calls>>
        /\ UNCHANGED server
    BY DEF Seal, list
  <1>2. /\ Same(bound[d][s], b) /\ b.doc = bound[d][s].doc \ {n}
        /\ b.pending = bound[d][s].pending \ {n}
        /\ b.inherited = bound[d][s].inherited /\ b.sending = bound[d][s].sending
    <2>1. bound[d][s] \in Bindings /\ {} \in SUBSET Nat /\ 0 \in Nat
      BY <1>1, DocKnown
    <2> QED BY <2>1, BindingKept
  <1> HIDE DEF b
  <1>3. BindingIs(d, s, b)
    BY <1>1, <1>2, BindingReplaced DEF Inv
  <1>4. ASSUME NEW r \in releases
        PROVE  /\ Sealed(r) \in Releases /\ Sealed(r).client = r.client
               /\ Sealed(r).section = r.section /\ Sealed(r).opens = r.opens
    BY DEF Inv, Types, LeaseTypes, Releases
  <1>5. releases' \subseteq Releases /\ IsFiniteSet(releases')
    <2>1. f \in Surjection(releases, releases')
      BY <1>1 DEF Surjection
    <2>2. IsFiniteSet(releases)
      BY DEF Inv, Types, LeaseTypes
    <2>3. IsFiniteSet(releases')
      BY <2>1, <2>2, FS_Surjection
    <2> QED BY <1>1, <1>4, <2>3
  <1> HIDE DEF Sealed
  <1>6. TypingTypes'
    BY <1>1 DEF TypingTypes, Inv, Types
  <1>7. ServerTypes' /\ ServerOK' /\ ListTypes'
    BY <1>1, ServerUntouched DEF Inv, Types, ListTypes
  <1>8. LeaseTypes'
    BY <1>1, <1>3, <1>5 DEF BindingIs, Inv, Types, LeaseTypes
  <1>9. LeasesOK'
    <2>1. \A e \in Clients, x \in Sections : LeaseOK(e, x)'
      BY <1>1, <1>3, LeasesStay DEF Inv
    <2>2. ASSUME NEW r \in releases' PROVE ReleaseOK(r)'
      <3>1. PICK o \in releases : r = Sealed(o)
        BY <1>1
      <3>2. o.client = r.client /\ o.section = r.section /\ o.opens = r.opens
        BY <1>4, <3>1
      <3>3. r.client \in Clients /\ r.section \in Sections /\ ReleaseOK(o)
        BY <1>5 DEF Releases, Inv, LeasesOK
      <3> QED BY <1>1, <1>3, <3>2, <3>3, LeasesStay DEF Inv
    <2> QED BY <1>1, <2>1, <2>2 DEF Inv, LeasesOK, CallOK, OneCall
  <1>10. /\ b.inherited \/ b.sending \/ b.doc \subseteq b.pending \cup refused'
         /\ d \notin Writers => b.doc = {}
    BY <1>1, <1>2, DocKnown
  <1>11. EditsOK'
    BY <1>1, <1>2, <1>3, <1>10, EditsAfter DEF Inv
  <1> QED BY <1>6, <1>7, <1>8, <1>9, <1>11 DEF Inv, Types

(* A broadcast is refused: the releases that wait for it end, and its edit *)
(* is left in the document.                                                *)
LEMMA RefuseStep ==
    ASSUME Inv, NEW d \in Clients, NEW s \in Sections, NEW n, Refuse(d, s, n)
    PROVE  Inv'
  <1> DEFINE b == Unkept(bound[d][s], n)
             ended == {r \in releases : r.client = d /\ r.section = s /\ n \in r.awaits}
             failed == {c \in calls : c.client = d /\ c.section = s /\ c.at = "upload"
                                      /\ n = Upload}
             lost == state[d][s] # "none" /\ \E r \in ended : Mine(r)
  <1>1. /\ bound[d][s] # None
        /\ bound' = [bound EXCEPT ![d][s] = b]
        /\ releases' = releases \ ended
        /\ state' = [state EXCEPT ![d][s] = IF lost THEN "error" ELSE state[d][s]]
        /\ calls' = (calls \ failed) \cup {[c EXCEPT !.at = "refused"] : c \in failed}
        /\ refused' = refused \cup {n}
        /\ UNCHANGED <<edits, typed, dropped>>
        /\ UNCHANGED <<behind, view, shown, index, indexing, selected>>
        /\ UNCHANGED <<target, work, next>>
        /\ UNCHANGED server
    BY DEF Refuse, list
  <1>2. /\ Same(bound[d][s], b) /\ b.doc = bound[d][s].doc
        /\ b.pending = bound[d][s].pending \ {n}
        /\ b.inherited = bound[d][s].inherited /\ b.sending = bound[d][s].sending
    <2>1. bound[d][s] \in Bindings /\ {} \in SUBSET Nat /\ 0 \in Nat
      BY <1>1, DocKnown
    <2> QED BY <2>1, BindingUnkept
  <1> HIDE DEF b
  <1>3. BindingIs(d, s, b)
    BY <1>1, <1>2, BindingReplaced DEF Inv
  <1>4. lost => ~IsShown(d, s) /\ work[d][s] = "idle"
    <2> SUFFICES ASSUME NEW r \in ended, Mine(r)
                 PROVE  ~IsShown(d, s) /\ work[d][s] = "idle"
      OBVIOUS
    <2>1. ReleaseOK(r) /\ r.client = d /\ r.section = s /\ LeaseOK(d, s)
      BY DEF Inv, LeasesOK
    <2> QED BY <1>1, <2>1 DEF ReleaseOK, LeaseOK, Mine, IsShown
  <1> HIDE DEF lost, ended
  <1>5. /\ state' \in [Clients -> [Sections -> {"none", "loading", "ready", "releasing", "error"}]]
        /\ \A e \in Clients, x \in Sections :
               state'[e][x] = state[e][x] \/ (e = d /\ x = s /\ lost /\ state'[e][x] = "error")
    BY <1>1 DEF Inv, Types, LeaseTypes
  <1>6. \A e \in Clients, x \in Sections : IsShown(e, x)' => IsShown(e, x)
    BY <1>5 DEF IsShown
  <1>7. releases' \subseteq releases /\ releases' \subseteq Releases /\ IsFiniteSet(releases')
    BY <1>1, FS_Subset DEF Inv, Types, LeaseTypes
  <1>8. ASSUME NEW c \in calls'
        PROVE  /\ c \in Calls
               /\ \E o \in calls : /\ c.client = o.client /\ c.section = o.section
                                    /\ c.live = o.live /\ c.epoch = o.epoch /\ c.root = o.root
                                    /\ c.at = IF o \in failed THEN "refused" ELSE o.at
    <2>1. CASE c \in calls \ failed
      BY <2>1 DEF Inv, Types, LeaseTypes
    <2>2. CASE \E o \in failed : c = [o EXCEPT !.at = "refused"]
      <3>1. PICK o \in failed : c = [o EXCEPT !.at = "refused"]
        BY <2>2
      <3>2. o \in Calls /\ o \in calls
        BY DEF Inv, Types, LeaseTypes
      <3>3. /\ c \in Calls /\ c.client = o.client /\ c.section = o.section /\ c.live = o.live
            /\ c.epoch = o.epoch /\ c.root = o.root /\ c.at = "refused"
        BY <3>1, <3>2 DEF Calls
      <3> QED BY <3>2, <3>3
    <2> QED BY <1>1, <2>1, <2>2
  <1>9. OneCall' /\ \A c \in calls' : CallOK(c)'
    <2>1. ASSUME NEW c \in calls' PROVE CallOK(c)'
      <3>1. PICK o \in calls : c.client = o.client /\ c.section = o.section /\ c.live = o.live
        BY <1>8
      <3> QED BY <1>1, <3>1 DEF Inv, LeasesOK, CallOK
    <2>2. ASSUME NEW c \in calls', NEW o \in calls', c.live, o.live, c.client = o.client,
                 c.section = o.section
          PROVE  c = o
      <3>1. PICK x \in calls : /\ c.client = x.client /\ c.section = x.section
                               /\ c.live = x.live /\ c.epoch = x.epoch /\ c.root = x.root
                               /\ c.at = IF x \in failed THEN "refused" ELSE x.at
        BY <1>8
      <3>2. PICK y \in calls : /\ o.client = y.client /\ o.section = y.section
                               /\ o.live = y.live /\ o.epoch = y.epoch /\ o.root = y.root
                               /\ o.at = IF y \in failed THEN "refused" ELSE y.at
        BY <1>8
      <3>3. x = y
        BY <2>2, <3>1, <3>2 DEF Inv, LeasesOK, OneCall
      <3>4. c \in Calls /\ o \in Calls
        BY <1>8
      <3> QED BY <3>1, <3>2, <3>3, <3>4 DEF Calls
    <2> QED BY <2>1, <2>2 DEF OneCall
  <1> HIDE DEF failed
  <1>10. ServerTypes' /\ ServerOK' /\ ListTypes' /\ TypingTypes'
    BY <1>1, ServerUntouched DEF Inv, Types, ListTypes, TypingTypes
  <1>11. LeaseTypes'
    BY <1>1, <1>3, <1>5, <1>7, <1>8 DEF BindingIs, Inv, Types, LeaseTypes
  <1>12. ASSUME NEW e \in Clients, NEW x \in Sections PROVE LeaseOK(e, x)'
    <2>1. LeaseOK(e, x)
      BY DEF Inv, LeasesOK
    <2>2. work[e][x] # "idle" => state'[e][x] = "loading"
      BY <1>4, <1>5, <2>1 DEF LeaseOK
    <2> QED BY <1>1, <1>3, <1>6, <2>1, <2>2 DEF LeaseOK, BindingIs
  <1>13. ASSUME NEW o \in releases' PROVE ReleaseOK(o)'
    <2>1. o.client \in Clients /\ o.section \in Sections /\ ReleaseOK(o)
      BY <1>7 DEF Inv, Types, LeaseTypes, Releases, LeasesOK
    <2> QED BY <1>3, <1>6, <2>1 DEF ReleaseOK, BindingIs
  <1>14. LeasesOK'
    BY <1>9, <1>12, <1>13 DEF LeasesOK
  <1>15. /\ b.inherited \/ b.sending \/ b.doc \subseteq b.pending \cup refused'
         /\ d \notin Writers => b.doc = {}
    BY <1>1, <1>2, DocKnown
  <1>16. EditsOK'
    BY <1>1, <1>2, <1>3, <1>15, EditsAfter DEF Inv
  <1> QED BY <1>10, <1>11, <1>14, <1>16 DEF Inv, Types

(* A document is published, or was to be.                                  *)
LEMMA RepublishStep ==
    ASSUME Inv, NEW d \in Clients, NEW s \in Sections,
           Republish(d, s) \/ RepublishFails(d, s)
    PROVE  Inv'
  <1> DEFINE old == bound[d][s]
  <1>1. PICK P \in SUBSET Nat :
            /\ old # None /\ bound' = [bound EXCEPT ![d][s] = Published(old, P)]
            /\ \/ P = {} /\ typed' = typed \ old.doc /\ refused' = refused
               \/ P = old.doc /\ typed' = typed /\ refused' = refused \cup old.doc
    <2>1. old # None
      BY DEF Republish, RepublishFails
    <2>2. old.doc \in SUBSET Nat /\ {} \in SUBSET Nat
      BY <2>1, DocKnown
    <2>3. CASE Republish(d, s)
      BY <2>2, <2>3 DEF Republish
    <2>4. CASE RepublishFails(d, s)
      BY <2>2, <2>4 DEF RepublishFails
    <2> QED BY <2>3, <2>4
  <1>2. /\ UNCHANGED <<server, list, target, state, work, next, calls, releases>>
        /\ UNCHANGED <<edits, dropped>>
    BY DEF Republish, RepublishFails
  <1> DEFINE b == Published(old, P)
  <1>3. Same(old, b) /\ b.doc = P /\ b.pending = old.pending /\ b.inherited = old.inherited
    <2>1. old \in Bindings /\ 0 \in Nat
      BY <1>1, DocKnown
    <2> QED BY <2>1, BindingPublished
  <1>4. bound' = [bound EXCEPT ![d][s] = b]
    BY <1>1
  <1> HIDE DEF b
  <1>5. BindingIs(d, s, b)
    BY <1>1, <1>3, <1>4, BindingReplaced DEF Inv
  <1>6. ServerTypes' /\ ServerOK' /\ ListTypes' /\ LeaseTypes' /\ LeasesOK'
    BY <1>2, <1>5, OnlyBinding
  <1>7. TypingTypes'
    BY <1>1, <1>2 DEF TypingTypes, Inv, Types
  <1>8. /\ b.inherited \/ b.sending \/ b.doc \subseteq b.pending \cup refused'
        /\ d \notin Writers => b.doc = {}
        /\ \A n \in old.doc : n \in typed' => n \in b.doc
        /\ typed' \subseteq typed \cup b.doc
        /\ refused \subseteq refused' /\ dropped \subseteq dropped'
    BY <1>1, <1>2, <1>3, DocKnown
  <1>9. EditsOK'
    BY <1>1, <1>5, <1>8, EditsAfter DEF Inv
  <1> QED BY <1>6, <1>7, <1>9 DEF Inv, Types

(* A release that finds its lease is of a section that is not shown, so    *)
(* that no load of it is under way.                                        *)
LEMMA NotShown ==
    ASSUME Inv, NEW r \in releases, SameLease(r)
    PROVE  /\ r.client \in Clients /\ r.section \in Sections
           /\ bound[r.client][r.section] # None /\ Mine(r)
           /\ ~IsShown(r.client, r.section) /\ work[r.client][r.section] = "idle"
  <1>1. r.client \in Clients /\ r.section \in Sections /\ ReleaseOK(r)
    BY DEF Inv, Types, LeaseTypes, Releases, LeasesOK
  <1>2. LeaseOK(r.client, r.section)
    BY <1>1 DEF Inv, LeasesOK
  <1> QED BY <1>1, <1>2 DEF ReleaseOK, LeaseOK, SameLease, Mine, IsShown

(* A release that ends without destroying its binding.                     *)
LEMMA KeepStep ==
    ASSUME Inv, NEW r \in releases, Keep(r)
    PROVE  Inv'
  <1> DEFINE d == r.client
             s == r.section
  <1>1. /\ releases' = releases \ {r}
        /\ state' = [state EXCEPT ![d][s] =
                        IF SameLease(r) /\ Mine(r) /\ @ # "none" THEN "error" ELSE @]
        /\ UNCHANGED <<bound, target, work, next, calls>>
        /\ UNCHANGED <<behind, view, shown, index, indexing, selected, edits, typed, refused,
                       dropped>>
        /\ UNCHANGED server
    BY DEF Keep, list, typing
  <1>2. d \in Clients /\ s \in Sections
    BY DEF Inv, Types, LeaseTypes, Releases
  <1> HIDE DEF d, s
  <1>3. /\ state' \in [Clients -> [Sections -> {"none", "loading", "ready", "releasing", "error"}]]
        /\ \A e \in Clients, x \in Sections :
               \/ state'[e][x] = state[e][x]
               \/ e = d /\ x = s /\ SameLease(r) /\ state'[e][x] = "error"
    BY <1>1, <1>2 DEF Inv, Types, LeaseTypes
  <1>4. releases' \subseteq Releases /\ IsFiniteSet(releases')
    BY <1>1, FS_Subset DEF Inv, Types, LeaseTypes
  <1>5. LeaseTypes'
    BY <1>1, <1>3, <1>4 DEF Inv, Types, LeaseTypes
  <1>6. \A e \in Clients, x \in Sections : IsShown(e, x)' => IsShown(e, x)
    BY <1>3 DEF IsShown
  <1>7. ASSUME NEW e \in Clients, NEW x \in Sections PROVE LeaseOK(e, x)'
    <2>1. LeaseOK(e, x)
      BY DEF Inv, LeasesOK
    <2>2. work[e][x] # "idle" => state'[e][x] = "loading"
      <3>1. CASE state'[e][x] = state[e][x]
        BY <2>1, <3>1 DEF LeaseOK
      <3>2. CASE e = d /\ x = s /\ SameLease(r)
        BY <3>2, NotShown DEF d, s
      <3> QED BY <1>3, <3>1, <3>2
    <2> QED BY <1>1, <1>6, <2>1, <2>2 DEF LeaseOK
  <1>8. ASSUME NEW o \in releases' PROVE ReleaseOK(o)'
    <2>1. o.client \in Clients /\ o.section \in Sections /\ ReleaseOK(o)
      BY <1>1 DEF Inv, Types, LeaseTypes, Releases, LeasesOK
    <2> QED BY <1>1, <1>6, <2>1 DEF ReleaseOK
  <1>9. LeasesOK'
    BY <1>1, <1>7, <1>8 DEF Inv, LeasesOK, CallOK, OneCall
  <1>10. ServerTypes' /\ ServerOK' /\ ListTypes' /\ TypingTypes'
    BY <1>1, ServerUntouched DEF Inv, Types, ListTypes, TypingTypes
  <1>11. EditsOK'
    BY <1>1 DEF Inv, EditsOK, EditsKept
  <1> QED BY <1>5, <1>9, <1>10, <1>11 DEF Inv, Types

(* A binding with nothing left to keep is destroyed, and its target with   *)
(* it.                                                                     *)
LEMMA DestroyStep ==
    ASSUME Inv, NEW r \in releases, SameLease(r),
           bound[r.client][r.section].pending = {}, Destroy(r)
    PROVE  Inv'
  <1> DEFINE d == r.client
             s == r.section
  <1>1. d \in Clients /\ s \in Sections /\ Mine(r) /\ work[d][s] = "idle"
    BY NotShown
  <1>2. bound[d][s].pending = {}
    OBVIOUS
  <1>3. /\ bound' = [bound EXCEPT ![d][s] = None]
        /\ target' = [target EXCEPT ![d][s] = None]
        /\ state' = [state EXCEPT ![d][s] = "none"]
        /\ releases' = {o \in releases : o.client = d => o.section # s}
        /\ UNCHANGED <<work, next, calls>>
        /\ UNCHANGED <<behind, view, shown, index, indexing, selected, edits, typed, refused>>
        /\ UNCHANGED server
    BY <1>1 DEF Destroy, list
  <1> HIDE DEF d, s
  <1>4. /\ bound' \in [Clients -> [Sections -> Bindings \cup {None}]]
        /\ target' \in [Clients -> [Sections -> Nat \cup {None}]]
        /\ state' \in [Clients -> [Sections -> {"none", "loading", "ready", "releasing", "error"}]]
    BY <1>1, <1>3 DEF Inv, Types, LeaseTypes
  <1>5. /\ bound'[d][s] = None /\ target'[d][s] = None /\ state'[d][s] = "none"
        /\ \A e \in Clients, x \in Sections : e # d \/ x # s =>
               /\ bound'[e][x] = bound[e][x] /\ target'[e][x] = target[e][x]
               /\ state'[e][x] = state[e][x]
    BY <1>1, <1>3 DEF Inv, Types, LeaseTypes
  <1>6. releases' \subseteq Releases /\ IsFiniteSet(releases')
    BY <1>3, FS_Subset DEF Inv, Types, LeaseTypes
  <1>7. LeaseTypes'
    BY <1>3, <1>4, <1>6 DEF Inv, Types, LeaseTypes
  <1>8. ASSUME NEW e \in Clients, NEW x \in Sections PROVE LeaseOK(e, x)'
    <2>1. LeaseOK(e, x)
      BY DEF Inv, LeasesOK
    <2>2. CASE e = d /\ x = s
      BY <1>1, <1>3, <1>5, <2>1, <2>2 DEF LeaseOK, IsShown
    <2>3. CASE e # d \/ x # s
      BY <1>3, <1>5, <2>1, <2>3 DEF LeaseOK, IsShown
    <2> QED BY <2>2, <2>3
  <1>9. ASSUME NEW o \in releases' PROVE ReleaseOK(o)'
    <2>1. /\ o.client \in Clients /\ o.section \in Sections /\ ReleaseOK(o)
          /\ o.client # d \/ o.section # s
      BY <1>3 DEF Inv, Types, LeaseTypes, Releases, LeasesOK
    <2> QED BY <1>5, <2>1 DEF ReleaseOK, IsShown
  <1>10. LeasesOK'
    BY <1>3, <1>8, <1>9 DEF Inv, LeasesOK, CallOK, OneCall
  <1>11. ServerTypes' /\ ServerOK' /\ ListTypes' /\ TypingTypes'
    BY <1>3, ServerUntouched DEF Inv, Types, ListTypes, TypingTypes
  <1>12. EditsOK'
    <2>1. dropped' = dropped \cup {n \in bound[d][s].doc :
                                      n \in refused \/ bound[d][s].inherited \/ bound[d][s].sending}
      BY DEF Destroy, d, s
    <2>2. bound[d][s] # None
      BY NotShown DEF d, s
    <2>3. bound[d][s].doc \subseteq dropped'
      BY <1>1, <1>2, <2>1, <2>2, DocKnown
    <2>4. ASSUME NEW n \in typed', n \notin dropped'
          PROVE  \E e \in Clients, x \in Sections : bound'[e][x] # None /\ n \in bound'[e][x].doc
      <3>1. PICK e \in Clients, x \in Sections : bound[e][x] # None /\ n \in bound[e][x].doc
        BY <1>3, <2>1, <2>4 DEF Inv, EditsOK, EditsKept
      <3>2. e # d \/ x # s
        BY <2>3, <2>4, <3>1
      <3> QED BY <1>5, <3>1, <3>2
    <2>5. ASSUME NEW e \in Clients, NEW x \in Sections
          PROVE  /\ \/ bound'[e][x] = None \/ bound'[e][x].inherited \/ bound'[e][x].sending
                    \/ bound'[e][x].doc \subseteq bound'[e][x].pending \cup refused'
                 /\ e \notin Writers /\ bound'[e][x] # None => bound'[e][x].doc = {}
      <3>1. CASE e = d /\ x = s
        BY <1>5, <3>1
      <3>2. CASE e # d \/ x # s
        <4>1. bound'[e][x] = bound[e][x]
          BY <1>5, <3>2
        <4> QED BY <1>3, <4>1 DEF Inv, EditsOK, EditsKept
      <3> QED BY <3>1, <3>2
    <2> QED BY <2>4, <2>5 DEF EditsOK, EditsKept
  <1> QED BY <1>7, <1>10, <1>11, <1>12 DEF Inv, Types

LEMMA ReleaseStep == ASSUME Inv, NEW r \in releases, Release(r) PROVE Inv'
  BY KeepStep, DestroyStep DEF Release

-----------------------------------------------------------------------------
(* The specification. *)

LEMMA ClientStepHolds == ASSUME Inv, NEW d \in Clients, ClientStep(d) PROVE Inv'
  <1>1. ASSUME NEW c \in calls, c.client = d, CallStep(c) PROVE Inv'
    BY <1>1, PrepareStep, CommitStep, AnsweredStep, FailedStep DEF CallStep
  <1>2. ASSUME NEW s \in Sections, NEW n, Seal(d, s, n) PROVE Inv'
    BY <1>2, SealStep
  <1>3. ASSUME NEW s \in Sections, Arrives(d, s) \/ Ready(d, s) \/ Republish(d, s)
        PROVE  Inv'
    BY <1>3, ArrivesStep, ReadyStep, RepublishStep
  <1> QED BY <1>1, <1>2, <1>3, ReloadStep, ListStep, ListedStep, ReleaseStep DEF ClientStep

LEMMA StoreStepHolds == ASSUME Inv, NEW d \in Clients, StoreStep(d) PROVE Inv'
  BY RefuseStep, RepublishStep DEF StoreStep

LEMMA NextHolds == Inv /\ [Next]_vars => Inv'
  <1> SUFFICES ASSUME Inv, [Next]_vars PROVE Inv'
    OBVIOUS
  <1>1. CASE Rotate
    BY <1>1, RotateStep
  <1>2. ASSUME NEW d \in Clients, ClientStep(d) PROVE Inv'
    BY <1>2, ClientStepHolds
  <1>3. ASSUME NEW d \in Clients, UserStep(d) PROVE Inv'
    BY <1>3, CloseStep, ReopenStep, SelectStep, TypeStep DEF UserStep
  <1>8. ASSUME NEW d \in Clients, StoreStep(d) PROVE Inv'
    BY <1>8, StoreStepHolds
  <1>4. ASSUME NEW d \in Writers \cup Others, WriterStep(d) PROVE Inv'
    BY <1>4, SaveStep, CreateStep, TombstoneStep DEF WriterStep
  <1>5. ASSUME NEW d \in Others, NEW s \in Sections, Elsewhere(d, s) PROVE Inv'
    BY <1>5, ElsewhereStep
  <1>6. ASSUME NEW d \in Clients \cup Others, ServerStep(d) PROVE Inv'
    BY <1>6, InitializeStep DEF ServerStep
  <1>7. CASE UNCHANGED vars
    <2>1. /\ UNCHANGED <<note, sect, manifests, inits>>
          /\ UNCHANGED <<behind, view, shown, index, indexing, selected>>
          /\ UNCHANGED <<bound, target, state, work, next, calls, releases>>
          /\ UNCHANGED <<edits, typed, refused, dropped>>
      BY <1>7 DEF vars, server, list, leases, typing
    <2>2. Types'
      BY <2>1 DEF Inv, Types, ServerTypes, ListTypes, LeaseTypes, TypingTypes
    <2>3. ServerOK'
      BY <2>1 DEF Inv, ServerOK, Live
    <2>4. LeasesOK'
      BY <2>1 DEF Inv, LeasesOK, LeaseOK, ReleaseOK, CallOK, OneCall, IsShown
    <2>5. EditsOK'
      BY <2>1 DEF Inv, EditsOK, EditsKept
    <2> QED BY <2>2, <2>3, <2>4, <2>5 DEF Inv
  <1> QED BY <1>1, <1>2, <1>3, <1>4, <1>5, <1>6, <1>7, <1>8 DEF Next

(* Rows, lists, bindings and leases have the shape the code gives them; a  *)
(* load that is under way holds the lease of a binding of the epoch its    *)
(* list shows, and a release that waits never has the generation of what   *)
(* is shown (hooks/useSectionData.ts, realtime/crdt/sectionLifecycle.ts).  *)
THEOREM Invariance == Spec => []Inv
  <1>1. Init => Inv
    BY InitHolds
  <1>2. Inv /\ [Next]_vars => Inv'
    BY NextHolds
  <1> QED BY <1>1, <1>2, PTL DEF Spec

(* For all sections, devices and bounds: a note keeps a section, and a     *)
(* section is initialized once, by a checkpoint committed for it, whatever *)
(* devices and epochs ask again (notes/postgresSectionRepository.ts).      *)
THEOREM OneInitialization == Spec => []InitializedOnce
  <1>1. Inv => InitializedOnce
    <2> SUFFICES ASSUME Inv PROVE InitializedOnce
      OBVIOUS
    <2>1. \A s \in Sections : /\ sect[s].state \in {"none", "live", "deleted"}
                              /\ sect[s].created \in Nat
                              /\ sect[s].init \in manifests \cup {None}
      BY DEF Inv, Types, ServerTypes, Rows, ServerOK
    <2>2. \A d \in Clients :
              /\ index[d].initialized \subseteq index[d].listed
              /\ index[d].listed \subseteq Sections
              /\ indexing[d].at \in {"none", "root", "listed"}
              /\ selected[d] \in Sections \cup {None}
      BY DEF Inv, Types, ListTypes, Indexes, Jobs
    <2>3. \A d \in Clients :
              /\ next[d] \subseteq Sections
              /\ \A s \in Sections :
                    /\ state[d][s] \in {"none", "loading", "ready", "releasing", "error"}
                    /\ work[d][s] \in {"idle", "sync", "init"}
                    /\ (bound[d][s] = None) = (target[d][s] = None)
      BY DEF Inv, Types, LeaseTypes, LeasesOK, LeaseOK
    <2>4. TypeOK
      BY <2>1, <2>2, <2>3 DEF TypeOK, Inv, Types, ServerTypes, ListTypes, Views
    <2> QED BY <2>4 DEF InitializedOnce, Inv, ServerOK
  <1> QED BY <1>1, Invariance, PTL

(* For all sections, devices and bounds: what a section is shown with as   *)
(* loading or ready is open with the lease of the last load, however late  *)
(* an earlier release of it ends (hooks/useSectionData.ts,                 *)
(* realtime/crdt/sectionLifecycle.ts).                                     *)
THEOREM ShownAreOpen == Spec => []ShownIsOpen
  <1>1. Inv => ShownIsOpen
    BY DEF Inv, LeasesOK, LeaseOK, IsShown, ShownIsOpen
  <1> QED BY <1>1, Invariance, PTL

(* For all sections, devices and bounds: an edit that the outbox does not  *)
(* keep is destroyed with its section only if the device's store refused   *)
(* it, or a change of epoch left it to a publication that had not ended,   *)
(* however sections are selected, released and opened again                *)
(* (realtime/crdt/sectionLifecycle.ts, state.ts, synchronization.ts).      *)
THEOREM EditsStay == Spec => []EditsKept
  <1>1. Inv => EditsKept
    BY DEF Inv, EditsOK
  <1> QED BY <1>1, Invariance, PTL
=============================================================================
