------------------------- MODULE NoteSharingProofs --------------------------
(***************************************************************************)
(* That the keys of a shared note stay linked, that the present key        *)
(* reaches its members and nobody who was revoked, and that a rotation     *)
(* brings back no earlier title.  The argument is about what a device may  *)
(* have prepared: the server takes it only while the note is at the root   *)
(* version it was prepared from, and as long as it is, what was prepared   *)
(* has the note's title and key, and a new key that nobody has seen.       *)
(***************************************************************************)
EXTENDS NoteSharing, FiniteSetTheorems, WellFoundedInduction, TLAPS

Seals == [key: Keys, epoch: 1..MaxEpoch, version: 1..MaxSharingKeys]
Preparations ==
    [key: Keys, epoch: 1..MaxEpoch, root: Nat, old: Keys, title: 0..MaxTitles]
Views == [epoch: 1..MaxEpoch, root: Nat, key: Keys, title: 0..MaxTitles]
Links == [source: 1..MaxEpoch, target: 1..MaxEpoch, holds: Keys, under: Keys]
Notes == [epoch: 1..MaxEpoch, root: Nat, key: Keys, titleKey: Keys, title: 0..MaxTitles]

JobShape(j) ==
    \/ j = Idle
    \/ j \in [at: {"confirm", "invite"}, member: Members, seal: Seals]
    \/ j \in [at: {"wrap"}, member: Members, others: SUBSET Members,
              preparation: Preparations]
    \/ /\ j = [at |-> "rotate", member |-> j.member,
               preparation |-> j.preparation, versions |-> j.versions]
       /\ j.member \in Members /\ j.preparation \in Preparations
    \/ j \in [at: {"rotated"}, member: Members, preparation: Preparations]

ServerTypes ==
    /\ note \in Notes
    /\ links \in SUBSET Links
    /\ status \in [Members -> {"none", "active", "revoked"}]
    /\ share \in [Members -> Seals \cup {None}]
    /\ published \in [Members -> (SUBSET (1..MaxSharingKeys)) \ {{}}]

JobTypes == DOMAIN job = Owners /\ \A o \in Owners : JobShape(job[o])

OwnerTypes ==
    /\ view \in [Owners -> Views]
    /\ failed \in [Owners -> [member: Members, preparation: Preparations] \cup {None}]
    /\ trusted \in [Owners -> SUBSET (Members \X (1..MaxSharingKeys))]
    /\ made \in 0..MaxKeys

MemberTypes ==
    /\ opened \in [Members -> Keys \cup {None}]
    /\ loading \in [Members -> [epoch: 1..MaxEpoch, key: Keys] \cup {None}]
    /\ behind \in SUBSET Members
    /\ known \in [Members -> SUBSET Keys]
    /\ late \in SUBSET Members

Types == ServerTypes /\ JobTypes /\ OwnerTypes /\ MemberTypes

(* Where a key can be that is no longer only prepared. *)
IsUsed(k) ==
    \/ k = note.key
    \/ \E m \in Members : k \in known[m]
    \/ \E o \in Owners :
          \/ k = view[o].key
          \/ (At(o, "confirm") \/ At(o, "invite")) /\ k = job[o].seal.key
          \/ At(o, "rotated") /\ k = job[o].preparation.key

(* What a device shows: as the note was, and as it is at the same root. *)
ViewFits(v) ==
    /\ v.root <= note.root /\ v.epoch <= note.epoch /\ v.key <= made
    /\ v.root = note.root => v.epoch = note.epoch /\ v.title = note.title
    /\ v.epoch = note.epoch => v.key = note.key

SealFits(s) ==
    /\ s.epoch <= note.epoch /\ s.key <= made
    /\ s.epoch = note.epoch => s.key = note.key

PreparationFits(p) ==
    /\ p.root <= note.root /\ p.epoch <= note.epoch + 1 /\ p.key <= made
    /\ p.root = note.root =>
          /\ p.epoch = note.epoch + 1 /\ p.title = note.title /\ p.old = note.key
          /\ ~IsUsed(p.key)

(* After the rotation: what the answer will make of the view.              *)
RotatedFits(p, v) ==
    /\ p.root + 1 <= note.root /\ p.epoch <= note.epoch /\ p.key <= made
    /\ p.epoch = note.epoch => p.key = note.key
    /\ p.root + 1 = note.root => p.epoch = note.epoch /\ v.title = note.title

OwnerOK(o) ==
    /\ ViewFits(view[o])
    /\ At(o, "confirm") \/ At(o, "invite") => SealFits(job[o].seal)
    /\ At(o, "wrap") \/ At(o, "rotate") =>
          /\ PreparationFits(job[o].preparation)
          /\ job[o].preparation.root <= view[o].root
    /\ At(o, "rotated") => RotatedFits(job[o].preparation, view[o])
    /\ failed[o] # None => PreparationFits(failed[o].preparation)

OwnersOK == \A o \in Owners : OwnerOK(o)

KeysMade == note.key <= made /\ \A m \in Members : \A k \in known[m] : k <= made

(* One link leads from each epoch to the one after it.                     *)
LinksOK ==
    /\ note.titleKey = note.key
    /\ IsFiniteSet(links) /\ Cardinality(links) = note.epoch - 1
    /\ \A l \in links : l.source < note.epoch /\ l.target = l.source + 1
    /\ \A l1, l2 \in links : l1.source = l2.source => l1 = l2
    /\ \A e \in 1..(note.epoch - 1) : \E l \in links :
          /\ l.source = e
          /\ e + 1 = note.epoch => l.under = note.key
          /\ \A k \in links : k.source = e + 1 => l.under = k.holds

Rest == KeysMade /\ LinksOK /\ MembersCanRead /\ RevokedCannotRead

IInv == Types /\ OwnersOK /\ Rest

-----------------------------------------------------------------------------
(* The newest version of a sharing key. *)

LEMMA CurrentPublished ==
    ASSUME SharingAssumption, NEW S \in SUBSET (1..MaxSharingKeys), S # {}
    PROVE  \E v \in S : \A w \in S : w <= v
  <1> DEFINE T == {MaxSharingKeys - v : v \in S}
  <1>1. T # {} /\ T \subseteq Nat
    <2>1. ASSUME NEW v \in S PROVE MaxSharingKeys - v \in Nat
      BY DEF SharingAssumption
    <2> QED BY <2>1
  <1>2. PICK c \in T : \A other \in T : ~ (<<other, c>> \in OpToRel(<, Nat))
    BY <1>1, NatLessThanWellFounded, WFMin
  <1>3. \A other \in T : ~(other < c)
    BY <1>1, <1>2 DEF OpToRel
  <1>4. PICK v \in S : c = MaxSharingKeys - v
    BY <1>2
  <1>5. ASSUME NEW w \in S PROVE w <= v
    <2>1. MaxSharingKeys - w \in T
      OBVIOUS
    <2>2. ~(MaxSharingKeys - w < MaxSharingKeys - v)
      BY <1>3, <1>4, <2>1
    <2> QED BY <2>2 DEF SharingAssumption
  <1> QED BY <1>5

LEMMA CurrentTyped ==
    ASSUME ServerTypes, NEW m \in Members
    PROVE  Current(m) \in published[m] /\ Current(m) \in 1..MaxSharingKeys
  <1>1. published[m] \in SUBSET (1..MaxSharingKeys) /\ published[m] # {}
    BY DEF ServerTypes
  <1>2. \E v \in published[m] : \A w \in published[m] : w <= v
    BY <1>1, CurrentPublished, SharingAssumption
  <1> QED BY <1>1, <1>2 DEF Current

(* The other devices need not care for a step that leaves the note and the *)
(* keys in use alone, nor for one that moves the note on.                  *)
Quiet == note' = note /\ made' >= made /\ \A k : IsUsed(k)' => IsUsed(k)

Moved ==
    /\ note'.root > note.root /\ note'.epoch >= note.epoch /\ made' >= made
    /\ note'.epoch = note.epoch => note'.key = note.key

LEMMA FitsKept ==
    ASSUME Types, Types', Quiet \/ Moved
    PROVE  /\ \A v \in Views : ViewFits(v) => ViewFits(v)'
           /\ \A s \in Seals : SealFits(s) => SealFits(s)'
           /\ \A p \in Preparations : PreparationFits(p) => PreparationFits(p)'
           /\ \A p \in Preparations, v \in Views : RotatedFits(p, v) => RotatedFits(p, v)'
  <1>1. note \in Notes /\ note' \in Notes /\ made \in Nat /\ made' \in Nat
    BY DEF Types, ServerTypes, OwnerTypes
  <1>2. ASSUME NEW v \in Views, ViewFits(v) PROVE ViewFits(v)'
    BY <1>1, <1>2, SharingAssumption DEF ViewFits, Quiet, Moved, Views, Notes, Keys
  <1>3. ASSUME NEW s \in Seals, SealFits(s) PROVE SealFits(s)'
    BY <1>1, <1>3, SharingAssumption DEF SealFits, Quiet, Moved, Seals, Notes, Keys
  <1>4. ASSUME NEW p \in Preparations, PreparationFits(p) PROVE PreparationFits(p)'
    BY <1>1, <1>4, SharingAssumption DEF PreparationFits, Quiet, Moved, Preparations, Notes, Keys
  <1>5. ASSUME NEW p \in Preparations, NEW v \in Views, RotatedFits(p, v)
        PROVE  RotatedFits(p, v)'
    BY <1>1, <1>5, SharingAssumption DEF RotatedFits, Quiet, Moved, Preparations, Notes, Keys
  <1> QED BY <1>2, <1>3, <1>4, <1>5

LEMMA JobParts ==
    ASSUME JobTypes, NEW o \in Owners
    PROVE  /\ job[o].at \in {"idle", "confirm", "invite", "wrap", "rotate", "rotated"}
           /\ At(o, "confirm") \/ At(o, "invite") =>
                 job[o].seal \in Seals /\ job[o].member \in Members
           /\ At(o, "wrap") \/ At(o, "rotate") \/ At(o, "rotated") =>
                 job[o].preparation \in Preparations /\ job[o].member \in Members
           /\ At(o, "wrap") => job[o].others \in SUBSET Members
  <1>1. JobShape(job[o])
    BY DEF JobTypes
  <1> QED BY <1>1 DEF JobShape, At, Idle

LEMMA OthersOK ==
    ASSUME Types, Types', Quiet \/ Moved, NEW o \in Owners, OwnerOK(o),
           view'[o] = view[o], job'[o] = job[o], failed'[o] = failed[o]
    PROVE  OwnerOK(o)'
  <1>1. view[o] \in Views
    BY DEF Types, OwnerTypes
  <1>2. failed[o] # None => failed[o].preparation \in Preparations
    BY DEF Types, OwnerTypes
  <1>3. /\ At(o, "confirm") \/ At(o, "invite") => job[o].seal \in Seals
        /\ At(o, "wrap") \/ At(o, "rotate") \/ At(o, "rotated") =>
              job[o].preparation \in Preparations
    BY JobParts DEF Types
  <1> QED BY <1>1, <1>2, <1>3, FitsKept DEF OwnerOK, At

LEMMA JobGoes ==
    ASSUME JobTypes, NEW o \in Owners, NEW j, JobShape(j), Goes(o, j)
    PROVE  JobTypes' /\ job'[o] = j /\ \A x \in Owners \ {o} : job'[x] = job[x]
  <1>1. /\ DOMAIN job' = Owners
        /\ job'[o] = j /\ \A x \in Owners \ {o} : job'[x] = job[x]
    BY DEF JobTypes, Goes
  <1>2. \A x \in Owners : JobShape(job'[x])
    BY <1>1 DEF JobTypes
  <1> QED BY <1>1, <1>2 DEF JobTypes

(* The shapes a job is given. *)
LEMMA JobsMade ==
    ASSUME NEW m \in Members
    PROVE  /\ JobShape(Idle)
           /\ \A seal \in Seals : /\ JobShape([at |-> "confirm", member |-> m, seal |-> seal])
                                  /\ JobShape([at |-> "invite", member |-> m, seal |-> seal])
           /\ \A x \in Owners, p \in Preparations : JobShape(Revoking(x, m, p))
           /\ \A p \in Preparations : \A v : JobShape([at |-> "rotate", member |-> m,
                                                  preparation |-> p, versions |-> v])
           /\ \A p \in Preparations :
                  JobShape([at |-> "rotated", member |-> m, preparation |-> p])
  <1>1. \A x \in Owners, p \in Preparations : JobShape(Revoking(x, m, p))
    BY DEF JobShape, Revoking, Active
  <1>2. \A p \in Preparations : \A v : JobShape([at |-> "rotate", member |-> m,
                                           preparation |-> p, versions |-> v])
    BY DEF JobShape
  <1>3. /\ JobShape(Idle)
        /\ \A seal \in Seals : /\ JobShape([at |-> "confirm", member |-> m, seal |-> seal])
                                /\ JobShape([at |-> "invite", member |-> m, seal |-> seal])
    BY DEF JobShape
  <1>4. \A p \in Preparations : JobShape([at |-> "rotated", member |-> m, preparation |-> p])
    BY DEF JobShape
  <1> QED BY <1>1, <1>2, <1>3, <1>4

LEMMA SealedTyped ==
    ASSUME Types, NEW o \in Owners, NEW v \in 1..MaxSharingKeys
    PROVE  Sealed(o, v) \in Seals
  BY DEF Types, OwnerTypes, Views, Seals, Sealed

LEMMA PreparedTyped ==
    ASSUME Types, SharingAssumption, NEW o \in Owners, view[o].epoch < MaxEpoch, made < MaxKeys
    PROVE  Prepared(o) \in Preparations
  BY DEF Types, OwnerTypes, Views, Preparations, Prepared, Keys, SharingAssumption

-----------------------------------------------------------------------------
(* Every step keeps the shapes. *)

LEMMA LoadTyped ==
    ASSUME Types, NEW o \in Owners, Load(o)
    PROVE  /\ view' \in [Owners -> Views]
           /\ view'[o].root = note.root /\ view'[o].epoch = note.epoch
           /\ view'[o].key = note.key /\ view'[o].title = note.title
  BY DEF Types, ServerTypes, OwnerTypes, Load, Views, Notes

LEMMA ReloadTyped ==
    ASSUME Types, NEW o \in Owners, Reload(o)
    PROVE  Types'
  BY LoadTyped DEF Reload, Types, ServerTypes, JobTypes, OwnerTypes, MemberTypes,
        server, members, ghosts

LEMMA SaveTitleTyped ==
    ASSUME Types, SharingAssumption, NEW o \in Owners, SaveTitle(o)
    PROVE  Types'
  <1>1. note \in Notes /\ view[o] \in Views /\ note.title + 1 \in 0..MaxTitles
    BY DEF Types, ServerTypes, OwnerTypes, SaveTitle, Notes, SharingAssumption
  <1>2. note' \in Notes
    BY <1>1 DEF SaveTitle, Notes, Views
  <1>3. view' \in [Owners -> Views]
    BY <1>1 DEF Types, OwnerTypes, SaveTitle, Views, Notes
  <1>4. behind' \in SUBSET Members
    BY DEF Types, MemberTypes, SaveTitle, Active
  <1> QED BY <1>2, <1>3, <1>4 DEF SaveTitle, Types, ServerTypes, JobTypes, OwnerTypes,
        MemberTypes, members, ghosts

LEMMA SubmitTyped ==
    ASSUME Types, SharingAssumption, NEW o \in Owners, NEW m \in Members, SubmitInvite(o, m)
    PROVE  /\ Types' /\ \A x \in Owners \ {o} : job'[x] = job[x]
           /\ \E v \in 1..MaxSharingKeys, at \in {"confirm", "invite"} :
                 job'[o] = [at |-> at, member |-> m, seal |-> Sealed(o, v)]
  <1> DEFINE v == Current(m)
  <1> DEFINE at == IF <<m, v>> \in trusted[o] THEN "invite" ELSE "confirm"
  <1> DEFINE j == [at |-> at, member |-> m, seal |-> Sealed(o, v)]
  <1>1. v \in 1..MaxSharingKeys
    BY CurrentTyped DEF Types
  <1>2. JobShape(j)
    BY <1>1, JobsMade, SealedTyped
  <1>3. Goes(o, j)
    BY DEF SubmitInvite
  <1>4. JobTypes' /\ job'[o] = j /\ \A x \in Owners \ {o} : job'[x] = job[x]
    BY <1>2, <1>3, JobGoes DEF Types
  <1> QED BY <1>1, <1>4 DEF SubmitInvite, Types, ServerTypes, OwnerTypes, MemberTypes,
        server, members, ghosts

LEMMA ConfirmTyped ==
    ASSUME Types, SharingAssumption, NEW o \in Owners, ConfirmTrust(o)
    PROVE  /\ Types' /\ \A x \in Owners \ {o} : job'[x] = job[x]
           /\ \/ job'[o] = Idle
              \/ \E v \in 1..MaxSharingKeys :
                    job'[o] = [at |-> "invite", member |-> job[o].member, seal |-> Sealed(o, v)]
  <1>1. job[o].seal \in Seals /\ job[o].member \in Members
    BY JobParts DEF Types, ConfirmTrust
  <1> DEFINE v == job[o].seal.version
  <1> DEFINE j == IF job[o].seal.key = view[o].key
                  THEN [at |-> "invite", member |-> job[o].member, seal |-> Sealed(o, v)]
                  ELSE Idle
  <1>2. v \in 1..MaxSharingKeys
    BY <1>1 DEF Seals
  <1>3. JobShape(j)
    BY <1>1, <1>2, JobsMade, SealedTyped
  <1>4. Goes(o, j)
    BY DEF ConfirmTrust
  <1>5. JobTypes' /\ job'[o] = j /\ \A x \in Owners \ {o} : job'[x] = job[x]
    BY <1>3, <1>4, JobGoes DEF Types
  <1>6. trusted' \in [Owners -> SUBSET (Members \X (1..MaxSharingKeys))]
    BY <1>1, <1>2 DEF ConfirmTrust, Types, OwnerTypes
  <1> QED BY <1>2, <1>5, <1>6 DEF ConfirmTrust, Types, ServerTypes, OwnerTypes, MemberTypes,
        server, members, ghosts

LEMMA CancelTyped ==
    ASSUME Types, NEW o \in Owners, CancelTrust(o)
    PROVE  Types' /\ job'[o] = Idle /\ \A x \in Owners \ {o} : job'[x] = job[x]
  <1>1. JobShape(Idle)
    BY DEF JobShape
  <1>2. JobTypes' /\ job'[o] = Idle /\ \A x \in Owners \ {o} : job'[x] = job[x]
    BY <1>1, JobGoes DEF Types, CancelTrust
  <1> QED BY <1>2 DEF CancelTrust, Types, ServerTypes, OwnerTypes, MemberTypes,
        server, members, ghosts

LEMMA InviteTyped ==
    ASSUME Types, NEW o \in Owners, Invite(o)
    PROVE  /\ Types' /\ job'[o] = Idle /\ \A x \in Owners \ {o} : job'[x] = job[x]
           /\ job[o].member \in Members /\ job[o].seal \in Seals
  <1>1. job[o].member \in Members /\ job[o].seal \in Seals
    BY JobParts DEF Types, Invite
  <1>2. JobShape(Idle)
    BY DEF JobShape
  <1>3. JobTypes' /\ job'[o] = Idle /\ \A x \in Owners \ {o} : job'[x] = job[x]
    BY <1>2, JobGoes DEF Types, Invite
  <1>4. share' \in [Members -> Seals \cup {None}]
    BY <1>1 DEF Invite, Types, ServerTypes
  <1>5. status' \in [Members -> {"none", "active", "revoked"}]
    BY <1>1 DEF Invite, Types, ServerTypes
  <1>6. known' \in [Members -> SUBSET Keys]
    BY <1>1 DEF Invite, Types, MemberTypes, Seals, ghosts
  <1>7. behind' \in SUBSET Members /\ late' \in SUBSET Members
    BY <1>1 DEF Invite, Types, MemberTypes, Active, ghosts
  <1> QED BY <1>1, <1>3, <1>4, <1>5, <1>6, <1>7 DEF Invite, Types, ServerTypes, OwnerTypes,
        MemberTypes, members

LEMMA RevokeTyped ==
    ASSUME Types, SharingAssumption, NEW o \in Owners, NEW m \in Members, Revoke(o, m)
    PROVE  /\ Types' /\ \A x \in Owners \ {o} : job'[x] = job[x]
           /\ job'[o] = Revoking(o, m, Prepared(o)) /\ Prepared(o) \in Preparations
  <1>1. Prepared(o) \in Preparations
    BY PreparedTyped DEF Revoke
  <1>2. JobShape(Revoking(o, m, Prepared(o)))
    BY <1>1, JobsMade
  <1>3. /\ JobTypes' /\ job'[o] = Revoking(o, m, Prepared(o))
        /\ \A x \in Owners \ {o} : job'[x] = job[x]
    BY <1>2, JobGoes DEF Types, Revoke
  <1>4. made' \in 0..MaxKeys
    BY DEF Revoke, Types, OwnerTypes, SharingAssumption
  <1> QED BY <1>1, <1>3, <1>4 DEF Revoke, Types, ServerTypes, OwnerTypes, MemberTypes,
        server, members, ghosts

(* What a device remembers of a failure, if it does. *)
LEMMA FailedTyped ==
    ASSUME Types, NEW o \in Owners, failed[o] # None
    PROVE  failed[o].member \in Members /\ failed[o].preparation \in Preparations
  BY DEF Types, OwnerTypes

LEMMA FailsTyped ==
    ASSUME Types, SharingAssumption, NEW o \in Owners, Fails(o),
           At(o, "wrap") \/ At(o, "rotate") \/ At(o, "rotated")
    PROVE  /\ JobTypes' /\ job'[o] = Idle /\ \A x \in Owners \ {o} : job'[x] = job[x]
           /\ failed' \in [Owners -> [member: Members, preparation: Preparations] \cup {None}]
           /\ failed'[o].preparation = job[o].preparation
           /\ \A x \in Owners \ {o} : failed'[x] = failed[x]
           /\ job[o].preparation \in Preparations
  <1>1. JobShape(Idle)
    BY DEF JobShape
  <1>2. JobTypes' /\ job'[o] = Idle /\ \A x \in Owners \ {o} : job'[x] = job[x]
    BY <1>1, JobGoes DEF Types, Fails
  <1>3. job[o].preparation \in Preparations /\ job[o].member \in Members
    BY JobParts DEF Types
  <1>4. /\ failed' \in [Owners -> [member: Members, preparation: Preparations] \cup {None}]
        /\ failed'[o] = [member |-> job[o].member, preparation |-> job[o].preparation]
        /\ \A x \in Owners \ {o} : failed'[x] = failed[x]
    BY <1>3 DEF Fails, Types, OwnerTypes
  <1> QED BY <1>2, <1>3, <1>4

LEMMA RetryTyped ==
    ASSUME Types, SharingAssumption, NEW o \in Owners, Retry(o)
    PROVE  /\ Types' /\ \A x \in Owners \ {o} : job'[x] = job[x]
           /\ \/ Load(o) /\ failed'[o] = None /\ job' = job /\ made' = made
              \/ /\ UNCHANGED <<view, failed, made>> /\ Matches(o, failed[o].preparation)
                 /\ job'[o] = Revoking(o, failed[o].member, failed[o].preparation)
                 /\ failed[o].preparation \in Preparations
              \/ /\ UNCHANGED <<view, failed>> /\ made' = made + 1
                 /\ job'[o] = Revoking(o, failed[o].member, Prepared(o))
                 /\ Prepared(o) \in Preparations
           /\ failed[o] # None /\ \A x \in Owners \ {o} : failed'[x] = failed[x]
  <1>1. failed[o] # None
    BY DEF Retry
  <1>2. failed[o].member \in Members /\ failed[o].preparation \in Preparations
    BY <1>1, FailedTyped
  <1> DEFINE m == failed[o].member
  <1> DEFINE p == failed[o].preparation
  <1>3. CASE status[m] = "revoked"
    <2>1. Load(o) /\ failed' = [failed EXCEPT ![o] = None] /\ job' = job /\ made' = made
      BY <1>3 DEF Retry
    <2>2. view' \in [Owners -> Views]
      BY <2>1, LoadTyped
    <2>3. /\ failed' \in [Owners -> [member: Members, preparation: Preparations] \cup {None}]
          /\ failed'[o] = None /\ \A x \in Owners \ {o} : failed'[x] = failed[x]
      BY <2>1 DEF Types, OwnerTypes
    <2> QED BY <1>1, <2>1, <2>2, <2>3 DEF Retry, Types, ServerTypes, JobTypes, OwnerTypes,
          MemberTypes, server, members, ghosts
  <1>4. CASE status[m] # "revoked" /\ Matches(o, p)
    <2>1. Goes(o, Revoking(o, m, p)) /\ UNCHANGED <<view, failed, made>>
      BY <1>4 DEF Retry
    <2>2. JobShape(Revoking(o, m, p))
      BY <1>2, JobsMade
    <2>3. JobTypes' /\ job'[o] = Revoking(o, m, p) /\ \A x \in Owners \ {o} : job'[x] = job[x]
      BY <2>1, <2>2, JobGoes DEF Types
    <2> QED BY <1>1, <1>2, <1>4, <2>1, <2>3 DEF Retry, Types, ServerTypes, OwnerTypes,
          MemberTypes, server, members, ghosts
  <1>5. CASE status[m] # "revoked" /\ ~Matches(o, p)
    <2>1. /\ Goes(o, Revoking(o, m, Prepared(o))) /\ UNCHANGED <<view, failed>>
          /\ made' = made + 1 /\ view[o].epoch < MaxEpoch /\ made < MaxKeys
      BY <1>5 DEF Retry
    <2>2. Prepared(o) \in Preparations
      BY <2>1, PreparedTyped
    <2>3. JobShape(Revoking(o, m, Prepared(o)))
      BY <1>2, <2>2, JobsMade
    <2>4. /\ JobTypes' /\ job'[o] = Revoking(o, m, Prepared(o))
          /\ \A x \in Owners \ {o} : job'[x] = job[x]
      BY <2>1, <2>3, JobGoes DEF Types
    <2>5. made' \in 0..MaxKeys
      BY <2>1 DEF Types, OwnerTypes, SharingAssumption
    <2> QED BY <1>1, <2>1, <2>2, <2>4, <2>5 DEF Retry, Types, ServerTypes, OwnerTypes,
          MemberTypes, server, members, ghosts
  <1> QED BY <1>3, <1>4, <1>5

LEMMA WrapTyped ==
    ASSUME Types, SharingAssumption, NEW o \in Owners, WrapShares(o)
    PROVE  /\ Types' /\ \A x \in Owners \ {o} : job'[x] = job[x] /\ failed'[x] = failed[x]
           /\ \/ failed' = failed /\ At(o, "rotate")'
                 /\ job'[o].preparation = job[o].preparation
              \/ job'[o] = Idle /\ failed'[o].preparation = job[o].preparation
  <1>1. job[o].preparation \in Preparations /\ job[o].member \in Members
    BY JobParts DEF Types, WrapShares
  <1> DEFINE others == job[o].others
  <1> DEFINE j == [at |-> "rotate", member |-> job[o].member,
                   preparation |-> job[o].preparation,
                   versions |-> [m \in others |-> Current(m)]]
  <1>2. CASE Goes(o, j) /\ UNCHANGED failed
    <2>1. JobShape(j)
      BY <1>1, JobsMade
    <2>2. JobTypes' /\ job'[o] = j /\ \A x \in Owners \ {o} : job'[x] = job[x]
      BY <1>2, <2>1, JobGoes DEF Types
    <2>3. At(o, "rotate")' /\ job'[o].preparation = job[o].preparation
      BY <2>2 DEF At
    <2> QED BY <1>2, <2>2, <2>3 DEF WrapShares, Types, ServerTypes, OwnerTypes, MemberTypes,
          server, members, ghosts
  <1>3. CASE Fails(o)
    <2>1. /\ JobTypes' /\ job'[o] = Idle /\ \A x \in Owners \ {o} : job'[x] = job[x]
          /\ failed' \in [Owners -> [member: Members, preparation: Preparations] \cup {None}]
          /\ failed'[o].preparation = job[o].preparation
          /\ \A x \in Owners \ {o} : failed'[x] = failed[x]
      BY <1>3, FailsTyped DEF WrapShares
    <2> QED BY <2>1 DEF WrapShares, Types, ServerTypes, OwnerTypes, MemberTypes,
          server, members, ghosts
  <1> QED BY <1>2, <1>3 DEF WrapShares

LEMMA FailingTyped ==
    ASSUME Types, SharingAssumption, NEW o \in Owners, RotationRefused(o) \/ AnswerLost(o)
    PROVE  /\ Types' /\ \A x \in Owners \ {o} : job'[x] = job[x] /\ failed'[x] = failed[x]
           /\ job'[o] = Idle /\ failed'[o].preparation = job[o].preparation
  <1>1. Fails(o) /\ (At(o, "rotate") \/ At(o, "rotated"))
    BY DEF RotationRefused, AnswerLost
  <1>2. UNCHANGED <<server, view, trusted, made, members, behind, ghosts>>
    BY DEF RotationRefused, AnswerLost
  <1>3. /\ JobTypes' /\ job'[o] = Idle /\ \A x \in Owners \ {o} : job'[x] = job[x]
        /\ failed' \in [Owners -> [member: Members, preparation: Preparations] \cup {None}]
        /\ failed'[o].preparation = job[o].preparation
        /\ \A x \in Owners \ {o} : failed'[x] = failed[x]
    BY <1>1, FailsTyped
  <1> QED BY <1>2, <1>3 DEF Types, ServerTypes, OwnerTypes, MemberTypes,
        server, members, ghosts

(* What the transaction of a rotation finds, and what it leaves. *)
LEMMA RotateTyped ==
    ASSUME Types, SharingAssumption, NEW o \in Owners, Rotate(o)
    PROVE  /\ Types' /\ \A x \in Owners \ {o} : job'[x] = job[x]
           /\ job[o].preparation \in Preparations /\ job[o].member \in Members
           /\ At(o, "rotated")' /\ job'[o].preparation = job[o].preparation
  <1> DEFINE p == job[o].preparation
  <1>1. p \in Preparations /\ job[o].member \in Members
    BY JobParts DEF Types, Rotate
  <1>2. p.root = note.root /\ p.epoch - 1 = note.epoch
    BY <1>1 DEF Rotate, Unmoved, Preparations, Types, ServerTypes, Notes, SharingAssumption
  <1>3. note' \in Notes
    BY <1>1, <1>2 DEF Rotate, Preparations, Notes, Types, ServerTypes
  <1>4. links' \in SUBSET Links
    <2>1. [source |-> p.epoch - 1, target |-> p.epoch, holds |-> p.old, under |-> p.key] \in Links
      BY <1>1, <1>2 DEF Preparations, Links, Types, ServerTypes, Notes
    <2> QED BY <2>1 DEF Rotate, Types, ServerTypes
  <1>5. share' \in [Members -> Seals \cup {None}]
    <2>1. \A m \in DOMAIN job[o].versions : job[o].versions[m] \in published[m] /\ m \in Members
      BY DEF Rotate, SameMembers, Active
    <2>2. \A m \in DOMAIN job[o].versions : job[o].versions[m] \in 1..MaxSharingKeys
      BY <2>1 DEF Types, ServerTypes
    <2>3. share' = Shares(o)
      BY DEF Rotate
    <2>4. \A m \in DOMAIN job[o].versions :
             [key |-> p.key, epoch |-> p.epoch, version |-> job[o].versions[m]] \in Seals
      BY <1>1, <2>2 DEF Preparations, Seals
    <2> QED BY <2>3, <2>4 DEF Shares, Types, ServerTypes
  <1>6. status' \in [Members -> {"none", "active", "revoked"}]
    BY DEF Rotate, Types, ServerTypes
  <1>7. known' \in [Members -> SUBSET Keys]
    BY <1>1 DEF Rotate, Preparations, Types, MemberTypes
  <1>8. behind' \in SUBSET Members /\ late' \in SUBSET Members
    BY DEF Rotate, Active, Types, MemberTypes
  <1> DEFINE j == [at |-> "rotated", member |-> job[o].member, preparation |-> p]
  <1>9. JobTypes' /\ job'[o] = j /\ \A x \in Owners \ {o} : job'[x] = job[x]
    <2>1. JobShape(j)
      BY <1>1, JobsMade
    <2>2. Goes(o, j)
      BY DEF Rotate
    <2> QED BY <2>1, <2>2, JobGoes DEF Types
  <1>10. At(o, "rotated")' /\ job'[o].preparation = p
    BY <1>9 DEF At
  <1>11. ServerTypes'
    BY <1>3, <1>4, <1>5, <1>6 DEF Rotate, Types, ServerTypes
  <1>12. OwnerTypes' /\ MemberTypes'
    BY <1>7, <1>8 DEF Rotate, Types, OwnerTypes, MemberTypes, members
  <1> QED BY <1>1, <1>9, <1>10, <1>11, <1>12 DEF Types

LEMMA AnsweredTyped ==
    ASSUME Types, SharingAssumption, NEW o \in Owners, RotationAnswered(o)
    PROVE  /\ Types' /\ \A x \in Owners \ {o} :
                 job'[x] = job[x] /\ failed'[x] = failed[x] /\ view'[x] = view[x]
           /\ job[o].preparation \in Preparations
           /\ job'[o] = Idle /\ failed'[o] = None
           /\ view'[o] = [epoch |-> job[o].preparation.epoch,
                          root |-> job[o].preparation.root + 1,
                          key |-> job[o].preparation.key, title |-> view[o].title]
  <1> DEFINE p == job[o].preparation
  <1>1. p \in Preparations
    BY JobParts DEF Types, RotationAnswered
  <1>2. JobTypes' /\ job'[o] = Idle /\ \A x \in Owners \ {o} : job'[x] = job[x]
    <2>1. JobShape(Idle) /\ Goes(o, Idle)
      BY DEF JobShape, RotationAnswered
    <2> QED BY <2>1, JobGoes DEF Types
  <1>3. [epoch |-> p.epoch, root |-> p.root + 1, key |-> p.key, title |-> view[o].title] \in Views
    BY <1>1 DEF Preparations, Views, Types, OwnerTypes
  <1>4. /\ view' \in [Owners -> Views]
        /\ view'[o] = [epoch |-> p.epoch, root |-> p.root + 1, key |-> p.key, title |-> view[o].title]
        /\ \A x \in Owners \ {o} : view'[x] = view[x]
    BY <1>3 DEF RotationAnswered, Types, OwnerTypes
  <1>5. /\ failed' \in [Owners -> [member: Members, preparation: Preparations] \cup {None}]
        /\ failed'[o] = None /\ \A x \in Owners \ {o} : failed'[x] = failed[x]
    BY DEF RotationAnswered, Types, OwnerTypes
  <1> QED BY <1>1, <1>2, <1>4, <1>5 DEF RotationAnswered, Types, ServerTypes, OwnerTypes,
        MemberTypes, server, members, ghosts

LEMMA RenewTyped ==
    ASSUME Types, SharingAssumption, NEW m \in Members, RotateSharingKey(m)
    PROVE  Types'
  <1>1. Current(m) + 1 \in 1..MaxSharingKeys
    BY CurrentTyped DEF Types, RotateSharingKey, SharingAssumption
  <1>2. published' \in [Members -> (SUBSET (1..MaxSharingKeys)) \ {{}}]
    BY <1>1 DEF RotateSharingKey, Types, ServerTypes
  <1> QED BY <1>2 DEF RotateSharingKey, Types, ServerTypes, JobTypes, OwnerTypes, MemberTypes,
        owners, members, ghosts

LEMMA CleanupTyped ==
    ASSUME Types, SharingAssumption, NEW m \in Members, CleanupSharingKeys(m)
    PROVE  Types'
  <1>1. Current(m) \in published[m] /\ Current(m) \in 1..MaxSharingKeys
    BY CurrentTyped DEF Types
  <1>2. Current(m) \notin Retired(m)
    BY <1>1 DEF Retired, SharingAssumption
  <1>3. published' \in [Members -> (SUBSET (1..MaxSharingKeys)) \ {{}}]
    BY <1>1, <1>2 DEF CleanupSharingKeys, Types, ServerTypes
  <1> QED BY <1>3 DEF CleanupSharingKeys, Types, ServerTypes, JobTypes, OwnerTypes, MemberTypes,
        owners, members, ghosts

LEMMA SummaryTyped ==
    ASSUME Types, NEW m \in Members, LoadSummary(m)
    PROVE  Types'
  <1>1. [epoch |-> note.epoch, key |-> note.titleKey] \in [epoch: 1..MaxEpoch, key: Keys]
    BY DEF Types, ServerTypes, Notes
  <1>2. /\ loading' \in [Members -> [epoch: 1..MaxEpoch, key: Keys] \cup {None}]
        /\ opened' \in [Members -> Keys \cup {None}]
    BY <1>1 DEF LoadSummary, Types, MemberTypes
  <1>3. behind' \in SUBSET Members
    BY DEF LoadSummary, Types, MemberTypes
  <1> QED BY <1>2, <1>3 DEF LoadSummary, Types, ServerTypes, JobTypes, OwnerTypes, MemberTypes,
        server, owners, ghosts

LEMMA OpenTyped ==
    ASSUME Types, NEW m \in Members, OpenShare(m)
    PROVE  Types'
  <1>1. Opens(share[m], m, loading[m]) => share[m].key \in Keys
    BY DEF Opens, Types, ServerTypes, Seals
  <1>2. opened' \in [Members -> Keys \cup {None}]
    BY <1>1 DEF OpenShare, Types, MemberTypes
  <1>3. behind' \in SUBSET Members
    BY DEF OpenShare, Types, MemberTypes
  <1>4. loading' \in [Members -> [epoch: 1..MaxEpoch, key: Keys] \cup {None}]
    BY DEF OpenShare, Types, MemberTypes
  <1> QED BY <1>2, <1>3, <1>4 DEF OpenShare, Types, ServerTypes, JobTypes, OwnerTypes,
        MemberTypes, server, owners, ghosts

-----------------------------------------------------------------------------
(* What a step has to show. *)

LEMMA RestKept ==
    ASSUME Types, Types', Rest, server' = server, known' = known, late' = late, made' >= made
    PROVE  Rest'
  <1>1. /\ note' = note /\ links' = links /\ status' = status /\ share' = share
        /\ published' = published
    BY DEF server
  <1>2. KeysMade'
    <2>1. note.key \in Nat /\ \A m \in Members : \A k \in known[m] : k \in Nat
      BY DEF Types, ServerTypes, MemberTypes, Notes, Keys
    <2>2. made \in Nat /\ made' \in Nat
      BY DEF Types, OwnerTypes
    <2> QED BY <1>1, <2>1, <2>2 DEF Rest, KeysMade
  <1> QED BY <1>1, <1>2 DEF Rest, LinksOK, MembersCanRead, RevokedCannotRead, Active

LEMMA UsedMade ==
    ASSUME Types, OwnersOK, KeysMade, NEW k, IsUsed(k)
    PROVE  k <= made
  <1>1. ASSUME NEW o \in Owners, At(o, "confirm") \/ At(o, "invite"), k = job[o].seal.key
        PROVE  k <= made
    BY <1>1 DEF OwnersOK, OwnerOK, SealFits
  <1>2. ASSUME NEW o \in Owners, At(o, "rotated"), k = job[o].preparation.key
        PROVE  k <= made
    BY <1>2 DEF OwnersOK, OwnerOK, RotatedFits
  <1>3. ASSUME NEW o \in Owners, k = view[o].key
        PROVE  k <= made
    BY <1>3 DEF OwnersOK, OwnerOK, ViewFits
  <1> QED BY <1>1, <1>2, <1>3 DEF IsUsed, KeysMade

LEMMA QuietWhen ==
    ASSUME NEW o \in Owners, note' = note, made' >= made,
           \A m \in Members : \A k \in known'[m] : k \in known[m] \/ IsUsed(k),
           \A x \in Owners \ {o} : view'[x] = view[x] /\ job'[x] = job[x],
           IsUsed(view'[o].key),
           At(o, "confirm")' \/ At(o, "invite")' => IsUsed(job'[o].seal.key),
           At(o, "rotated")' => IsUsed(job'[o].preparation.key)
    PROVE  Quiet
  <1>1. ASSUME NEW k, IsUsed(k)' PROVE IsUsed(k)
    <2>1. CASE \E m \in Members : k \in known'[m]
      BY <2>1 DEF IsUsed
    <2>2. ASSUME NEW x \in Owners,
                 \/ k = view'[x].key
                 \/ (At(x, "confirm")' \/ At(x, "invite")') /\ k = job'[x].seal.key
                 \/ At(x, "rotated")' /\ k = job'[x].preparation.key
          PROVE  IsUsed(k)
      <3>1. CASE x = o
        BY <2>2, <3>1
      <3>2. CASE x # o
        BY <2>2, <3>2 DEF IsUsed, At
      <3> QED BY <3>1, <3>2
    <2> QED BY <1>1, <2>1, <2>2 DEF IsUsed
  <1> QED BY <1>1 DEF Quiet

(* What a device works with is in use. *)
LEMMA OwnUsed ==
    ASSUME NEW o \in Owners
    PROVE  /\ IsUsed(view[o].key) /\ IsUsed(note.key)
           /\ At(o, "confirm") \/ At(o, "invite") => IsUsed(job[o].seal.key)
           /\ At(o, "rotated") => IsUsed(job[o].preparation.key)
  BY DEF IsUsed

LEMMA OwnersKept ==
    ASSUME Types, Types', Quiet \/ Moved, OwnersOK, NEW o \in Owners, OwnerOK(o)',
           \A x \in Owners \ {o} :
               view'[x] = view[x] /\ job'[x] = job[x] /\ failed'[x] = failed[x]
    PROVE  OwnersOK'
  <1>1. ASSUME NEW x \in Owners, x # o PROVE OwnerOK(x)'
    BY <1>1, OthersOK DEF OwnersOK
  <1> QED BY <1>1 DEF OwnersOK

(* A preparation made now is fit for the note. *)
LEMMA PreparedFits ==
    ASSUME Types, Types', SharingAssumption, OwnersOK, KeysMade, Quiet, made' = made + 1,
           NEW o \in Owners, NEW p \in Preparations, p = Prepared(o)
    PROVE  PreparationFits(p)' /\ p.root <= view[o].root
  <1>1. /\ note \in Notes /\ made \in Nat /\ view[o] \in Views
    BY DEF Types, ServerTypes, OwnerTypes
  <1>2. ViewFits(view[o])
    BY DEF OwnersOK, OwnerOK
  <1>3. ~IsUsed(p.key)'
    <2>1. p.key = made + 1
      BY DEF Prepared
    <2>2. ~(p.key <= made)
      BY <1>1, <2>1
    <2> QED BY <2>2, UsedMade DEF Quiet
  <1>4. /\ p.root = view[o].root /\ p.epoch = view[o].epoch + 1 /\ p.key = made + 1
        /\ p.old = view[o].key /\ p.title = view[o].title
    BY DEF Prepared
  <1>5. /\ p.root <= note.root /\ p.epoch <= note.epoch + 1 /\ p.key <= made'
        /\ p.root = note.root =>
             p.epoch = note.epoch + 1 /\ p.title = note.title /\ p.old = note.key
    BY <1>1, <1>2, <1>4 DEF ViewFits, Views, Notes
  <1>6. p.root <= view[o].root
    BY <1>1, <1>4 DEF Views
  <1> QED BY <1>3, <1>5, <1>6 DEF PreparationFits, Quiet

-----------------------------------------------------------------------------
(* The steps of a device that leave the note as it is. *)

LEMMA LoadFits ==
    ASSUME Types, Types', SharingAssumption, OwnersOK, KeysMade, NEW o \in Owners, Load(o),
           note' = note, known' = known, made' = made, job' = job,
           failed'[o] = failed[o] \/ failed'[o] = None
    PROVE  Quiet /\ OwnerOK(o)' /\ \A x \in Owners \ {o} : view'[x] = view[x]
  <1>1. /\ view' \in [Owners -> Views]
        /\ view'[o].root = note.root /\ view'[o].epoch = note.epoch
        /\ view'[o].key = note.key /\ view'[o].title = note.title
    BY LoadTyped
  <1>2. \A x \in Owners \ {o} : view'[x] = view[x]
    BY DEF Load, Types, OwnerTypes
  <1>3. note \in Notes /\ made \in Nat
    BY DEF Types, ServerTypes, OwnerTypes
  <1>4. Quiet
    <2>1. made' >= made
      BY <1>3
    <2> QED BY <1>1, <1>2, <2>1, OwnUsed, QuietWhen DEF At
  <1>5. ViewFits(view[o])'
    BY <1>1, <1>3 DEF ViewFits, KeysMade, Notes
  <1>6. OwnerOK(o)
    BY DEF OwnersOK
  <1>7. At(o, "confirm")' \/ At(o, "invite")' => SealFits(job[o].seal)'
    BY <1>4, <1>6, JobParts, FitsKept DEF OwnerOK, Types, At
  <1>8. At(o, "wrap")' \/ At(o, "rotate")' =>
           PreparationFits(job[o].preparation)' /\ job'[o].preparation.root <= view'[o].root
    <2>1. ASSUME At(o, "wrap") \/ At(o, "rotate")
          PROVE  PreparationFits(job[o].preparation)' /\ job[o].preparation.root <= note.root
      <3>1. job[o].preparation \in Preparations /\ PreparationFits(job[o].preparation)
        BY <1>6, <2>1, JobParts DEF OwnerOK, Types
      <3> QED BY <1>4, <3>1, FitsKept DEF PreparationFits
    <2> QED BY <1>1, <2>1 DEF At
  <1>9. At(o, "rotated")' => RotatedFits(job[o].preparation, view[o])'
    <2>1. ASSUME At(o, "rotated") PROVE RotatedFits(job[o].preparation, view[o])'
      <3>1. RotatedFits(job[o].preparation, view[o])
        BY <1>6, <2>1 DEF OwnerOK
      <3> QED BY <1>1, <3>1 DEF RotatedFits
    <2> QED BY <2>1 DEF At
  <1>10. failed'[o] # None => PreparationFits(failed[o].preparation)'
    BY <1>4, <1>6, FailedTyped, FitsKept DEF OwnerOK
  <1> QED BY <1>2, <1>4, <1>5, <1>7, <1>8, <1>9, <1>10 DEF OwnerOK

LEMMA ReloadKeeps ==
    ASSUME IInv, SharingAssumption, NEW o \in Owners, Reload(o)
    PROVE  IInv'
  <1>1. Types'
    BY ReloadTyped DEF IInv
  <1>2. /\ note' = note /\ known' = known /\ late' = late /\ made' = made /\ job' = job
        /\ failed' = failed /\ server' = server
    BY DEF Reload, server, ghosts
  <1>3. Quiet /\ OwnerOK(o)' /\ \A x \in Owners \ {o} : view'[x] = view[x]
    BY <1>1, <1>2, LoadFits DEF Reload, IInv, Rest
  <1>4. OwnersOK'
    BY <1>1, <1>2, <1>3, OwnersKept DEF IInv
  <1>5. Rest'
    BY <1>1, <1>2, <1>3, RestKept DEF IInv, Quiet
  <1> QED BY <1>1, <1>4, <1>5 DEF IInv

(* A device that only gives its job up, or seals the key it shows. *)
LEMMA SealingKeeps ==
    ASSUME IInv, Types', SharingAssumption, NEW o \in Owners,
           \/ job'[o] = Idle
           \/ \E m \in Members, v \in 1..MaxSharingKeys, at \in {"confirm", "invite"} :
               job'[o] = [at |-> at, member |-> m, seal |-> Sealed(o, v)],
           \A x \in Owners \ {o} : job'[x] = job[x],
           server' = server, UNCHANGED <<view, failed, made, known, late>>
    PROVE  IInv'
  <1>1. made' >= made /\ note' = note
    BY DEF IInv, Types, OwnerTypes, server
  <1>2. /\ At(o, "confirm")' \/ At(o, "invite")' =>
              job'[o].seal.key = view[o].key /\ job'[o].seal.epoch = view[o].epoch
        /\ ~At(o, "wrap")' /\ ~At(o, "rotate")' /\ ~At(o, "rotated")'
    <2>1. CASE job'[o] = Idle
      BY <2>1 DEF At, Idle
    <2>2. ASSUME NEW m \in Members, NEW v \in 1..MaxSharingKeys, NEW at \in {"confirm", "invite"},
                 job'[o] = [at |-> at, member |-> m, seal |-> Sealed(o, v)]
          PROVE  /\ job'[o].seal.key = view[o].key /\ job'[o].seal.epoch = view[o].epoch
                 /\ ~At(o, "wrap")' /\ ~At(o, "rotate")' /\ ~At(o, "rotated")'
      <3>1. job'[o].at = at /\ job'[o].seal = Sealed(o, v)
        BY <2>2
      <3>2. Sealed(o, v).key = view[o].key /\ Sealed(o, v).epoch = view[o].epoch
        BY DEF Sealed
      <3> QED BY <3>1, <3>2 DEF At
    <2> QED BY <2>1, <2>2
  <1>3. Quiet
    BY <1>1, <1>2, OwnUsed, QuietWhen
  <1>4. OwnerOK(o)
    BY DEF IInv, OwnersOK
  <1>5. ViewFits(view[o])' /\ (failed'[o] # None => PreparationFits(failed[o].preparation)')
    <2>1. view[o] \in Views
      BY DEF IInv, Types, OwnerTypes
    <2> QED BY <1>3, <1>4, <2>1, FailedTyped, FitsKept DEF OwnerOK, IInv
  <1>6. At(o, "confirm")' \/ At(o, "invite")' => SealFits(job[o].seal)'
    BY <1>1, <1>2, <1>4 DEF SealFits, OwnerOK, ViewFits
  <1>7. OwnerOK(o)'
    BY <1>2, <1>5, <1>6 DEF OwnerOK
  <1>8. OwnersOK'
    BY <1>3, <1>7, OwnersKept DEF IInv
  <1>9. Rest'
    BY <1>1, RestKept DEF IInv
  <1> QED BY <1>8, <1>9 DEF IInv

LEMMA SubmitKeeps ==
    ASSUME IInv, SharingAssumption, NEW o \in Owners, NEW m \in Members, SubmitInvite(o, m)
    PROVE  IInv'
  <1>1. server' = server /\ UNCHANGED <<view, failed, made, known, late>>
    BY DEF SubmitInvite, ghosts
  <1> QED BY <1>1, SubmitTyped, SealingKeeps DEF IInv

LEMMA ConfirmKeeps ==
    ASSUME IInv, SharingAssumption, NEW o \in Owners, ConfirmTrust(o) \/ CancelTrust(o)
    PROVE  IInv'
  <1>1. server' = server /\ UNCHANGED <<view, failed, made, known, late>>
    BY DEF ConfirmTrust, CancelTrust, ghosts
  <1>2. /\ Types' /\ \A x \in Owners \ {o} : job'[x] = job[x]
        /\ \/ job'[o] = Idle
           \/ \E n \in Members, v \in 1..MaxSharingKeys, at \in {"confirm", "invite"} :
                 job'[o] = [at |-> at, member |-> n, seal |-> Sealed(o, v)]
    <2>1. CASE ConfirmTrust(o)
      <3>1. job[o].member \in Members
        BY <2>1, JobParts DEF ConfirmTrust, IInv, Types
      <3> QED BY <2>1, <3>1, ConfirmTyped DEF IInv
    <2>2. CASE CancelTrust(o)
      BY <2>2, CancelTyped DEF IInv
    <2> QED BY <2>1, <2>2
  <1> QED BY <1>1, <1>2, SealingKeeps

LEMMA InviteKeeps ==
    ASSUME IInv, SharingAssumption, NEW o \in Owners, Invite(o)
    PROVE  IInv'
  <1> DEFINE n == job[o].member
  <1> DEFINE s == job[o].seal
  <1>1. /\ Types' /\ job'[o] = Idle /\ \A x \in Owners \ {o} : job'[x] = job[x]
        /\ n \in Members /\ s \in Seals
    BY InviteTyped DEF IInv
  <1>2. UNCHANGED <<note, links, published, view, failed, made>> /\ made' >= made
    BY DEF Invite, IInv, Types, OwnerTypes
  <1>3. SealFits(s) /\ IsUsed(s.key)
    BY OwnUsed DEF Invite, IInv, OwnersOK, OwnerOK
  <1>4. \/ UNCHANGED <<status, share, known, late>>
        \/ /\ s.version \in published[n]
           /\ status' = [status EXCEPT ![n] = "active"]
           /\ share' = [share EXCEPT ![n] = s]
           /\ known' = [known EXCEPT ![n] = @ \cup {s.key}]
           /\ late' = IF s.epoch = note.epoch THEN late \ {n} ELSE late \cup {n}
    BY DEF Invite, ghosts
  <1>5. \A m \in Members : \A k \in known'[m] : k \in known[m] \/ k = s.key
    BY <1>1, <1>4 DEF IInv, Types, MemberTypes
  <1>6. Quiet
    <2>1. \A m \in Members : \A k \in known'[m] : k \in known[m] \/ IsUsed(k)
      BY <1>3, <1>5
    <2>2. ~At(o, "confirm")' /\ ~At(o, "invite")' /\ ~At(o, "rotated")'
      BY <1>1 DEF At, Idle
    <2> QED BY <1>1, <1>2, <2>1, <2>2, OwnUsed, QuietWhen
  <1>7. OwnerOK(o)'
    <2>1. OwnerOK(o) /\ view[o] \in Views
      BY DEF IInv, OwnersOK, Types, OwnerTypes
    <2>2. ViewFits(view[o])' /\ (failed'[o] # None => PreparationFits(failed[o].preparation)')
      BY <1>1, <1>2, <1>6, <2>1, FailedTyped, FitsKept DEF OwnerOK, IInv
    <2> QED BY <1>1, <2>2 DEF OwnerOK, At, Idle
  <1>8. OwnersOK'
    BY <1>1, <1>2, <1>6, <1>7, OwnersKept DEF IInv
  <1>9. KeysMade' /\ LinksOK'
    BY <1>2, <1>3, <1>5 DEF IInv, Rest, KeysMade, LinksOK, SealFits
  <1>10. MembersCanRead'
    <2>1. CASE UNCHANGED <<status, share, known, late>>
      BY <1>2, <2>1 DEF IInv, Rest, MembersCanRead, Active
    <2>2. CASE ~UNCHANGED <<status, share, known, late>>
      <3>1. ASSUME NEW m \in Members, status'[m] = "active"
            PROVE  /\ share'[m] # None /\ share'[m].version \in published[m]
                   /\ m \in late' \/ (share'[m].key = note.key /\ share'[m].epoch = note.epoch)
        <4>1. CASE m = n
          <5>1. share'[m] = s /\ s.version \in published[n]
            BY <1>4, <2>2, <4>1 DEF IInv, Types, ServerTypes
          <5>2. s # None
            BY <1>1, NoneAssumption DEF Seals, Keys
          <5>3. s.epoch = note.epoch => s.key = note.key
            BY <1>3 DEF SealFits
          <5>4. s.epoch # note.epoch => m \in late'
            BY <1>4, <2>2, <4>1
          <5> QED BY <4>1, <5>1, <5>2, <5>3, <5>4
        <4>2. CASE m # n
          <5>1. status[m] = "active" /\ share'[m] = share[m] /\ (m \in late => m \in late')
            BY <1>4, <2>2, <3>1, <4>2 DEF IInv, Types, ServerTypes
          <5> QED BY <5>1 DEF IInv, Rest, MembersCanRead, Active
        <4> QED BY <4>1, <4>2
      <3> QED BY <1>2, <3>1 DEF MembersCanRead, Active
    <2> QED BY <2>1, <2>2
  <1>11. RevokedCannotRead'
    <2>1. ASSUME NEW m \in Members, status'[m] = "revoked"
          PROVE  share'[m] = None /\ note.key \notin known'[m]
      <3>1. status[m] = "revoked" /\ share'[m] = share[m] /\ known'[m] = known[m]
        BY <1>1, <1>4, <2>1 DEF IInv, Types, ServerTypes, MemberTypes
      <3> QED BY <3>1 DEF IInv, Rest, RevokedCannotRead
    <2> QED BY <1>2, <2>1 DEF RevokedCannotRead
  <1> QED BY <1>1, <1>8, <1>9, <1>10, <1>11 DEF IInv, Rest

(* A device that begins to revoke, with a preparation that fits.           *)
LEMMA RevokingKeeps ==
    ASSUME IInv, Types', SharingAssumption, NEW o \in Owners, NEW m \in Members,
           NEW p \in Preparations, job'[o] = Revoking(o, m, p),
           \A x \in Owners \ {o} : job'[x] = job[x],
           server' = server, UNCHANGED <<view, failed, known, late>>,
           \/ p = Prepared(o) /\ made' = made + 1
           \/ PreparationFits(p) /\ p.root <= view[o].root /\ made' = made
    PROVE  IInv'
  <1>1. made' >= made /\ note' = note
    BY DEF IInv, Types, OwnerTypes, server
  <1>2. /\ At(o, "wrap")' /\ job'[o].preparation = p
        /\ ~At(o, "confirm")' /\ ~At(o, "invite")' /\ ~At(o, "rotate")' /\ ~At(o, "rotated")'
    BY DEF Revoking, At
  <1>3. Quiet
    BY <1>1, <1>2, OwnUsed, QuietWhen
  <1>4. PreparationFits(p)' /\ p.root <= view[o].root
    BY <1>3, PreparedFits, FitsKept DEF IInv, Rest
  <1>5. ViewFits(view[o])' /\ (failed'[o] # None => PreparationFits(failed[o].preparation)')
    <2>1. view[o] \in Views /\ OwnerOK(o)
      BY DEF IInv, Types, OwnerTypes, OwnersOK
    <2> QED BY <1>3, <2>1, FailedTyped, FitsKept DEF OwnerOK, IInv
  <1>6. OwnerOK(o)'
    BY <1>2, <1>4, <1>5 DEF OwnerOK
  <1>7. OwnersOK'
    BY <1>3, <1>6, OwnersKept DEF IInv
  <1>8. Rest'
    BY <1>1, RestKept DEF IInv
  <1> QED BY <1>7, <1>8 DEF IInv

LEMMA RevokeKeeps ==
    ASSUME IInv, SharingAssumption, NEW o \in Owners, NEW m \in Members, Revoke(o, m)
    PROVE  IInv'
  <1>1. server' = server /\ UNCHANGED <<view, failed, known, late>> /\ made' = made + 1
    BY DEF Revoke, ghosts
  <1> QED BY <1>1, RevokeTyped, RevokingKeeps DEF IInv

LEMMA RetryKeeps ==
    ASSUME IInv, SharingAssumption, NEW o \in Owners, Retry(o)
    PROVE  IInv'
  <1>1. server' = server /\ note' = note /\ UNCHANGED <<known, late>>
    BY DEF Retry, server, ghosts
  <1>2. /\ Types' /\ \A x \in Owners \ {o} : job'[x] = job[x] /\ failed'[x] = failed[x]
        /\ failed[o] # None /\ failed[o].member \in Members
    BY RetryTyped, FailedTyped DEF IInv
  <1>3. CASE Load(o) /\ failed'[o] = None /\ job' = job /\ made' = made
    <2>1. Quiet /\ OwnerOK(o)' /\ \A x \in Owners \ {o} : view'[x] = view[x]
      BY <1>1, <1>2, <1>3, LoadFits DEF IInv, Rest
    <2>2. OwnersOK'
      BY <1>2, <1>3, <2>1, OwnersKept DEF IInv
    <2>3. Rest'
      BY <1>1, <1>2, <2>1, RestKept DEF IInv, Quiet
    <2> QED BY <1>2, <2>2, <2>3 DEF IInv
  <1>4. ASSUME UNCHANGED <<view, failed, made>>, Matches(o, failed[o].preparation),
               job'[o] = Revoking(o, failed[o].member, failed[o].preparation),
               failed[o].preparation \in Preparations
        PROVE  IInv'
    <2>1. PreparationFits(failed[o].preparation)
      BY <1>2 DEF IInv, OwnersOK, OwnerOK
    <2>2. failed[o].preparation.root <= view[o].root
      BY <1>4 DEF Matches, Preparations
    <2> QED BY <1>1, <1>2, <1>4, <2>1, <2>2, RevokingKeeps
  <1>5. ASSUME UNCHANGED <<view, failed>>, made' = made + 1,
               job'[o] = Revoking(o, failed[o].member, Prepared(o)),
               Prepared(o) \in Preparations
        PROVE  IInv'
    BY <1>1, <1>2, <1>5, RevokingKeeps
  <1> QED BY <1>3, <1>4, <1>5, RetryTyped DEF IInv

(* A device that goes on with its preparation, or keeps it as a failure.   *)
LEMMA PreparationKeeps ==
    ASSUME IInv, Types', SharingAssumption, NEW o \in Owners,
           At(o, "wrap") \/ At(o, "rotate"),
           \/ failed' = failed /\ At(o, "rotate")' /\ job'[o].preparation = job[o].preparation
           \/ job'[o] = Idle /\ failed'[o].preparation = job[o].preparation,
           \A x \in Owners \ {o} : job'[x] = job[x] /\ failed'[x] = failed[x],
           server' = server, UNCHANGED <<view, made, known, late>>
    PROVE  IInv'
  <1>1. made' >= made /\ note' = note
    BY DEF IInv, Types, OwnerTypes, server
  <1>2. ~At(o, "confirm")' /\ ~At(o, "invite")' /\ ~At(o, "wrap")' /\ ~At(o, "rotated")'
    BY DEF At, Idle
  <1>3. Quiet
    BY <1>1, <1>2, OwnUsed, QuietWhen
  <1>4. OwnerOK(o) /\ view[o] \in Views /\ job[o].preparation \in Preparations
    BY JobParts DEF IInv, OwnersOK, Types, OwnerTypes
  <1>5. /\ job[o].preparation.root <= view[o].root
        /\ ViewFits(view[o]) /\ PreparationFits(job[o].preparation)
        /\ failed[o] # None => PreparationFits(failed[o].preparation)
    BY <1>4 DEF OwnerOK
  <1>6. /\ \A v \in Views : ViewFits(v) => ViewFits(v)'
        /\ \A p \in Preparations : PreparationFits(p) => PreparationFits(p)'
    BY <1>3, FitsKept DEF IInv
  <1>7. ViewFits(view[o])'
    BY <1>4, <1>5, <1>6
  <1>8. failed'[o] # None => PreparationFits(failed[o].preparation)'
    BY <1>4, <1>5, <1>6, FailedTyped DEF IInv
  <1>9. At(o, "rotate")' =>
           PreparationFits(job[o].preparation)' /\ job'[o].preparation.root <= view'[o].root
    BY <1>4, <1>5, <1>6 DEF At, Idle
  <1>10. OwnerOK(o)'
    BY <1>2, <1>7, <1>8, <1>9 DEF OwnerOK
  <1>11. OwnersOK'
    BY <1>3, <1>10, OwnersKept DEF IInv
  <1>12. Rest'
    BY <1>1, RestKept DEF IInv
  <1> QED BY <1>11, <1>12 DEF IInv

LEMMA WrapKeeps ==
    ASSUME IInv, SharingAssumption, NEW o \in Owners, WrapShares(o)
    PROVE  IInv'
  <1>1. At(o, "wrap") /\ server' = server /\ UNCHANGED <<view, made, known, late>>
    BY DEF WrapShares, ghosts
  <1> QED BY <1>1, WrapTyped, PreparationKeeps DEF IInv

LEMMA RefusedKeeps ==
    ASSUME IInv, SharingAssumption, NEW o \in Owners, RotationRefused(o)
    PROVE  IInv'
  <1>1. At(o, "rotate") /\ server' = server /\ UNCHANGED <<view, made, known, late>>
    BY DEF RotationRefused, ghosts
  <1> QED BY <1>1, FailingTyped, PreparationKeeps DEF IInv

(* The answer is lost after the rotation: the note is past what was        *)
(* prepared, and the failure that is kept will not be used again.          *)
LEMMA LostKeeps ==
    ASSUME IInv, SharingAssumption, NEW o \in Owners, AnswerLost(o)
    PROVE  IInv'
  <1> DEFINE p == job[o].preparation
  <1>1. /\ At(o, "rotated") /\ server' = server /\ UNCHANGED <<view, made, known, late>>
    BY DEF AnswerLost, ghosts
  <1>2. /\ Types' /\ job'[o] = Idle /\ failed'[o].preparation = p
        /\ \A x \in Owners \ {o} : job'[x] = job[x] /\ failed'[x] = failed[x]
    BY FailingTyped DEF IInv
  <1>3. made' >= made /\ note' = note
    BY <1>1 DEF IInv, Types, OwnerTypes, server
  <1>4. Quiet
    <2>1. ~At(o, "confirm")' /\ ~At(o, "invite")' /\ ~At(o, "rotated")'
      BY <1>2 DEF At, Idle
    <2> QED BY <1>1, <1>2, <1>3, <2>1, OwnUsed, QuietWhen
  <1>5. OwnerOK(o) /\ view[o] \in Views /\ p \in Preparations /\ note \in Notes
    BY <1>1, JobParts DEF IInv, OwnersOK, Types, OwnerTypes, ServerTypes
  <1>6. ViewFits(view[o])'
    BY <1>2, <1>4, <1>5, FitsKept, <1>1 DEF IInv, OwnerOK
  <1>7. PreparationFits(failed[o].preparation)'
    <2>1. RotatedFits(p, view[o])
      BY <1>1, <1>5 DEF OwnerOK
    <2>2. p.root <= note.root /\ p.root # note.root /\ p.epoch <= note.epoch + 1 /\ p.key <= made
      BY <1>5, <2>1 DEF RotatedFits, Preparations, Notes
    <2> QED BY <1>1, <1>2, <1>3, <2>2 DEF PreparationFits
  <1>8. OwnerOK(o)'
    BY <1>2, <1>6, <1>7 DEF OwnerOK, At, Idle
  <1>9. OwnersOK'
    BY <1>1, <1>2, <1>4, <1>8, OwnersKept DEF IInv
  <1>10. Rest'
    BY <1>1, <1>2, <1>3, RestKept DEF IInv
  <1> QED BY <1>2, <1>9, <1>10 DEF IInv

LEMMA AnsweredKeeps ==
    ASSUME IInv, SharingAssumption, NEW o \in Owners, RotationAnswered(o)
    PROVE  IInv'
  <1> DEFINE p == job[o].preparation
  <1>1. /\ At(o, "rotated") /\ server' = server /\ UNCHANGED <<made, known, late>>
    BY DEF RotationAnswered, ghosts
  <1>2. /\ Types' /\ p \in Preparations /\ job'[o] = Idle /\ failed'[o] = None
        /\ \A x \in Owners \ {o} :
              job'[x] = job[x] /\ failed'[x] = failed[x] /\ view'[x] = view[x]
        /\ view'[o] = [epoch |-> p.epoch, root |-> p.root + 1, key |-> p.key,
                       title |-> view[o].title]
    BY AnsweredTyped DEF IInv
  <1>3. made' >= made /\ note' = note
    BY <1>1 DEF IInv, Types, OwnerTypes, server
  <1>4. Quiet
    <2>1. ~At(o, "confirm")' /\ ~At(o, "invite")' /\ ~At(o, "rotated")'
      BY <1>2 DEF At, Idle
    <2>2. IsUsed(view'[o].key)
      BY <1>1, <1>2, OwnUsed
    <2> QED BY <1>1, <1>2, <1>3, <2>1, <2>2, QuietWhen
  <1>5. RotatedFits(p, view[o])
    BY <1>1 DEF IInv, OwnersOK, OwnerOK
  <1>6. ViewFits(view[o])'
    BY <1>1, <1>2, <1>3, <1>5 DEF RotatedFits, ViewFits
  <1>7. OwnerOK(o)'
    BY <1>2, <1>6 DEF OwnerOK, At, Idle
  <1>8. OwnersOK'
    BY <1>2, <1>4, <1>7, OwnersKept DEF IInv
  <1>9. Rest'
    BY <1>1, <1>2, <1>3, RestKept DEF IInv
  <1> QED BY <1>2, <1>8, <1>9 DEF IInv

-----------------------------------------------------------------------------
(* The steps that move the note on. *)

LEMMA SaveTitleKeeps ==
    ASSUME IInv, SharingAssumption, NEW o \in Owners, SaveTitle(o)
    PROVE  IInv'
  <1>1. Types'
    BY SaveTitleTyped DEF IInv
  <1>2. /\ UNCHANGED <<links, status, share, published, job, failed, made, known, late>>
        /\ note' = [epoch |-> note.epoch, root |-> note.root + 1, key |-> note.key,
                    titleKey |-> view[o].key, title |-> note.title + 1]
        /\ view[o].root = note.root /\ view[o].epoch = note.epoch
    BY DEF SaveTitle, Taken, ghosts
  <1>3. note \in Notes /\ made \in Nat /\ view[o] \in Views
    BY DEF IInv, Types, ServerTypes, OwnerTypes
  <1>4. /\ view'[o] = [epoch |-> note.epoch, root |-> note.root + 1,
                       key |-> view[o].key, title |-> note.title + 1]
        /\ \A x \in Owners \ {o} : view'[x] = view[x]
    BY DEF SaveTitle, IInv, Types, OwnerTypes
  <1>5. Moved
    BY <1>2, <1>3 DEF Moved, Notes
  <1>6. OwnerOK(o) /\ view[o].key = note.key
    BY <1>2 DEF IInv, OwnersOK, OwnerOK, ViewFits
  <1>7. ViewFits(view[o])'
    BY <1>2, <1>3, <1>4, <1>6 DEF ViewFits, Notes, IInv, Rest, KeysMade
  <1>8. /\ At(o, "confirm") \/ At(o, "invite") => SealFits(job[o].seal)'
        /\ At(o, "wrap") \/ At(o, "rotate") =>
              PreparationFits(job[o].preparation)' /\ job[o].preparation.root <= view'[o].root
        /\ failed[o] # None => PreparationFits(failed[o].preparation)'
    <2>1. At(o, "confirm") \/ At(o, "invite") => SealFits(job[o].seal)'
      BY <1>1, <1>2, <1>5, <1>6, JobParts, FitsKept DEF OwnerOK, IInv, Types
    <2>2. ASSUME At(o, "wrap") \/ At(o, "rotate")
          PROVE  PreparationFits(job[o].preparation)' /\ job[o].preparation.root <= view'[o].root
      <3>1. job[o].preparation \in Preparations /\ PreparationFits(job[o].preparation)
        BY <1>6, <2>2, JobParts DEF OwnerOK, IInv, Types
      <3>2. job[o].preparation.root <= note.root + 1
        BY <1>3, <3>1 DEF PreparationFits, Preparations, Notes
      <3> QED BY <1>1, <1>2, <1>4, <1>5, <3>1, <3>2, FitsKept DEF IInv
    <2>3. failed[o] # None => PreparationFits(failed[o].preparation)'
      BY <1>1, <1>2, <1>5, <1>6, FailedTyped, FitsKept DEF OwnerOK, IInv
    <2> QED BY <2>1, <2>2, <2>3
  <1>9. At(o, "rotated") => RotatedFits(job[o].preparation, view[o])'
    <2>1. ASSUME At(o, "rotated") PROVE RotatedFits(job[o].preparation, view[o])'
      <3>1. job[o].preparation \in Preparations /\ RotatedFits(job[o].preparation, view[o])
        BY <1>6, <2>1, JobParts DEF OwnerOK, IInv, Types
      <3> QED BY <1>2, <1>3, <1>4, <3>1 DEF RotatedFits, Preparations, Notes
    <2> QED BY <2>1
  <1>10. OwnerOK(o)'
    BY <1>2, <1>7, <1>8, <1>9 DEF OwnerOK, At
  <1>11. OwnersOK'
    BY <1>1, <1>2, <1>4, <1>5, <1>10, OwnersKept DEF IInv
  <1>12. note'.epoch = note.epoch /\ note'.key = note.key /\ note'.titleKey = note'.key
    BY <1>2, <1>6
  <1>13. Rest'
    BY <1>2, <1>12 DEF IInv, Rest, KeysMade, LinksOK, MembersCanRead, RevokedCannotRead, Active
  <1> QED BY <1>1, <1>11, <1>13 DEF IInv

(* The server took the preparation, so that the note was still as it had   *)
(* been prepared for.                                                      *)
LEMMA RotateFinds ==
    ASSUME IInv, SharingAssumption, NEW o \in Owners, Rotate(o),
           NEW p, p = job[o].preparation
    PROVE  /\ p \in Preparations /\ p.root = note.root /\ p.epoch = note.epoch + 1
           /\ p.title = note.title /\ p.old = note.key /\ p.key <= made /\ ~IsUsed(p.key)
           /\ view[o].title = note.title
  <1>1. p \in Preparations /\ note \in Notes /\ view[o] \in Views
    BY JobParts DEF Rotate, IInv, Types, ServerTypes, OwnerTypes
  <1>2. p.root = note.root /\ p.epoch = note.epoch + 1
    BY <1>1 DEF Rotate, Unmoved, Preparations, Notes, SharingAssumption
  <1>3. PreparationFits(p) /\ p.root <= view[o].root /\ ViewFits(view[o])
    BY DEF Rotate, IInv, OwnersOK, OwnerOK
  <1>4. view[o].root = note.root
    BY <1>1, <1>2, <1>3 DEF ViewFits, Views, Notes
  <1> QED BY <1>1, <1>2, <1>3, <1>4 DEF PreparationFits, ViewFits

LEMMA RotateOwners ==
    ASSUME IInv, Types', SharingAssumption, NEW o \in Owners, Rotate(o)
    PROVE  OwnersOK' /\ KeysMade'
  <1> DEFINE p == job[o].preparation
  <1>1. /\ p \in Preparations /\ p.root = note.root /\ p.epoch = note.epoch + 1
        /\ p.title = note.title /\ p.key <= made /\ view[o].title = note.title
    BY RotateFinds
  <1>2. /\ note' = [epoch |-> p.epoch, root |-> note.root + 1, key |-> p.key,
                    titleKey |-> p.key, title |-> p.title]
        /\ UNCHANGED <<view, failed, made>>
        /\ \A m \in Members : \A k \in known'[m] : k \in known[m] \/ k = p.key
    BY DEF Rotate
  <1>3. /\ At(o, "rotated")' /\ job'[o].preparation = p
        /\ \A x \in Owners \ {o} : job'[x] = job[x]
    BY RotateTyped DEF IInv
  <1>4. note \in Notes /\ made \in Nat /\ view[o] \in Views
    BY DEF IInv, Types, ServerTypes, OwnerTypes
  <1>5. Moved
    BY <1>1, <1>2, <1>4 DEF Moved, Notes
  <1>6. ViewFits(view[o])' /\ (failed'[o] # None => PreparationFits(failed[o].preparation)')
    <2>1. ViewFits(view[o]) /\ (failed[o] # None => PreparationFits(failed[o].preparation))
      BY DEF IInv, OwnersOK, OwnerOK
    <2> QED BY <1>2, <1>4, <1>5, <2>1, FailedTyped, FitsKept DEF IInv
  <1>7. RotatedFits(job[o].preparation, view[o])'
    BY <1>1, <1>2, <1>3, <1>4 DEF RotatedFits, Preparations, Notes
  <1>8. OwnerOK(o)'
    BY <1>3, <1>6, <1>7 DEF OwnerOK, At
  <1>9. OwnersOK'
    BY <1>2, <1>3, <1>5, <1>8, OwnersKept DEF IInv
  <1>10. KeysMade'
    BY <1>1, <1>2 DEF IInv, Rest, KeysMade
  <1> QED BY <1>9, <1>10

LEMMA RotateLinks ==
    ASSUME IInv, SharingAssumption, NEW o \in Owners, Rotate(o)
    PROVE  LinksOK'
  <1> DEFINE p == job[o].preparation
  <1> DEFINE L == [source |-> p.epoch - 1, target |-> p.epoch, holds |-> p.old, under |-> p.key]
  <1>1. /\ p \in Preparations /\ p.epoch = note.epoch + 1 /\ p.old = note.key
    BY RotateFinds
  <1>2. /\ note'.epoch = p.epoch /\ note'.key = p.key /\ note'.titleKey = p.key
        /\ links' = links \cup {L}
    BY DEF Rotate
  <1>3. note.epoch \in Nat /\ note.epoch >= 1
    BY DEF IInv, Types, ServerTypes, Notes
  <1>4. L.source = note.epoch /\ L.target = note.epoch + 1 /\ L.holds = note.key /\ L.under = p.key
    BY <1>1, <1>3
  <1>5. /\ \A l \in links : l.source \in Nat /\ l.source < note.epoch /\ l.target = l.source + 1
        /\ IsFiniteSet(links) /\ Cardinality(links) = note.epoch - 1
    BY DEF IInv, Rest, LinksOK, Types, ServerTypes, Links
  <1>6. L \notin links
    BY <1>3, <1>4, <1>5
  <1>7. IsFiniteSet(links') /\ Cardinality(links') = note'.epoch - 1
    <2>1. IsFiniteSet(links') /\ Cardinality(links') = Cardinality(links) + 1
      BY <1>2, <1>5, <1>6, FS_AddElement
    <2> QED BY <1>1, <1>2, <1>3, <1>5, <2>1
  <1>8. \A l \in links' : l.source < note'.epoch /\ l.target = l.source + 1
    BY <1>1, <1>2, <1>3, <1>4, <1>5
  <1>9. \A l1, l2 \in links' : l1.source = l2.source => l1 = l2
    <2>1. \A l1, l2 \in links : l1.source = l2.source => l1 = l2
      BY DEF IInv, Rest, LinksOK
    <2> QED BY <1>2, <1>3, <1>4, <1>5, <2>1
  <1>10. ASSUME NEW e \in 1..(note'.epoch - 1)
         PROVE  \E l \in links' :
                   /\ l.source = e
                   /\ e + 1 = note'.epoch => l.under = note'.key
                   /\ \A k \in links' : k.source = e + 1 => l.under = k.holds
    <2>1. CASE e = note.epoch
      <3>1. \A k \in links' : k.source # e + 1
        BY <1>2, <1>3, <1>4, <1>5, <2>1
      <3> QED BY <1>2, <1>4, <2>1, <3>1
    <2>2. CASE e # note.epoch
      <3>1. e \in 1..(note.epoch - 1)
        BY <1>1, <1>2, <1>3, <2>2
      <3>2. PICK l \in links : /\ l.source = e
                               /\ e + 1 = note.epoch => l.under = note.key
                               /\ \A k \in links : k.source = e + 1 => l.under = k.holds
        BY <3>1 DEF IInv, Rest, LinksOK
      <3>3. e + 1 # note'.epoch
        BY <1>1, <1>2, <1>3, <3>1
      <3>4. ASSUME NEW k \in links', k.source = e + 1 PROVE l.under = k.holds
        BY <1>2, <1>4, <3>2, <3>4
      <3> QED BY <1>2, <3>2, <3>3, <3>4
    <2> QED BY <2>1, <2>2
  <1> QED BY <1>2, <1>7, <1>8, <1>9, <1>10 DEF LinksOK

LEMMA RotateMembers ==
    ASSUME IInv, Types', SharingAssumption, NEW o \in Owners, Rotate(o)
    PROVE  MembersCanRead' /\ RevokedCannotRead'
  <1> DEFINE p == job[o].preparation
  <1> DEFINE n == job[o].member
  <1> DEFINE sealed == job[o].versions
  <1>1. p \in Preparations /\ ~IsUsed(p.key)
    BY RotateFinds
  <1>2. /\ note'.epoch = p.epoch /\ note'.key = p.key /\ published' = published
        /\ status' = [status EXCEPT ![n] = "revoked"]
        /\ share' = Shares(o) /\ late' = {}
        /\ known' = [m \in Members |-> IF m \in DOMAIN sealed THEN known[m] \cup {p.key}
                                       ELSE known[m]]
    BY DEF Rotate
  <1>3. /\ DOMAIN sealed = Active \ {n} /\ status[n] = "active"
        /\ \A m \in DOMAIN sealed : sealed[m] \in published[m]
    BY DEF Rotate, SameMembers
  <1>4. status \in [Members -> {"none", "active", "revoked"}] /\ n \in Members
    BY JobParts DEF Rotate, IInv, Types, ServerTypes
  <1>5. ASSUME NEW m \in Members, status'[m] = "active"
        PROVE  /\ share'[m] # None /\ share'[m].version \in published[m]
               /\ share'[m].key = p.key /\ share'[m].epoch = p.epoch
    <2>1. m \in DOMAIN sealed
      BY <1>2, <1>3, <1>4, <1>5 DEF Active
    <2>2. share'[m] = [key |-> p.key, epoch |-> p.epoch, version |-> sealed[m]]
      BY <1>2, <2>1 DEF Shares
    <2>3. sealed[m] \in 1..MaxSharingKeys
      BY <1>3, <2>1 DEF IInv, Types, ServerTypes
    <2>4. share'[m] # None
      BY <1>1, <2>2, <2>3, NoneAssumption DEF Preparations, Keys
    <2> QED BY <1>3, <2>1, <2>2, <2>4
  <1>6. MembersCanRead'
    BY <1>2, <1>5 DEF MembersCanRead, Active
  <1>7. ASSUME NEW m \in Members, status'[m] = "revoked"
        PROVE  share'[m] = None /\ p.key \notin known'[m]
    <2>1. m \notin DOMAIN sealed
      BY <1>2, <1>3, <1>4, <1>7 DEF Active
    <2>2. p.key \notin known'[m]
      BY <1>1, <1>2, <2>1 DEF IsUsed
    <2>3. share'[m] = IF m = n THEN None ELSE share[m]
      BY <1>2, <2>1 DEF Shares
    <2>4. m # n => share[m] = None
      BY <1>2, <1>4, <1>7 DEF IInv, Rest, RevokedCannotRead
    <2> QED BY <2>2, <2>3, <2>4
  <1>8. RevokedCannotRead'
    BY <1>2, <1>7 DEF RevokedCannotRead
  <1> QED BY <1>6, <1>8

LEMMA RotateKeeps ==
    ASSUME IInv, SharingAssumption, NEW o \in Owners, Rotate(o)
    PROVE  IInv'
  <1>1. Types'
    BY RotateTyped DEF IInv
  <1> QED BY <1>1, RotateOwners, RotateLinks, RotateMembers DEF IInv, Rest

-----------------------------------------------------------------------------
(* The steps of a member. *)

LEMMA OwnersUndisturbed ==
    ASSUME OwnersOK, owners' = owners, note' = note, known' = known
    PROVE  OwnersOK'
  BY DEF OwnersOK, OwnerOK, ViewFits, SealFits, PreparationFits, RotatedFits, IsUsed, At, owners

LEMMA SharingKeysKeep ==
    ASSUME IInv, SharingAssumption, NEW n \in Members,
           RotateSharingKey(n) \/ CleanupSharingKeys(n)
    PROVE  IInv'
  <1>1. Types'
    BY RenewTyped, CleanupTyped DEF IInv
  <1>2. UNCHANGED <<note, links, status, share, owners, known, late>>
    BY DEF RotateSharingKey, CleanupSharingKeys, ghosts
  <1>3. OwnersOK'
    BY <1>2, OwnersUndisturbed DEF IInv
  <1>4. KeysMade' /\ LinksOK' /\ RevokedCannotRead'
    BY <1>2 DEF IInv, Rest, KeysMade, LinksOK, RevokedCannotRead, owners
  <1>5. ASSUME NEW m \in Members, share[m] # None, share[m].version \in published[m]
        PROVE  share[m].version \in published'[m]
    BY <1>5 DEF RotateSharingKey, CleanupSharingKeys, Retired, IInv, Types, ServerTypes
  <1>6. MembersCanRead'
    BY <1>2, <1>5 DEF IInv, Rest, MembersCanRead, Active
  <1> QED BY <1>1, <1>3, <1>4, <1>6 DEF IInv, Rest

LEMMA LoadingKeeps ==
    ASSUME IInv, SharingAssumption, NEW m \in Members, LoadSummary(m) \/ OpenShare(m)
    PROVE  IInv'
  <1>1. Types'
    BY SummaryTyped, OpenTyped DEF IInv
  <1>2. server' = server /\ note' = note /\ UNCHANGED <<owners, known, late>>
    BY DEF LoadSummary, OpenShare, server, ghosts
  <1>3. made' >= made
    BY <1>2 DEF IInv, Types, OwnerTypes, owners
  <1> QED BY <1>1, <1>2, <1>3, OwnersUndisturbed, RestKept DEF IInv

-----------------------------------------------------------------------------

LEMMA InitOK == SharingAssumption /\ Init => IInv
  <1> SUFFICES ASSUME SharingAssumption, Init PROVE IInv
    OBVIOUS
  <1>1. 1 \in 1..MaxEpoch /\ 1 \in 1..MaxSharingKeys /\ 0 \in Keys /\ 0 \in 0..MaxTitles
    BY DEF SharingAssumption, Keys
  <1>2. ServerTypes
    BY <1>1 DEF Init, ServerTypes, Notes, Seals, Links
  <1>3. JobTypes
    BY DEF Init, JobTypes, JobShape
  <1>4. OwnerTypes
    BY <1>1 DEF Init, OwnerTypes, Views, SharingAssumption, Keys
  <1>5. MemberTypes
    BY <1>1 DEF Init, MemberTypes
  <1>6. OwnersOK
    BY DEF Init, OwnersOK, OwnerOK, ViewFits, At, Idle
  <1>7. KeysMade
    BY DEF Init, KeysMade
  <1>8. LinksOK
    BY FS_EmptySet DEF Init, LinksOK
  <1>9. MembersCanRead
    <2>1. ASSUME NEW m \in Members, status[m] = "active"
          PROVE  m \in Invited /\ share[m] = [key |-> 0, epoch |-> 1, version |-> 1]
      BY <2>1 DEF Init
    <2>2. [key |-> 0, epoch |-> 1, version |-> 1] # None
      BY <1>1, NoneAssumption DEF Keys
    <2> QED BY <2>1, <2>2 DEF Init, MembersCanRead, Active
  <1>10. RevokedCannotRead
    BY DEF Init, RevokedCannotRead
  <1> QED BY <1>2, <1>3, <1>4, <1>5, <1>6, <1>7, <1>8, <1>9, <1>10 DEF IInv, Types, Rest

LEMMA NextKeeps == SharingAssumption /\ IInv /\ [Next]_vars => IInv'
  <1> SUFFICES ASSUME SharingAssumption, IInv, [Next]_vars PROVE IInv'
    OBVIOUS
  <1>1. ASSUME NEW o \in Owners, OwnerNext(o) PROVE IInv'
    BY <1>1, ReloadKeeps, SaveTitleKeeps, SubmitKeeps, RevokeKeeps, ConfirmKeeps, InviteKeeps,
       RetryKeeps, WrapKeeps, RotateKeeps, RefusedKeeps, AnsweredKeeps, LostKeeps DEF OwnerNext
  <1>2. ASSUME NEW m \in Members, MemberNext(m) PROVE IInv'
    BY <1>2, SharingKeysKeep, LoadingKeeps DEF MemberNext
  <1>3. ASSUME UNCHANGED vars PROVE IInv'
    <2>1. /\ UNCHANGED <<server, owners, members, behind, ghosts>>
          /\ note' = note /\ known' = known /\ late' = late /\ made' = made
      BY <1>3 DEF vars, server, owners, ghosts
    <2>2. Types'
      BY <2>1 DEF IInv, Types, ServerTypes, JobTypes, OwnerTypes, MemberTypes,
            server, owners, members, ghosts
    <2>3. made' >= made
      BY <2>1 DEF IInv, Types, OwnerTypes
    <2> QED BY <2>1, <2>2, <2>3, OwnersUndisturbed, RestKept DEF IInv
  <1> QED BY <1>1, <1>2, <1>3 DEF Next

(* The inductive invariant holds in every reachable state of the sharing   *)
(* of a note.                                                              *)
THEOREM Invariance == Spec => []IInv
  BY InitOK, NextKeeps, SharingAssumption, PTL DEF Spec

(* Whatever titles are saved and keys rotated by however many devices,     *)
(* every epoch has one key, and each key leads to the key before it        *)
(* (postgresRotationRepository.ts, lib/keyMaterial.ts).                    *)
THEOREM KeysLinked == Spec => []OneKeyPerEpoch
  <1>1. ASSUME IInv PROVE OneKeyPerEpoch
    <2>1. TypeOK
      <3>1. \A o \in Owners : job[o].at \in {"idle", "confirm", "invite", "wrap", "rotate", "rotated"}
        BY <1>1, JobParts DEF IInv, Types
      <3> QED BY <1>1, <3>1 DEF IInv, Types, ServerTypes, OwnerTypes, MemberTypes, TypeOK,
            Notes, Links, Seals, Views
    <2>2. LinksOK
      BY <1>1 DEF IInv, Rest
    <2>3. note.epoch \in Nat
      BY <1>1 DEF IInv, Types, ServerTypes, Notes
    <2>4. ASSUME NEW e \in 1..(note.epoch - 1)
          PROVE  \E l \in links :
                   /\ l.source = e /\ l.target = e + 1
                   /\ l.under = IF e + 1 = note.epoch THEN note.key
                                ELSE (CHOOSE k \in links : k.source = e + 1).holds
      <3>1. PICK l \in links : /\ l.source = e
                               /\ e + 1 = note.epoch => l.under = note.key
                               /\ \A k \in links : k.source = e + 1 => l.under = k.holds
        BY <2>2 DEF LinksOK
      <3>2. l.target = e + 1
        BY <2>2, <3>1 DEF LinksOK
      <3>3. e + 1 # note.epoch => \E k \in links : k.source = e + 1
        <4>1. ASSUME e + 1 # note.epoch PROVE e + 1 \in 1..(note.epoch - 1)
          BY <2>3, <4>1
        <4> QED BY <2>2, <4>1 DEF LinksOK
      <3> QED BY <3>1, <3>2, <3>3
    <2> QED BY <2>1, <2>2, <2>4 DEF OneKeyPerEpoch, LinksOK
  <1> QED BY <1>1, Invariance, PTL

(* However invitations, renewals of sharing keys, revocations and retries  *)
(* overlap, the present key reaches who may read and nobody who was        *)
(* revoked (postgresMembershipRepository.ts, postgresRotationRepository.ts,*)
(* SharingPanel.tsx).                                                      *)
THEOREM KeysReachMembers == Spec => []OnlyMembersRead
  <1>1. IInv => OnlyMembersRead
    BY DEF IInv, Rest, OnlyMembersRead
  <1> QED BY <1>1, Invariance, PTL

(* No rotation, however late or often repeated, brings an earlier title    *)
(* back (lib/keyMaterial.ts, postgresRotationRepository.ts).               *)
THEOREM NoTitleLost == Spec => TitlesKept
  <1>1. ASSUME SharingAssumption, IInv, Next PROVE note'.title >= note.title
    <2>1. note.title \in Nat
      BY <1>1 DEF IInv, Types, ServerTypes, Notes
    <2>2. ASSUME NEW o \in Owners, OwnerNext(o) PROVE note'.title >= note.title
      <3>1. CASE SaveTitle(o)
        BY <2>1, <3>1 DEF SaveTitle
      <3>2. CASE Rotate(o)
        <4>1. job[o].preparation.title = note.title
          BY <1>1, <3>2, RotateFinds
        <4> QED BY <2>1, <3>2, <4>1 DEF Rotate
      <3>3. CASE note' = note
        BY <2>1, <3>3
      <3> QED BY <2>2, <3>1, <3>2, <3>3 DEF OwnerNext, Reload, SubmitInvite, Revoke,
            ConfirmTrust, CancelTrust, Invite, Retry, WrapShares, RotationRefused,
            RotationAnswered, AnswerLost, server
    <2>3. ASSUME NEW m \in Members, MemberNext(m) PROVE note'.title >= note.title
      BY <2>1, <2>3 DEF MemberNext, RotateSharingKey, CleanupSharingKeys, LoadSummary,
            OpenShare, server
    <2> QED BY <1>1, <2>2, <2>3 DEF Next
  <1>2. SharingAssumption /\ IInv /\ [Next]_vars => [note'.title >= note.title]_vars
    BY <1>1
  <1> QED BY <1>2, Invariance, SharingAssumption, PTL DEF Spec, TitlesKept
=============================================================================
