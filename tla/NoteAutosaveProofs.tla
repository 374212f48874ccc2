------------------------- MODULE NoteAutosaveProofs -------------------------
(***************************************************************************)
(* That a client's saves overwrite nobody's change unseen, and that no     *)
(* wish of its user is dropped silently.  The first is about versions: a   *)
(* version of others that the list has come to know of is one it has       *)
(* shown, and the client's own saves extend only versions it knew of.  The *)
(* second is about the save under way: while it alone keeps a wish, its    *)
(* copy holds the wish and the note on the list is still the one copied,   *)
(* so that none of the early returns that drop a save can be taken.        *)
(***************************************************************************)
EXTENDS NoteAutosave, SequenceTheorems, WellFoundedInduction, TLAPS

(* A function on some of the notes. *)
IsMap(f, S) == DOMAIN f \subseteq Notes /\ f \in [DOMAIN f -> S]

Actions == [kind : Kinds, note : Notes, previous : Places]
Saves(D) == [note : Notes, stage : Stages, copy : Entries, drafts : D]
States == {"none", "asked", "answered"}

IsLoad(o) ==
  /\ o \in [state : States, initial : SUBSET Notes, answer : {o.answer}]
  /\ IsMap(o.answer, Entries)

Types ==
  /\ folders \subseteq Folders
  /\ IsMap(row, Rows) /\ IsMap(list, Entries)
  /\ pending \in Seq(Notes) /\ timer \in BOOLEAN
  /\ save \in Saves({save.drafts}) /\ IsMap(save.drafts, Places)
  /\ issues \subseteq Notes
  /\ action \in Actions
  /\ loads = [k \in LoadKinds |-> loads[k]] /\ newest \in LoadKinds
  /\ \A k \in LoadKinds : IsLoad(loads[k])
  /\ wish \in [Notes -> Places \union {"settled"}]
  /\ disturbed \subseteq Notes
  /\ foreign \in [Notes -> Nat] /\ seen \in [Notes -> Nat]
  /\ edits \in 0..MaxEdits /\ elsewhere \in 0..MaxElsewhere
  /\ reloads \in 0..MaxReloads

(* What others saved last is in the row, which is created with version 1.  *)
RowsOK ==
  \A n \in Notes :
    IF n \in DOMAIN row
    THEN row[n].version >= 1 /\ foreign[n] <= row[n].version /\ foreign[n] # 1
    ELSE foreign[n] = 0

(* The client may know version v of the note n: the server has had it, and *)
(* what others saved up to it was shown.                                   *)
Known(n, v) ==
  n \in DOMAIN row /\ v <= row[n].version /\ (v >= foreign[n] => foreign[n] <= seen[n])

(* The version of the save under way, once it is stored.                   *)
SaveOK ==
  /\ save.stage \in {"encrypting", "sent"} => Known(save.note, save.copy.rootVersion)
  /\ save.stage = "saved" => Known(save.note, save.copy.rootVersion + 1)

AnswersOK ==
  \A k \in LoadKinds : \A n \in DOMAIN loads[k].answer :
    /\ n \in DOMAIN row
    /\ loads[k].answer[n].rootVersion = loads[k].answer[n].version
    /\ loads[k].answer[n].version <= row[n].version

VersionsOK ==
  /\ RowsOK /\ SaveOK /\ AnswersOK
  /\ \A n \in DOMAIN list : Known(n, list[n].rootVersion)
  /\ action.kind = "created" => action.note \in DOMAIN row

(* The queue and the save under way. *)
QueueOK ==
  /\ IsInjective(pending)
  /\ timer => pending # << >> /\ save = Idle
  /\ save.stage = "idle" => save = Idle /\ (pending = << >> \/ timer)
  /\ action.kind \in {"move", "trash"} => Awaited(action.note)
  /\ save.stage = "resolving" <=> loads["conflict"].state # "none"

(* The save under way will store the wish, or its end settles it.          *)
Carried(n) ==
  /\ save.note = n
  /\ save.stage \in {"encrypting", "sent", "refused", "failed", "resolving"}
  /\ save.stage # "resolving" => Current
  /\ save.stage \in {"encrypting", "sent"} => save.copy.folder = wish[n]

Drafted(n) == n \in DOMAIN save.drafts /\ save.drafts[n] = wish[n]

WishOK(n) ==
  /\ n \in DOMAIN list /\ list[n].folder = wish[n] /\ wish[n] # NoFolder
  /\ Contains(pending, n) \/ Carried(n)
  /\ save.stage = "resolving" /\ n # save.note => Drafted(n)

WishesOK ==
  ~Unfiles => \A n \in Notes \ disturbed : wish[n] # "settled" => WishOK(n)

IInv == Types /\ VersionsOK /\ QueueOK /\ WishesOK

-----------------------------------------------------------------------------
(* Queues. *)

LEMMA EmptyQueue ==
  << >> \in Seq(Notes) /\ IsInjective(<< >>) /\ \A n : ~Contains(<< >>, n)
  BY DEF IsInjective, Contains

LEMMA FirstTaken ==
  ASSUME NEW q \in Seq(Notes), q # << >>
  PROVE  /\ Head(q) \in Notes /\ Tail(q) \in Seq(Notes)
         /\ IsInjective(q) => IsInjective(Tail(q))
         /\ \A n : Contains(q, n) <=> n = Head(q) \/ Contains(Tail(q), n)
  <1>1. /\ Len(q) \in Nat /\ Len(q) >= 1 /\ Head(q) = q[1] /\ DOMAIN q = 1..Len(q)
        /\ \A i \in 1..Len(q) : q[i] \in Notes
    BY EmptySeq, LenProperties, ElementOfSeq, HeadTailProperties
  <1>2. /\ Tail(q) \in Seq(Notes) /\ Len(Tail(q)) = Len(q) - 1
        /\ \A i \in 1..(Len(q) - 1) : Tail(q)[i] = q[i + 1]
    BY <1>1, HeadTailProperties
  <1>3. DOMAIN Tail(q) = 1..(Len(q) - 1)
    BY <1>2, LenProperties
  <1>4. IsInjective(q) => IsInjective(Tail(q))
    <2> SUFFICES ASSUME IsInjective(q), NEW i \in 1..(Len(q) - 1),
                        NEW j \in 1..(Len(q) - 1), Tail(q)[i] = Tail(q)[j]
                 PROVE  i = j
      BY <1>3 DEF IsInjective
    <2>1. q[i + 1] = q[j + 1] /\ i + 1 \in DOMAIN q /\ j + 1 \in DOMAIN q
      BY <1>1, <1>2
    <2>2. i + 1 = j + 1
      BY <2>1 DEF IsInjective
    <2> QED BY <1>1, <2>2
  <1>5. ASSUME NEW n PROVE Contains(q, n) <=> n = Head(q) \/ Contains(Tail(q), n)
    <2>1. ASSUME NEW i \in 1..Len(q), q[i] = n, i # 1 PROVE Contains(Tail(q), n)
      <3>1. i - 1 \in 1..(Len(q) - 1) /\ (i - 1) + 1 = i
        BY <1>1, <2>1
      <3>2. Tail(q)[i - 1] = n
        BY <1>2, <2>1, <3>1
      <3> QED BY <1>2, <3>1, <3>2 DEF Contains
    <2>2. ASSUME NEW i \in 1..(Len(q) - 1), Tail(q)[i] = n PROVE Contains(q, n)
      BY <1>1, <1>2, <2>2 DEF Contains
    <2> QED BY <1>1, <1>2, <2>1, <2>2 DEF Contains
  <1> QED BY <1>1, <1>2, <1>4, <1>5

LEMMA LastAdded ==
  ASSUME NEW q \in Seq(Notes), NEW n \in Notes
  PROVE  LET a == IF Contains(q, n) THEN q ELSE Append(q, n) IN
         /\ a \in Seq(Notes) /\ a # << >> /\ (IsInjective(q) => IsInjective(a))
         /\ \A m : Contains(a, m) <=> m = n \/ Contains(q, m)
  <1>1. CASE Contains(q, n)
    BY <1>1, EmptyQueue
  <1>2. CASE ~Contains(q, n)
    <2> DEFINE a == Append(q, n)
    <2>1. Len(q) \in Nat /\ DOMAIN q = 1..Len(q)
      BY LenProperties
    <2>2. /\ a \in Seq(Notes) /\ Len(a) = Len(q) + 1 /\ a[Len(q) + 1] = n
          /\ \A i \in 1..Len(q) : a[i] = q[i]
      BY AppendProperties
    <2>3. DOMAIN a = 1..(Len(q) + 1) /\ a # << >>
      BY <2>1, <2>2, LenProperties, EmptySeq
    <2> HIDE DEF a
    <2>4. \A m : Contains(a, m) <=> m = n \/ Contains(q, m)
      <3>1. ASSUME NEW m, NEW i \in 1..(Len(q) + 1), a[i] = m, m # n
            PROVE  Contains(q, m)
        <4>1. i \in 1..Len(q)
          BY <2>1, <2>2, <3>1
        <4> QED BY <2>2, <3>1, <4>1 DEF Contains
      <3>2. ASSUME NEW m, NEW i \in 1..Len(q), q[i] = m PROVE Contains(a, m)
        <4>1. i \in 1..(Len(q) + 1) /\ a[i] = m
          BY <2>1, <2>2, <3>2
        <4> QED BY <2>2, <4>1 DEF Contains
      <3>3. Contains(a, n)
        <4>1. Len(q) + 1 \in 1..Len(a)
          BY <2>1, <2>2
        <4> QED BY <2>2, <4>1 DEF Contains
      <3> QED BY <2>2, <3>1, <3>2, <3>3 DEF Contains
    <2>5. IsInjective(q) => IsInjective(a)
      <3> SUFFICES ASSUME IsInjective(q), NEW i \in 1..(Len(q) + 1),
                          NEW j \in 1..(Len(q) + 1), a[i] = a[j]
                   PROVE  i = j
        BY <2>3 DEF IsInjective
      <3>1. \A k \in 1..Len(q) : a[k] # n
        BY <1>2, <2>2 DEF Contains
      <3>2. i = Len(q) + 1 \/ i \in 1..Len(q)
        BY <2>1
      <3>3. j = Len(q) + 1 \/ j \in 1..Len(q)
        BY <2>1
      <3>4. CASE i \in 1..Len(q) /\ j \in 1..Len(q)
        <4>1. q[i] = q[j]
          BY <2>2, <3>4
        <4> QED BY <2>1, <3>4, <4>1 DEF IsInjective
      <3> QED BY <2>2, <3>1, <3>2, <3>3, <3>4
    <2> QED BY <1>2, <2>2, <2>3, <2>4, <2>5 DEF a
  <1> QED BY <1>1, <1>2

(* A note that is removed was in the queue once: the first place found is  *)
(* where it is.                                                            *)
LEMMA FirstPlace ==
  ASSUME NEW q \in Seq(Notes), NEW n, Contains(q, n)
  PROVE  \E i \in 1..Len(q) : q[i] = n /\ RemoveFirst(q, n) = RemoveAt(q, i)
  <1> DEFINE I == {i \in 1..Len(q) : q[i] = n}
  <1>1. I # {} /\ I \subseteq Nat
    BY LenProperties DEF Contains
  <1>2. \E i \in I : \A j \in I : i <= j
    <2>1. PICK i \in I : \A j \in I : ~(<<j, i>> \in OpToRel(<, Nat))
      BY <1>1, NatLessThanWellFounded, WFMin
    <2>2. \A j \in I : ~(j < i)
      BY <1>1, <2>1 DEF OpToRel
    <2> QED BY <1>1, <2>2
  <1>3. SelectInSeq(q, LAMBDA v : v = n) \in I
    BY <1>1, <1>2 DEF SelectInSeq, Min
  <1>4. RemoveFirst(q, n) = RemoveAt(q, SelectInSeq(q, LAMBDA v : v = n))
    BY DEF RemoveFirst, Contains
  <1> QED BY <1>3, <1>4

LEMMA OneRemoved ==
  ASSUME NEW q \in Seq(Notes), NEW n, IsInjective(q)
  PROVE  /\ RemoveFirst(q, n) \in Seq(Notes) /\ IsInjective(RemoveFirst(q, n))
         /\ \A m : m # n /\ Contains(q, m) => Contains(RemoveFirst(q, n), m)
  <1>0. /\ Len(q) \in Nat /\ DOMAIN q = 1..Len(q)
        /\ \A j \in 1..Len(q) : q[j] \in Notes
    BY LenProperties, ElementOfSeq
  <1>1. CASE ~Contains(q, n)
    <2>1. RemoveFirst(q, n) = q
      BY <1>1 DEF RemoveFirst, Contains
    <2> QED BY <2>1
  <1>2. CASE Contains(q, n)
    <2>1. PICK i \in 1..Len(q) : q[i] = n /\ RemoveFirst(q, n) = RemoveAt(q, i)
      BY <1>2, FirstPlace
    <2> DEFINE a == SubSeq(q, 1, i - 1)
               b == SubSeq(q, i + 1, Len(q))
               l == a \o b
               at(j) == IF j < i THEN j ELSE j + 1
    <2>2. a \in Seq(Notes) /\ Len(a) = i - 1 /\ \A j \in 1..(i - 1) : a[j] = q[j]
      <3>1. 1 \in Int /\ i - 1 \in Int /\ \A j \in 1..(i - 1) : q[j] \in Notes
        BY <1>0
      <3>2. /\ a \in Seq(Notes) /\ Len(a) = IF 1 <= i - 1 THEN (i - 1) - 1 + 1 ELSE 0
            /\ \A j \in 1..((i - 1) - 1 + 1) : a[j] = q[1 + j - 1]
        BY <3>1, SubSeqProperties
      <3> HIDE DEF a
      <3> QED BY <3>2
    <2>3. /\ b \in Seq(Notes) /\ Len(b) = Len(q) - i
          /\ \A j \in 1..(Len(q) - i) : b[j] = q[i + j]
      <3>1. i + 1 \in Int /\ Len(q) \in Int /\ \A j \in (i + 1)..Len(q) : q[j] \in Notes
        BY <1>0
      <3>2. /\ b \in Seq(Notes)
            /\ Len(b) = IF i + 1 <= Len(q) THEN Len(q) - (i + 1) + 1 ELSE 0
            /\ \A j \in 1..(Len(q) - (i + 1) + 1) : b[j] = q[(i + 1) + j - 1]
        BY <3>1, SubSeqProperties
      <3> HIDE DEF b
      <3>3. Len(q) - (i + 1) + 1 = Len(q) - i /\ (i + 1 <= Len(q) \/ Len(q) - i = 0)
        <4>1. Len(q) \in Nat /\ i \in Nat /\ i <= Len(q)
          BY <1>0
        <4>2. \A m, k \in Nat : k <= m => m - (k + 1) + 1 = m - k /\ (k + 1 <= m \/ m - k = 0)
          OBVIOUS
        <4> QED BY <4>1, <4>2
      <3>4. ASSUME NEW j \in 1..(Len(q) - i) PROVE b[j] = q[i + j]
        <4>1. b[j] = q[(i + 1) + j - 1]
          BY <3>2, <3>3
        <4>2. (i + 1) + j - 1 = i + j
          BY <1>0
        <4> QED BY <4>1, <4>2
      <3>5. Len(b) = Len(q) - i
        BY <3>2, <3>3
      <3> QED BY <3>2, <3>4, <3>5
    <2> HIDE DEF a, b
    <2>4. l \in Seq(Notes) /\ Len(l) = Len(q) - 1
      <3>1. l \in Seq(Notes) /\ Len(l) = Len(a) + Len(b)
        BY <2>2, <2>3, ConcatProperties
      <3>2. Len(a) + Len(b) = Len(q) - 1
        BY <1>0, <2>2, <2>3
      <3> QED BY <3>1, <3>2
    <2>5. \A j \in 1..(Len(q) - 1) : l[j] = q[at(j)] /\ at(j) \in (1..Len(q)) \ {i}
      <3> TAKE j \in 1..(Len(q) - 1)
      <3>1. l[j] = IF j <= Len(a) THEN a[j] ELSE b[j - Len(a)]
        BY <1>0, <2>2, <2>3, ConcatProperties
      <3>2. CASE j < i
        BY <1>0, <2>2, <3>1, <3>2
      <3>3. CASE ~(j < i)
        <4>1. l[j] = b[j - (i - 1)] /\ j - (i - 1) \in 1..(Len(q) - i)
          BY <1>0, <2>2, <3>1, <3>3
        <4>2. l[j] = q[i + (j - (i - 1))] /\ i + (j - (i - 1)) = j + 1
          BY <1>0, <2>3, <4>1
        <4> QED BY <1>0, <3>3, <4>2
      <3> QED BY <3>2, <3>3
    <2>6. RemoveFirst(q, n) = l
      BY <2>1 DEF RemoveAt, a, b
    <2> HIDE DEF l
    <2>7. DOMAIN l = 1..(Len(q) - 1)
      BY <2>4, LenProperties
    <2>8. IsInjective(l)
      <3> SUFFICES ASSUME NEW j \in 1..(Len(q) - 1), NEW k \in 1..(Len(q) - 1),
                          l[j] = l[k]
                   PROVE  j = k
        BY <2>7 DEF IsInjective
      <3>1. /\ l[j] = q[at(j)] /\ at(j) \in (1..Len(q)) \ {i}
            /\ l[k] = q[at(k)] /\ at(k) \in (1..Len(q)) \ {i}
        BY <2>5
      <3>2. at(j) = at(k)
        <4> HIDE DEF at
        <4> QED BY <1>0, <3>1 DEF IsInjective
      <3> QED BY <1>0, <3>2
    <2>9. ASSUME NEW m, m # n, Contains(q, m) PROVE Contains(l, m)
      <3>1. PICK k \in 1..Len(q) : q[k] = m
        BY <2>9 DEF Contains
      <3> DEFINE j == IF k < i THEN k ELSE k - 1
      <3>2. k # i
        BY <2>1, <2>9, <3>1
      <3>3. j \in 1..(Len(q) - 1) /\ at(j) = k
        BY <1>0, <3>2
      <3>4. l[j] = m
        BY <2>5, <3>1, <3>3
      <3> HIDE DEF j
      <3> QED BY <2>4, <3>3, <3>4 DEF Contains
    <2> QED BY <2>4, <2>6, <2>8, <2>9
  <1> QED BY <1>1, <1>2

-----------------------------------------------------------------------------
(* What a flush does: it takes the first of the queue q and copies its     *)
(* entry of the list l.                                                    *)
LEMMA NoMap == ASSUME NEW S PROVE IsMap(<< >>, S)
  BY DEF IsMap

LEMMA NoNote == (CHOOSE n \in Notes : TRUE) \in Notes
  BY NotesAssumption

LEMMA NoEntryTyped == NoEntry \in Entries
  BY DEF NoEntry, Entries, Places

LEMMA IdleTyped ==
  /\ Idle \in Saves({Idle.drafts}) /\ IsMap(Idle.drafts, Places)
  /\ Idle.stage = "idle" /\ Idle.note \in Notes
  BY NoMap, NoNote, NoEntryTyped DEF Idle, Saves, Stages

LEMMA Flushed ==
  ASSUME NEW q \in Seq(Notes), IsInjective(q), NEW l, IsMap(l, Entries),
         NEW told, told \subseteq Notes, Flush(q, l, told)
  PROVE  /\ pending' \in Seq(Notes) /\ IsInjective(pending')
         /\ save' \in Saves({save'.drafts}) /\ IsMap(save'.drafts, Places)
         /\ issues' \subseteq Notes
         /\ save'.stage \in {"idle", "missing", "encrypting"}
         /\ save'.stage = "idle" => save' = Idle /\ pending' = << >>
         /\ save'.stage = "encrypting" => save'.note \in DOMAIN l /\ save'.copy = l[save'.note]
         /\ \A n : Contains(q, n) =>
              \/ Contains(pending', n)
              \/ /\ save'.note = n /\ save' # Idle
                 /\ n \in DOMAIN l => save'.stage = "encrypting"
  <1>1. CASE q = << >>
    BY <1>1, EmptyQueue, IdleTyped DEF Flush
  <1>2. CASE q # << >>
    <2> DEFINE n == Head(q)
               s == [note |-> n, drafts |-> << >>,
                     stage |-> IF n \in DOMAIN l THEN "encrypting" ELSE "missing",
                     copy |-> IF n \in DOMAIN l THEN l[n] ELSE NoEntry]
    <2>1. /\ pending' = Tail(q) /\ save' = s
          /\ issues' = IF n \in DOMAIN l THEN told \ {n} ELSE told
      BY <1>2 DEF Flush
    <2>2. /\ n \in Notes /\ Tail(q) \in Seq(Notes) /\ IsInjective(Tail(q))
          /\ \A m : Contains(q, m) <=> m = n \/ Contains(Tail(q), m)
      BY <1>2, FirstTaken
    <2>3. /\ s.note = n /\ s.drafts = << >>
          /\ s.stage = (IF n \in DOMAIN l THEN "encrypting" ELSE "missing")
          /\ s.copy = (IF n \in DOMAIN l THEN l[n] ELSE NoEntry)
          /\ s = [note |-> s.note, stage |-> s.stage, copy |-> s.copy, drafts |-> s.drafts]
      OBVIOUS
    <2> HIDE DEF s
    <2>4. s.copy \in Entries
      BY <2>3, NoEntryTyped DEF IsMap
    <2>5. s \in Saves({s.drafts}) /\ IsMap(s.drafts, Places)
      BY <2>2, <2>3, <2>4, NoMap DEF Saves, Stages
    <2>6. s # Idle
      BY <2>3, IdleTyped
    <2> HIDE DEF n
    <2> QED BY <2>1, <2>2, <2>3, <2>5, <2>6
  <1> QED BY <1>1, <1>2

-----------------------------------------------------------------------------
(* What steps that leave most of the state alone preserve. *)

LEMMA QueueSame ==
  ASSUME QueueOK, UNCHANGED <<pending, timer, save, action>>,
         loads'["conflict"].state = loads["conflict"].state
  PROVE  QueueOK'
  BY DEF QueueOK, Awaited

LEMMA WishSame ==
  ASSUME NEW n, WishOK(n), UNCHANGED <<pending, save>>, wish'[n] = wish[n],
         n \in DOMAIN list', list'[n].folder = list[n].folder,
         list'[n].version = list[n].version, list'[n].rootVersion = list[n].rootVersion
  PROVE  WishOK(n)'
  BY DEF WishOK, Carried, Current, Drafted

LEMMA WishesSame ==
  ASSUME WishesOK, UNCHANGED <<list, pending, save>>,
         \A n \in Notes : n \notin disturbed' /\ wish'[n] # "settled" =>
                           n \notin disturbed /\ wish'[n] = wish[n]
  PROVE  WishesOK'
  BY WishSame DEF WishesOK, WishOK

(* The server's rows only grow. *)
RowsGrow ==
  /\ DOMAIN row \subseteq DOMAIN row'
  /\ \A n \in DOMAIN row : row[n].version <= row'[n].version
  /\ \A n \in DOMAIN row : foreign'[n] = foreign[n] \/ foreign'[n] > row[n].version

(* Known(n, v) after the step. *)
KnownNext(n, v) ==
  n \in DOMAIN row' /\ v <= row'[n].version /\ (v >= foreign'[n] => foreign'[n] <= seen'[n])

LEMMA KnownStays ==
  ASSUME Types, Types', RowsGrow, UNCHANGED seen, NEW n, NEW v \in Nat, Known(n, v)
  PROVE  KnownNext(n, v)
  <1>1. /\ n \in Notes /\ row[n].version \in Nat /\ row'[n].version \in Nat
        /\ foreign[n] \in Nat /\ foreign'[n] \in Nat /\ seen[n] \in Nat
    BY DEF Types, IsMap, Rows, Known, RowsGrow
  <1> QED BY <1>1 DEF Known, KnownNext, RowsGrow

LEMMA VersionsSame ==
  ASSUME Types, Types', VersionsOK, RowsGrow, RowsOK', UNCHANGED <<list, loads, seen>>,
         SaveOK', action'.kind = "created" => action'.note \in DOMAIN row'
  PROVE  VersionsOK'
  <1>1. AnswersOK'
    <2> SUFFICES ASSUME NEW k \in LoadKinds, NEW n \in DOMAIN loads[k].answer
                 PROVE  /\ n \in DOMAIN row'
                        /\ loads[k].answer[n].rootVersion = loads[k].answer[n].version
                        /\ loads[k].answer[n].version <= row'[n].version
      BY DEF AnswersOK
    <2>1. /\ n \in DOMAIN row /\ loads[k].answer[n].version <= row[n].version
          /\ loads[k].answer[n].rootVersion = loads[k].answer[n].version
      BY DEF VersionsOK, AnswersOK
    <2>2. loads[k].answer[n].version \in Nat /\ row[n].version \in Nat /\ row'[n].version \in Nat
      BY <2>1 DEF Types, IsLoad, IsMap, Rows, Entries, RowsGrow
    <2> QED BY <2>1, <2>2 DEF RowsGrow
  <1>2. \A n \in DOMAIN list' : Known(n, list[n].rootVersion)'
    <2> SUFFICES ASSUME NEW n \in DOMAIN list PROVE KnownNext(n, list[n].rootVersion)
      BY DEF Known, KnownNext
    <2>1. list[n].rootVersion \in Nat /\ Known(n, list[n].rootVersion)
      BY DEF Types, IsMap, Entries, VersionsOK
    <2> QED BY <2>1, KnownStays
  <1> QED BY <1>1, <1>2 DEF VersionsOK

LEMMA SaveSame ==
  ASSUME Types, Types', VersionsOK, RowsGrow, UNCHANGED <<save, seen>>
  PROVE  SaveOK'
  <1>1. save.copy.rootVersion \in Nat /\ save.copy.rootVersion + 1 \in Nat
    BY DEF Types, Saves, Entries
  <1> QED BY <1>1, KnownStays DEF VersionsOK, SaveOK, Known, KnownNext

-----------------------------------------------------------------------------
(* Steps of others. *)

LEMMA RowSaved ==
  ASSUME NEW r \in Rows, NEW p \in Places
  PROVE  /\ [r EXCEPT !.folder = p, !.version = r.version + 1] \in Rows
         /\ [r EXCEPT !.folder = p, !.version = r.version + 1].version = r.version + 1
         /\ [r EXCEPT !.folder = p, !.version = r.version + 1].folder = p
  <1> DEFINE f == [r EXCEPT !.folder = p]
             v == [f EXCEPT !.version = r.version + 1]
  <1>1. f \in Rows /\ f.folder = p
    BY DEF Rows
  <1>2. r.version + 1 \in Nat
    BY DEF Rows
  <1> HIDE DEF f
  <1>3. v \in Rows /\ v.version = r.version + 1 /\ v.folder = p
    BY <1>1, <1>2 DEF Rows
  <1>4. [r EXCEPT !.folder = p, !.version = r.version + 1] = v
    BY DEF Rows, f
  <1> QED BY <1>3, <1>4

LEMMA SaveElsewhereOK ==
  ASSUME IInv, NEW n \in Notes, NEW p \in Folders, SaveElsewhere(n, p)
  PROVE  IInv'
  <1> USE DEF SaveElsewhere, loadVars, ghosts
  <1>1. /\ n \in DOMAIN row /\ row[n] \in Rows /\ DOMAIN row' = DOMAIN row
        /\ row'[n] = [row[n] EXCEPT !.folder = p, !.version = @ + 1]
        /\ \A m \in DOMAIN row : m # n => row'[m] = row[m]
    BY NotesAssumption DEF IInv, Types, IsMap, Stored, FolderAfter
  <1>2. row' \in [DOMAIN row -> Rows]
    <2>1. row'[n] \in Rows
      <3>1. p \in Places
        BY DEF Places
      <3>2. row'[n] = [row[n] EXCEPT !.folder = p, !.version = row[n].version + 1]
        BY <1>1
      <3>3. row[n] \in Rows
        BY <1>1
      <3> HIDE DEF SaveElsewhere
      <3>4. \A r \in Rows :
              [r EXCEPT !.folder = p, !.version = r.version + 1] \in Rows
        BY <3>1, RowSaved
      <3> QED BY <3>2, <3>3, <3>4, Zenon
    <2>2. row' \in [DOMAIN row -> {row'[m] : m \in DOMAIN row}]
      BY DEF Stored
    <2>3. \A m \in DOMAIN row : row'[m] \in Rows
      BY <1>1, <2>1 DEF IInv, Types, IsMap
    <2> QED BY <2>2, <2>3
  <1>3. Types'
    BY <1>1, <1>2, BoundsAssumption DEF IInv, Types, IsMap, ActsElsewhere, IsLoad, Rows
  <1>4. RowsGrow
    <2>1. \A m \in DOMAIN row : row[m].version \in Nat /\ row'[m].version \in Nat
      BY <1>1, <1>2 DEF IInv, Types, IsMap, Rows
    <2>2. row'[n].version = row[n].version + 1 /\ \A m \in DOMAIN row : m # n => row'[m] = row[m]
      BY <1>1 DEF Rows
    <2>3. \A m \in Notes : foreign'[m] = IF m = n THEN row[n].version + 1 ELSE foreign[m]
      BY DEF IInv, Types
    <2>4. \A m \in DOMAIN row : m \in Notes /\ row[m].version <= row'[m].version
      <3> SUFFICES ASSUME NEW m \in DOMAIN row
                   PROVE  m \in Notes /\ row[m].version <= row'[m].version
        OBVIOUS
      <3>1. m \in Notes
        BY DEF IInv, Types, IsMap
      <3> QED BY <2>1, <2>2, <3>1
    <2>5. \A m \in DOMAIN row : foreign'[m] = foreign[m] \/ foreign'[m] > row[m].version
      BY <2>1, <2>3, <2>4
    <2> QED BY <1>1, <2>4, <2>5 DEF RowsGrow
  <1>5. RowsOK'
    <2>1. \A m \in DOMAIN row : row[m].version \in Nat
      BY DEF IInv, Types, IsMap, Rows
    <2>2. row'[n].version = row[n].version + 1 /\ \A m \in DOMAIN row : m # n => row'[m] = row[m]
      BY <1>1 DEF Rows
    <2>3. \A m \in Notes : foreign'[m] = IF m = n THEN row[n].version + 1 ELSE foreign[m]
      BY DEF IInv, Types
    <2> QED BY <1>1, <2>1, <2>2, <2>3 DEF RowsOK, IInv, VersionsOK, Types
  <1>6. VersionsOK'
    BY <1>1, <1>3, <1>4, <1>5, VersionsSame, SaveSame DEF IInv, VersionsOK
  <1> QED BY <1>3, <1>6, QueueSame, WishesSame DEF IInv

LEMMA TrashElsewhereOK ==
  ASSUME IInv, NEW n \in Notes, TrashElsewhere(n)
  PROVE  IInv'
  <1> USE DEF TrashElsewhere, loadVars, ghosts
  <1>1. /\ n \in DOMAIN row /\ row[n] \in Rows /\ DOMAIN row' = DOMAIN row
        /\ row'[n] = [row[n] EXCEPT !.trashed = TRUE]
        /\ \A m \in DOMAIN row : m # n => row'[m] = row[m]
    BY DEF IInv, Types, IsMap
  <1>2. row' \in [DOMAIN row -> Rows]
    BY <1>1 DEF IInv, Types, IsMap, Rows
  <1>3. Types'
    BY <1>1, <1>2, BoundsAssumption DEF IInv, Types, IsMap, ActsElsewhere, IsLoad
  <1>4. \A m \in DOMAIN row : row'[m].version = row[m].version
    BY <1>1 DEF Rows
  <1>5. RowsGrow
    BY <1>1, <1>4 DEF RowsGrow, Rows, IInv, Types, IsMap
  <1>6. RowsOK'
    BY <1>1, <1>4 DEF RowsOK, IInv, VersionsOK
  <1>7. VersionsOK'
    BY <1>1, <1>3, <1>5, <1>6, VersionsSame, SaveSame DEF IInv, VersionsOK
  <1> QED BY <1>3, <1>7, QueueSame, WishesSame DEF IInv

LEMMA DeleteFolderElsewhereOK ==
  ASSUME IInv, NEW f \in Folders, DeleteFolderElsewhere(f)
  PROVE  IInv'
  <1> USE DEF DeleteFolderElsewhere, loadVars, ghosts
  <1>1. /\ DOMAIN row' = DOMAIN row
        /\ \A m \in DOMAIN row :
             /\ row[m] \in Rows /\ row'[m] \in Rows
             /\ row'[m].version = row[m].version
    <2>1. DOMAIN row' = DOMAIN row
      OBVIOUS
    <2> SUFFICES ASSUME NEW m \in DOMAIN row
                 PROVE  row[m] \in Rows /\ row'[m] \in Rows /\ row'[m].version = row[m].version
      BY <2>1
    <2>2. row[m] \in Rows
      BY DEF IInv, Types, IsMap
    <2>3. row'[m] = [row[m] EXCEPT !.folder = IF row[m].folder = f THEN ParentOf[f]
                                              ELSE row[m].folder]
      OBVIOUS
    <2>4. ParentOf[f] \in Places
      BY NotesAssumption
    <2> QED BY <2>2, <2>3, <2>4 DEF Rows
  <1>2. row' \in [DOMAIN row -> Rows]
    BY <1>1
  <1>3. Types'
    BY <1>1, <1>2, BoundsAssumption DEF IInv, Types, IsMap, ActsElsewhere, IsLoad
  <1>5. RowsGrow
    BY <1>1 DEF RowsGrow, Rows, IInv, Types, IsMap
  <1>6. RowsOK'
    BY <1>1 DEF RowsOK, IInv, VersionsOK
  <1>7. VersionsOK'
    BY <1>1, <1>3, <1>5, <1>6, VersionsSame, SaveSame DEF IInv, VersionsOK
  <1> QED BY <1>3, <1>7, QueueSame, WishesSame DEF IInv

-----------------------------------------------------------------------------
(* Steps of the user that flush nothing. *)

LEMMA PutTyped ==
  ASSUME NEW l, IsMap(l, Entries), NEW n \in DOMAIN l, NEW p \in Places
  PROVE  /\ IsMap(Put(l, n, p), Entries) /\ DOMAIN Put(l, n, p) = DOMAIN l
         /\ Put(l, n, p)[n].folder = p
         /\ \A m \in DOMAIN l : /\ m # n => Put(l, n, p)[m] = l[m]
                               /\ Put(l, n, p)[m].version = l[m].version
                               /\ Put(l, n, p)[m].rootVersion = l[m].rootVersion
  <1>1. /\ DOMAIN Put(l, n, p) = DOMAIN l
        /\ Put(l, n, p)[n] = [l[n] EXCEPT !.folder = p]
        /\ \A m \in DOMAIN l : m # n => Put(l, n, p)[m] = l[m]
    BY DEF Put, IsMap
  <1>2. \A m \in DOMAIN l : l[m] \in Entries
    BY DEF IsMap
  <1>3. /\ Put(l, n, p)[n] \in Entries /\ Put(l, n, p)[n].folder = p
        /\ Put(l, n, p)[n].version = l[n].version
        /\ Put(l, n, p)[n].rootVersion = l[n].rootVersion
    BY <1>1, <1>2 DEF Entries
  <1>4. Put(l, n, p) \in [DOMAIN l -> Entries]
    <2>1. \A m \in DOMAIN l : Put(l, n, p)[m] \in Entries
      BY <1>1, <1>2, <1>3
    <2>2. Put(l, n, p) \in [DOMAIN l -> {Put(l, n, p)[m] : m \in DOMAIN l}]
      BY DEF Put
    <2> QED BY <2>1, <2>2
  <1> QED BY <1>1, <1>3, <1>4 DEF IsMap

(* A changed folder leaves what is known of versions alone. *)
LEMMA FolderPut ==
  ASSUME IInv, NEW n \in DOMAIN list, NEW p \in Places
  PROVE  \A m \in DOMAIN Put(list, n, p) : Known(m, Put(list, n, p)[m].rootVersion)
  BY PutTyped DEF IInv, Types, VersionsOK

LEMMA VersionsUnmoved ==
  ASSUME VersionsOK, UNCHANGED <<row, foreign, seen, loads>>, SaveOK',
         \A n \in DOMAIN list' : Known(n, list'[n].rootVersion),
         action'.kind = "created" => action'.note \in DOMAIN row
  PROVE  VersionsOK'
  BY DEF VersionsOK, RowsOK, AnswersOK, Known

LEMMA SaveUnmoved ==
  ASSUME SaveOK, UNCHANGED <<row, foreign, seen, save>>
  PROVE  SaveOK'
  BY DEF SaveOK, Known

LEMMA Scheduled ==
  ASSUME IInv, NEW n \in Notes, Schedule(n)
  PROVE  /\ pending' \in Seq(Notes) /\ pending' # << >> /\ IsInjective(pending')
         /\ timer' \in BOOLEAN /\ (timer' <=> save = Idle) /\ UNCHANGED <<save, issues>>
         /\ \A m : Contains(pending', m) <=> m = n \/ Contains(pending, m)
  BY LastAdded DEF IInv, Types, QueueOK, Schedule, Queued

LEMMA QueueScheduled ==
  ASSUME IInv, NEW n \in Notes, Schedule(n), UNCHANGED <<action, loads>>
  PROVE  QueueOK'
  BY Scheduled, IdleTyped DEF QueueOK, IInv, Awaited

LEMMA Counted ==
  ASSUME Types, Acts
  PROVE  edits' \in 0..MaxEdits
  BY BoundsAssumption DEF Types, Acts

LEMMA LoadsSame ==
  ASSUME Types, UNCHANGED <<loads, newest>>
  PROVE  /\ loads' = [k \in LoadKinds |-> loads'[k]] /\ newest' \in LoadKinds
         /\ \A k \in LoadKinds : IsLoad(loads'[k])
  BY DEF Types

LEMMA RetitleOK ==
  ASSUME IInv, NEW n \in Notes, Retitle(n)
  PROVE  IInv'
  <1> USE DEF Retitle, serverVars, loadVars, ghosts
  <1>1. Types'
    BY Scheduled, Counted, LoadsSame DEF IInv, Types, IsMap
  <1>2. VersionsOK'
    BY Scheduled, VersionsUnmoved, SaveUnmoved DEF IInv, VersionsOK
  <1>3. QueueOK'
    BY QueueScheduled
  <1>4. WishesOK'
    BY Scheduled DEF IInv, WishesOK, WishOK, Carried, Current, Drafted
  <1> QED BY <1>1, <1>2, <1>3, <1>4 DEF IInv

LEMMA EditOK ==
  ASSUME IInv, NEW n \in Notes, NEW p \in Places, Edit(n, p)
  PROVE  IInv'
  <1> USE DEF Edit, serverVars, loadVars
  <1>0. /\ n \in DOMAIN list /\ list' = Put(list, n, p)
        /\ wish' = [wish EXCEPT ![n] = p] /\ Schedule(n)
        /\ disturbed' = (IF save.stage = "resolving" THEN disturbed \union {n} ELSE disturbed)
        /\ (~Unfiles => p # NoFolder)
    BY NotesAssumption DEF Wished
  <1>1. Types'
    <2>1. IsMap(list', Entries) /\ edits' \in 0..MaxEdits
      BY <1>0, PutTyped, Counted DEF IInv, Types
    <2>2. wish' \in [Notes -> Places \union {"settled"}] /\ disturbed' \subseteq Notes
      BY <1>0 DEF IInv, Types
    <2> QED BY <1>0, <2>1, <2>2, Scheduled, LoadsSame DEF IInv, Types, Wished
  <1>2. VersionsOK'
    BY <1>0, Scheduled, FolderPut, VersionsUnmoved, SaveUnmoved DEF IInv, VersionsOK, Wished
  <1>3. QueueOK'
    BY QueueScheduled
  <1>4. WishesOK'
    <2> SUFFICES ASSUME ~Unfiles, NEW m \in Notes, m \notin disturbed', wish'[m] # "settled"
                 PROVE  WishOK(m)'
      BY DEF WishesOK
    <2>1. /\ DOMAIN list' = DOMAIN list
          /\ \A o \in DOMAIN list : /\ list'[o].version = list[o].version
                                   /\ list'[o].rootVersion = list[o].rootVersion
                                   /\ list'[o].folder = IF o = n THEN p ELSE list[o].folder
      BY <1>0, PutTyped DEF IInv, Types
    <2>2. CASE m = n
      BY <1>0, <2>1, <2>2, Scheduled DEF WishOK, IInv, Types
    <2>3. CASE m # n
      <3>1. wish'[m] = wish[m] /\ m \notin disturbed
        BY <1>0, <2>3 DEF IInv, Types
      <3>2. WishOK(m)
        BY <3>1 DEF IInv, WishesOK
      <3> QED BY <2>1, <2>3, <3>1, <3>2, <1>0, Scheduled DEF WishOK, Carried, Current, Drafted
    <2> QED BY <2>2, <2>3
  <1> QED BY <1>1, <1>2, <1>3, <1>4 DEF IInv

-----------------------------------------------------------------------------
(* The requests of a save. *)

LEMMA StageSet ==
  ASSUME Types, NEW t \in Stages \ {"idle"}, save' = [save EXCEPT !.stage = t]
  PROVE  /\ save' \in Saves({save'.drafts}) /\ IsMap(save'.drafts, Places)
         /\ save'.stage = t /\ save'.note = save.note /\ save'.copy = save.copy
         /\ save'.drafts = save.drafts /\ save' # Idle
  BY IdleTyped DEF Types, Saves

LEMMA QueueStaged ==
  ASSUME Types, QueueOK, NEW t \in Stages \ {"idle", "resolving"},
         save' = [save EXCEPT !.stage = t], save.stage \notin {"idle", "resolving"},
         UNCHANGED <<pending, timer, action, loads>>
  PROVE  QueueOK'
  <1>1. save'.stage = t /\ save'.note = save.note /\ save' # Idle
    BY StageSet
  <1>2. save # Idle
    BY IdleTyped
  <1> QED BY <1>1, <1>2 DEF QueueOK, Awaited

LEMMA SendOK == ASSUME IInv, Send PROVE IInv'
  <1> USE DEF Send, serverVars, loadVars, ghosts
  <1>0. "sent" \in Stages
    BY DEF Stages
  <1>1. /\ save'.stage = "sent" /\ save'.note = save.note /\ save'.copy = save.copy
        /\ save'.drafts = save.drafts
    BY <1>0, StageSet DEF IInv
  <1>2. Types'
    BY <1>0, StageSet, LoadsSame DEF IInv, Types
  <1>3. VersionsOK'
    <2>1. SaveOK'
      BY <1>1 DEF IInv, VersionsOK, SaveOK, Known
    <2> QED BY <2>1, VersionsUnmoved DEF IInv, VersionsOK
  <1>4. QueueOK'
    BY <1>0, QueueStaged DEF IInv
  <1>5. WishesOK'
    BY <1>1 DEF IInv, WishesOK, WishOK, Carried, Current, Drafted
  <1> QED BY <1>2, <1>3, <1>4, <1>5 DEF IInv

LEMMA LoseOK == ASSUME IInv, Lose PROVE IInv'
  <1> USE DEF Lose, serverVars, loadVars, ghosts
  <1>0. "failed" \in Stages
    BY DEF Stages
  <1>1. /\ save'.stage = "failed" /\ save'.note = save.note /\ save'.copy = save.copy
        /\ save'.drafts = save.drafts
    BY <1>0, StageSet DEF IInv
  <1>2. Types'
    BY <1>0, StageSet, LoadsSame DEF IInv, Types
  <1>3. VersionsOK'
    <2>1. SaveOK'
      BY <1>1 DEF SaveOK
    <2> QED BY <2>1, VersionsUnmoved DEF IInv, VersionsOK
  <1>4. QueueOK'
    BY <1>0, QueueStaged DEF IInv
  <1>5. WishesOK'
    BY <1>1 DEF IInv, WishesOK, WishOK, Carried, Current, Drafted
  <1> QED BY <1>2, <1>3, <1>4, <1>5 DEF IInv

(* The server takes a save only over the version its copy has: the new     *)
(* version is the copy's next.                                             *)
LEMMA Accepted ==
  ASSUME IInv, save.stage = "sent", Accepts(save.note, save.copy),
         row' = Stored(save.note, save.copy), UNCHANGED <<foreign, seen>>
  PROVE  /\ IsMap(row', Rows) /\ RowsGrow /\ RowsOK'
         /\ KnownNext(save.note, save.copy.rootVersion + 1)
         /\ save.copy.folder # NoFolder => row'[save.note].folder = save.copy.folder
  <1> DEFINE n == save.note
             v == save.copy.rootVersion
  <1>1. /\ n \in DOMAIN row /\ row[n] \in Rows /\ row[n].version = v /\ v \in Nat
        /\ save.copy.folder \in Places /\ Known(n, v) /\ n \in Notes
    BY DEF IInv, Types, IsMap, Saves, Entries, Rows, Accepts, VersionsOK, SaveOK
  <1> DEFINE f == FolderAfter(n, save.copy)
  <1>2. f \in Places /\ (save.copy.folder # NoFolder => f = save.copy.folder)
    BY <1>1 DEF FolderAfter, Rows
  <1>3. /\ DOMAIN row' = DOMAIN row
        /\ row'[n] = [row[n] EXCEPT !.folder = f, !.version = row[n].version + 1]
        /\ \A m \in DOMAIN row : m # n => row'[m] = row[m]
    BY <1>1 DEF Stored, IInv, Types, IsMap
  <1> HIDE DEF f
  <1>4. row'[n] \in Rows /\ row'[n].version = v + 1 /\ row'[n].folder = f
    <2>1. \A r \in Rows :
            /\ [r EXCEPT !.folder = f, !.version = r.version + 1] \in Rows
            /\ [r EXCEPT !.folder = f, !.version = r.version + 1].version = r.version + 1
            /\ [r EXCEPT !.folder = f, !.version = r.version + 1].folder = f
      BY <1>2, RowSaved
    <2>2. /\ row'[n] \in Rows /\ row'[n].version = row[n].version + 1
          /\ row'[n].folder = f
      BY <1>1, <1>3, <2>1, Zenon
    <2> QED BY <1>1, <2>2
  <1>5. \A m \in DOMAIN row : m \in Notes /\ row[m] \in Rows
    BY DEF IInv, Types, IsMap
  <1>6. IsMap(row', Rows)
    <2>1. \A m \in DOMAIN row : row'[m] \in Rows
      BY <1>3, <1>4, <1>5
    <2>2. row' \in [DOMAIN row -> {row'[m] : m \in DOMAIN row}]
      BY DEF Stored
    <2>3. row' \in [DOMAIN row -> Rows]
      BY <2>1, <2>2
    <2> QED BY <1>3, <1>5, <2>3 DEF IsMap
  <1>7. /\ \A m \in DOMAIN row : row[m].version \in Nat
        /\ \A m \in DOMAIN row : row'[m].version = IF m = n THEN row[m].version + 1
                                                ELSE row[m].version
    BY <1>1, <1>3, <1>4, <1>5 DEF Rows
  <1>8. RowsGrow
    BY <1>3, <1>7 DEF RowsGrow
  <1>9. RowsOK'
    <2> SUFFICES ASSUME NEW m \in Notes
                 PROVE  IF m \in DOMAIN row THEN /\ row'[m].version >= 1
                                                /\ foreign[m] <= row'[m].version
                                                /\ foreign[m] # 1
                        ELSE foreign[m] = 0
      BY <1>3 DEF RowsOK
    <2>1. foreign[m] \in Nat
      BY DEF IInv, Types
    <2> QED BY <1>7, <2>1 DEF IInv, VersionsOK, RowsOK
  <1>10. KnownNext(n, v + 1)
    <2>1. foreign[n] <= v /\ foreign[n] \in Nat
      BY <1>1 DEF IInv, Types, VersionsOK, RowsOK
    <2> QED BY <1>1, <1>3, <1>4, <2>1 DEF Known, KnownNext
  <1> QED BY <1>2, <1>4, <1>6, <1>8, <1>9, <1>10

LEMMA StoreOK == ASSUME IInv, Store PROVE IInv'
  <1> USE DEF Store, loadVars
  <1> DEFINE n == save.note
             taken == /\ Accepts(n, save.copy)
                      /\ save.copy.folder \in folders \union {NoFolder}
  <1>0. /\ {"saved", "failed", "refused"} \subseteq Stages /\ save.stage = "sent"
        /\ n \in Notes /\ save.copy.folder \in Places
    BY DEF Stages, IInv, Types, Saves, Entries
  <1>1. CASE taken
    <2>1. /\ row' = Stored(n, save.copy) /\ wish' = Settled(n, row'[n].folder)
          /\ save' = [save EXCEPT !.stage = "saved"] /\ UNCHANGED <<foreign, seen>>
      BY <1>1
    <2>2. /\ IsMap(row', Rows) /\ RowsGrow /\ RowsOK'
          /\ KnownNext(n, save.copy.rootVersion + 1)
          /\ save.copy.folder # NoFolder => row'[n].folder = save.copy.folder
      BY <1>0, <1>1, <2>1, Accepted
    <2>3. /\ save'.stage = "saved" /\ save'.note = n /\ save'.copy = save.copy
          /\ save' \in Saves({save'.drafts}) /\ IsMap(save'.drafts, Places)
      BY <1>0, <2>1, StageSet DEF IInv
    <2>4. wish' \in [Notes -> Places \union {"settled"}]
      BY <2>1 DEF Settled, IInv, Types
    <2>5. Types'
      BY <2>2, <2>3, <2>4, LoadsSame DEF IInv, Types
    <2>6. VersionsOK'
      <3>1. SaveOK'
        BY <2>2, <2>3 DEF SaveOK, Known, KnownNext
      <3>2. action.kind = "created" => action.note \in DOMAIN row'
        BY <2>2 DEF IInv, VersionsOK, RowsGrow
      <3> QED BY <2>2, <2>5, <3>1, <3>2, VersionsSame DEF IInv
    <2>7. QueueOK'
      BY <1>0, <2>1, QueueStaged DEF IInv
    <2>8. WishesOK'
      <3> SUFFICES ASSUME ~Unfiles, NEW m \in Notes, m \notin disturbed, wish'[m] # "settled"
                   PROVE  WishOK(m)'
        BY DEF WishesOK
      <3>1. wish'[m] = wish[m]
        BY <2>1 DEF Settled, IInv, Types
      <3>2. WishOK(m)
        BY <3>1 DEF IInv, WishesOK
      <3>3. Contains(pending, m)
        <4> SUFFICES ASSUME Carried(m) PROVE FALSE
          BY <3>2 DEF WishOK
        <4>1. m = n /\ save.copy.folder = wish[n]
          BY <1>0 DEF Carried
        <4>2. row'[n].folder = wish[n]
          BY <2>2, <3>2, <4>1 DEF WishOK
        <4>3. wish'[n] = "settled"
          BY <1>0, <2>1, <4>2 DEF Settled, IInv, Types
        <4> QED BY <3>1, <4>1, <4>3
      <3> QED BY <2>3, <3>1, <3>2, <3>3 DEF WishOK
    <2> QED BY <2>5, <2>6, <2>7, <2>8 DEF IInv
  <1>2. CASE ~taken
    <2>1. PICK t \in {"failed", "refused"} : save' = [save EXCEPT !.stage = t]
      BY <1>2
    <2>2. UNCHANGED <<row, wish>>
      BY <1>2
    <2>3. t \in Stages \ {"idle", "resolving"}
      BY <1>0
    <2>4. /\ save'.stage = t /\ save'.note = n /\ save'.copy = save.copy
          /\ save' \in Saves({save'.drafts}) /\ IsMap(save'.drafts, Places)
      BY <2>1, <2>3, StageSet DEF IInv
    <2>5. Types'
      BY <2>2, <2>4, LoadsSame DEF IInv, Types
    <2>6. VersionsOK'
      <3>1. SaveOK'
        BY <2>4 DEF SaveOK
      <3> QED BY <2>2, <3>1, VersionsUnmoved DEF IInv, VersionsOK
    <2>7. QueueOK'
      BY <1>0, <2>1, <2>3, QueueStaged DEF IInv
    <2>8. WishesOK'
      BY <1>0, <2>2, <2>4 DEF IInv, WishesOK, WishOK, Carried, Current, Drafted
    <2> QED BY <2>5, <2>6, <2>7, <2>8 DEF IInv
  <1> QED BY <1>1, <1>2

-----------------------------------------------------------------------------
(* Loads of the list. *)

LEMMA LoadSet ==
  ASSUME Types, NEW k \in LoadKinds, NEW o, IsLoad(o), loads' = [loads EXCEPT ![k] = o]
  PROVE  /\ loads' = [j \in LoadKinds |-> loads'[j]]
         /\ \A j \in LoadKinds : IsLoad(loads'[j])
         /\ \A j \in LoadKinds : loads'[j] = IF j = k THEN o ELSE loads[j]
  <1>1. loads = [j \in LoadKinds |-> loads[j]] /\ \A j \in LoadKinds : IsLoad(loads[j])
    BY DEF Types
  <1>2. DOMAIN loads = LoadKinds
    BY <1>1
  <1>3. \A j \in LoadKinds : loads'[j] = IF j = k THEN o ELSE loads[j]
    BY <1>2
  <1>4. loads' = [j \in LoadKinds |-> loads'[j]]
    BY <1>2
  <1> QED BY <1>1, <1>3, <1>4

Asked == [state |-> "asked", initial |-> DOMAIN list, answer |-> << >>]

LEMMA NewLoads ==
  /\ IsLoad(NoLoad) /\ NoLoad.state = "none" /\ DOMAIN NoLoad.answer = {}
  /\ Types => IsLoad(Asked)
  /\ Asked.state = "asked" /\ DOMAIN Asked.answer = {}
  BY NoMap DEF IsLoad, NoLoad, Asked, Types, IsMap, States

LEMMA AnswersStay ==
  ASSUME AnswersOK, NEW k \in LoadKinds, NEW o, DOMAIN o.answer = {}, UNCHANGED row,
         \A j \in LoadKinds : loads'[j] = IF j = k THEN o ELSE loads[j]
  PROVE  AnswersOK'
  BY DEF AnswersOK

LEMMA VersionsAfter ==
  ASSUME VersionsOK, UNCHANGED <<row, foreign>>, AnswersOK', SaveOK',
         \A n \in DOMAIN list' : KnownNext(n, list'[n].rootVersion),
         action'.kind = "created" => action'.note \in DOMAIN row
  PROVE  VersionsOK'
  BY DEF VersionsOK, RowsOK, Known, KnownNext

LEMMA ReloadOK == ASSUME IInv, Reload PROVE IInv'
  <1> USE DEF Reload, serverVars, ghosts
  <1>1. "events" \in LoadKinds /\ "conflict" \in LoadKinds /\ loads["events"].state = "none"
    BY DEF LoadKinds
  <1>2. loads' = [loads EXCEPT !["events"] = Asked] /\ newest' = "events"
    BY DEF BeginLoad, Asked
  <1>3. /\ loads' = [j \in LoadKinds |-> loads'[j]]
        /\ \A j \in LoadKinds : IsLoad(loads'[j])
        /\ \A j \in LoadKinds : loads'[j] = IF j = "events" THEN Asked ELSE loads[j]
    BY <1>1, <1>2, LoadSet, NewLoads DEF IInv
  <1>4. reloads' \in 0..MaxReloads
    BY BoundsAssumption DEF IInv, Types
  <1>5. Types'
    BY <1>1, <1>2, <1>3, <1>4 DEF IInv, Types
  <1>6. AnswersOK'
    BY <1>1, <1>3, AnswersStay, NewLoads DEF IInv, VersionsOK
  <1>7. VersionsOK'
    BY <1>6, VersionsAfter, SaveUnmoved DEF IInv, VersionsOK, Known, KnownNext
  <1>8. QueueOK'
    BY <1>1, <1>3, QueueSame DEF IInv
  <1> QED BY <1>5, <1>7, <1>8, WishesSame DEF IInv

LEMMA FailEventsOK == ASSUME IInv, FailToLoad("events") PROVE IInv'
  <1> USE DEF FailToLoad, serverVars
  <1>1. "events" \in LoadKinds /\ "conflict" \in LoadKinds
    BY DEF LoadKinds
  <1>2. /\ loads' = [loads EXCEPT !["events"] = NoLoad]
        /\ UNCHANGED <<list, pending, timer, save, issues, action, wish>>
    OBVIOUS
  <1>3. /\ loads' = [j \in LoadKinds |-> loads'[j]]
        /\ \A j \in LoadKinds : IsLoad(loads'[j])
        /\ \A j \in LoadKinds : loads'[j] = IF j = "events" THEN NoLoad ELSE loads[j]
    BY <1>1, <1>2, LoadSet, NewLoads DEF IInv
  <1>5. Types'
    BY <1>1, <1>2, <1>3 DEF IInv, Types
  <1>6. AnswersOK'
    BY <1>1, <1>3, AnswersStay, NewLoads DEF IInv, VersionsOK
  <1>7. VersionsOK'
    BY <1>2, <1>6, VersionsAfter, SaveUnmoved DEF IInv, VersionsOK, Known, KnownNext
  <1>8. QueueOK'
    BY <1>1, <1>2, <1>3, QueueSame DEF IInv
  <1> QED BY <1>2, <1>5, <1>7, <1>8, WishesSame DEF IInv

LEMMA AnswerOK == ASSUME IInv, NEW k \in LoadKinds, Answer(k) PROVE IInv'
  <1> USE DEF Answer, serverVars, ghosts
  <1> DEFINE listed == {n \in DOMAIN row : ~row[n].trashed}
             e(n) == [folder |-> row[n].folder, version |-> row[n].version,
                      rootVersion |-> row[n].version]
             a == [n \in listed |-> e(n)]
             o == [state |-> "answered", initial |-> loads[k].initial, answer |-> a]
  <1>1. /\ loads[k] \in [state : States, initial : SUBSET Notes, answer : {loads[k].answer}]
        /\ DOMAIN loads = LoadKinds /\ "conflict" \in LoadKinds
        /\ loads' = [loads EXCEPT ![k].state = "answered", ![k].answer = a]
    BY DEF IInv, Types, IsLoad, LoadKinds
  <1>2. loads' = [loads EXCEPT ![k] = o]
    <2> HIDE DEF a
    <2>1. loads'[k] = [loads[k] EXCEPT !.state = "answered", !.answer = a]
      BY <1>1
    <2>2. [loads[k] EXCEPT !.state = "answered", !.answer = a] = o
      <3> DEFINE b == [loads[k] EXCEPT !.state = "answered"]
      <3>1. b = [state |-> "answered", initial |-> loads[k].initial,
                 answer |-> loads[k].answer]
        BY <1>1
      <3> HIDE DEF b
      <3>2. [b EXCEPT !.answer = a] = o
        BY <3>1
      <3>3. [loads[k] EXCEPT !.state = "answered", !.answer = a] = [b EXCEPT !.answer = a]
        BY <1>1 DEF b
      <3> QED BY <3>2, <3>3
    <2> QED BY <1>1, <2>1, <2>2
  <1>3. \A n \in DOMAIN row : n \in Notes /\ e(n) \in Entries
    BY DEF IInv, Types, IsMap, Rows, Entries
  <1>4. DOMAIN a = listed /\ IsMap(a, Entries) /\ \A n \in listed : a[n] = e(n)
    <2> HIDE DEF e
    <2> QED BY <1>3 DEF IsMap
  <1>5. IsLoad(o) /\ o.answer = a /\ o.state = "answered"
    <2>1. loads[k].initial \in SUBSET Notes
      BY <1>1
    <2> HIDE DEF a
    <2> QED BY <1>4, <2>1 DEF IsLoad, States
  <1>6. /\ loads' = [j \in LoadKinds |-> loads'[j]]
        /\ \A j \in LoadKinds : IsLoad(loads'[j])
        /\ \A j \in LoadKinds : loads'[j] = IF j = k THEN o ELSE loads[j]
    <2> HIDE DEF o
    <2> QED BY <1>2, <1>5, LoadSet DEF IInv
  <1>7. Types'
    BY <1>6 DEF IInv, Types
  <1>8. AnswersOK'
    <2> SUFFICES ASSUME NEW j \in LoadKinds, NEW n \in DOMAIN loads'[j].answer
                 PROVE  /\ n \in DOMAIN row
                        /\ loads'[j].answer[n].rootVersion = loads'[j].answer[n].version
                        /\ loads'[j].answer[n].version <= row[n].version
      BY DEF AnswersOK
    <2>1. CASE j = k
      <3>1. n \in listed /\ loads'[j].answer[n] = e(n)
        <4>1. loads'[j] = o
          BY <1>6, <2>1
        <4>2. n \in DOMAIN a /\ loads'[j].answer = a
          BY <1>5, <4>1
        <4> HIDE DEF a, o, e
        <4> QED BY <1>4, <4>2
      <3>2. row[n].version \in Nat
        BY <3>1 DEF IInv, Types, IsMap, Rows
      <3> QED BY <3>1, <3>2
    <2>2. CASE j # k
      BY <1>6, <2>2 DEF IInv, VersionsOK, AnswersOK
    <2> QED BY <2>1, <2>2
  <1>9. VersionsOK'
    BY <1>8, VersionsAfter, SaveUnmoved DEF IInv, VersionsOK, Known, KnownNext
  <1>10. QueueOK'
    <2>1. (loads'["conflict"].state = "none") <=> (loads["conflict"].state = "none")
      BY <1>1, <1>5, <1>6
    <2> QED BY <2>1 DEF IInv, QueueOK, Awaited
  <1> QED BY <1>7, <1>9, <1>10, WishesSame DEF IInv

(* What a load that is shown adds to the list is known from then on. *)
LEMMA Shown ==
  ASSUME IInv, NEW k \in LoadKinds, Noticed(k), UNCHANGED <<row, foreign>>
  PROVE  /\ seen' \in [Notes -> Nat] /\ IsMap(Loaded(k), Entries)
         /\ \A n, v : Known(n, v) => KnownNext(n, v)
         /\ \A n \in DOMAIN Loaded(k) : KnownNext(n, Loaded(k)[n].rootVersion)
  <1> DEFINE answer == loads[k].answer
             added == DOMAIN list \ (loads[k].initial \union DOMAIN answer)
             l == [n \in DOMAIN answer \union added |->
                     IF n \in added THEN list[n] ELSE answer[n]]
             see(n) == /\ newest = k /\ n \in DOMAIN answer
                       /\ answer[n].version >= foreign[n]
  <1>1. \A n \in Notes : seen'[n] = IF see(n) THEN foreign[n] ELSE seen[n]
    BY DEF Noticed
  <1>2. /\ seen \in [Notes -> Nat] /\ foreign \in [Notes -> Nat]
        /\ IsMap(answer, Entries) /\ IsMap(list, Entries) /\ DOMAIN row \subseteq Notes
    BY DEF IInv, Types, IsLoad, IsMap
  <1>3. seen' = [n \in Notes |-> seen'[n]]
    BY DEF Noticed
  <1>4. seen' \in [Notes -> Nat]
    <2>1. \A n \in Notes : seen'[n] \in Nat
      BY <1>1, <1>2
    <2> QED BY <1>3, <2>1
  <1>5. \A n, v : Known(n, v) => KnownNext(n, v)
    <2> SUFFICES ASSUME NEW n, NEW v, Known(n, v) PROVE KnownNext(n, v)
      OBVIOUS
    <2>1. n \in Notes /\ foreign[n] \in Nat
      BY <1>2 DEF Known
    <2>2. seen'[n] = foreign[n] \/ seen'[n] = seen[n]
      BY <1>1, <2>1
    <2> QED BY <2>1, <2>2 DEF Known, KnownNext
  <1>6. CASE newest # k
    <2>1. Loaded(k) = list
      BY <1>6 DEF Loaded
    <2> QED BY <1>2, <1>4, <1>5, <2>1 DEF IInv, VersionsOK
  <1>7. CASE newest = k
    <2>1. Loaded(k) = l
      BY <1>7 DEF Loaded
    <2>2. /\ DOMAIN l = DOMAIN answer \union added
          /\ \A n \in DOMAIN l : l[n] = IF n \in added THEN list[n] ELSE answer[n]
      OBVIOUS
    <2>3. IsMap(l, Entries)
      <3>1. \A n \in DOMAIN l : n \in Notes /\ l[n] \in Entries
        BY <1>2, <2>2 DEF IsMap
      <3>2. l \in [DOMAIN l -> {l[n] : n \in DOMAIN l}]
        OBVIOUS
      <3> HIDE DEF l
      <3>3. l \in [DOMAIN l -> Entries]
        BY <3>1, <3>2
      <3> QED BY <3>1, <3>3 DEF IsMap
    <2> HIDE DEF l
    <2>4. ASSUME NEW n \in DOMAIN l PROVE KnownNext(n, l[n].rootVersion)
      <3>1. CASE n \in added
        <4>1. l[n] = list[n] /\ n \in DOMAIN list
          BY <2>2, <2>4, <3>1
        <4>2. Known(n, list[n].rootVersion)
          BY <4>1 DEF IInv, VersionsOK
        <4> QED BY <1>5, <4>1, <4>2
      <3>2. CASE n \notin added
        <4>1. n \in DOMAIN answer /\ l[n] = answer[n]
          BY <2>2, <2>4, <3>2
        <4>2. /\ n \in DOMAIN row /\ answer[n].rootVersion = answer[n].version
              /\ answer[n].version <= row[n].version
          BY <4>1 DEF IInv, VersionsOK, AnswersOK
        <4>3. n \in Notes /\ answer[n].version >= foreign[n] => seen'[n] = foreign[n]
          BY <1>1, <1>2, <1>7, <4>1, <4>2
        <4>4. foreign[n] \in Nat
          BY <1>2, <4>2
        <4> HIDE DEF answer
        <4> QED BY <1>2, <4>1, <4>2, <4>3, <4>4 DEF KnownNext
      <3> QED BY <3>1, <3>2
    <2> QED BY <1>4, <1>5, <2>1, <2>3, <2>4
  <1> QED BY <1>6, <1>7

LEMMA ShowReloadOK == ASSUME IInv, ShowReload PROVE IInv'
  <1> USE DEF ShowReload, serverVars
  <1>1. "events" \in LoadKinds /\ "conflict" \in LoadKinds
    BY DEF LoadKinds
  <1>2. /\ seen' \in [Notes -> Nat] /\ IsMap(list', Entries)
        /\ \A n, v : Known(n, v) => KnownNext(n, v)
        /\ \A n \in DOMAIN list' : KnownNext(n, list'[n].rootVersion)
    BY <1>1, Shown
  <1>3. /\ loads' = [j \in LoadKinds |-> loads'[j]]
        /\ \A j \in LoadKinds : IsLoad(loads'[j])
        /\ \A j \in LoadKinds : loads'[j] = IF j = "events" THEN NoLoad ELSE loads[j]
    BY <1>1, LoadSet, NewLoads DEF IInv
  <1>4. /\ wish' \in [Notes -> Places \union {"settled"}]
        /\ \A n \in Notes : wish'[n] \in {"settled", wish[n]}
    BY DEF IInv, Types
  <1>5. disturbed' \subseteq Notes /\ \A n \in Notes : wish[n] # "settled" => n \in disturbed'
    BY DEF IInv, Types
  <1>6. Types'
    BY <1>2, <1>3, <1>4, <1>5 DEF IInv, Types
  <1>7. VersionsOK'
    <2>1. AnswersOK'
      BY <1>1, <1>3, AnswersStay, NewLoads DEF IInv, VersionsOK
    <2>2. SaveOK'
      BY <1>2 DEF IInv, VersionsOK, SaveOK, Known, KnownNext
    <2> QED BY <1>2, <2>1, <2>2, VersionsAfter DEF IInv, VersionsOK
  <1>8. QueueOK'
    BY <1>1, <1>3, QueueSame DEF IInv
  <1>9. WishesOK'
    BY <1>4, <1>5 DEF WishesOK
  <1> QED BY <1>6, <1>7, <1>8, <1>9 DEF IInv

LEMMA DropFolderOK == ASSUME IInv, NEW f \in Folders, DropFolder(f) PROVE IInv'
  <1> USE DEF DropFolder, serverVars, loadVars
  <1> DEFINE dropped(n) == [list[n] EXCEPT !.folder = NoFolder]
  <1>1. /\ DOMAIN list' = DOMAIN list /\ DOMAIN list \subseteq Notes
        /\ \A n \in DOMAIN list :
             list'[n] = IF list[n].folder = f THEN dropped(n) ELSE list[n]
    BY DEF IInv, Types, IsMap
  <1>2. \A n \in DOMAIN list :
          /\ list'[n] \in Entries
          /\ list'[n].version = list[n].version
          /\ list'[n].rootVersion = list[n].rootVersion
          /\ list[n].folder # f => list'[n].folder = list[n].folder
    <2> SUFFICES ASSUME NEW n \in DOMAIN list
                 PROVE  /\ list'[n] \in Entries
                        /\ list'[n].version = list[n].version
                        /\ list'[n].rootVersion = list[n].rootVersion
                        /\ list[n].folder # f => list'[n].folder = list[n].folder
      OBVIOUS
    <2>1. list[n] \in Entries /\ NoFolder \in Places
      BY DEF IInv, Types, IsMap, Places
    <2>2. /\ dropped(n) \in Entries /\ dropped(n).version = list[n].version
          /\ dropped(n).rootVersion = list[n].rootVersion
      BY <2>1 DEF Entries
    <2> HIDE DEF dropped
    <2> QED BY <1>1, <2>1, <2>2
  <1>3. IsMap(list', Entries)
    <2>1. list' \in [DOMAIN list -> {list'[n] : n \in DOMAIN list}]
      OBVIOUS
    <2>2. list' \in [DOMAIN list -> Entries]
      BY <1>2, <2>1
    <2> QED BY <1>1, <2>2 DEF IsMap
  <1>4. /\ wish' \in [Notes -> Places \union {"settled"}]
        /\ \A n \in Notes : wish'[n] = IF wish[n] = f THEN "settled" ELSE wish[n]
    BY DEF IInv, Types
  <1>5. Types'
    BY <1>3, <1>4, LoadsSame DEF IInv, Types
  <1>6. VersionsOK'
    BY <1>1, <1>2, VersionsUnmoved, SaveUnmoved DEF IInv, VersionsOK
  <1>7. QueueOK'
    BY QueueSame DEF IInv
  <1>8. WishesOK'
    <2> SUFFICES ASSUME ~Unfiles, NEW n \in Notes, n \notin disturbed, wish'[n] # "settled"
                 PROVE  WishOK(n)'
      BY DEF WishesOK
    <2>1. wish'[n] = wish[n] /\ wish[n] # f
      BY <1>4
    <2>2. WishOK(n)
      BY <2>1 DEF IInv, WishesOK
    <2>3. n \in DOMAIN list /\ list[n].folder # f
      BY <2>1, <2>2 DEF WishOK
    <2> QED BY <1>1, <1>2, <2>1, <2>2, <2>3, WishSame
  <1> QED BY <1>5, <1>6, <1>7, <1>8 DEF IInv

-----------------------------------------------------------------------------
(* Trashing and creating. *)

LEMMA WithTyped ==
  ASSUME NEW S, NEW l, IsMap(l, S), NEW n \in Notes, NEW e \in S
  PROVE  /\ IsMap(With(l, n, e), S) /\ DOMAIN With(l, n, e) = DOMAIN l \union {n}
         /\ With(l, n, e)[n] = e
         /\ \A m \in DOMAIN l : m # n => With(l, n, e)[m] = l[m]
  BY DEF With, IsMap

LEMMA DeleteNoteOK == ASSUME IInv, DeleteNote PROVE IInv'
  <1> USE DEF DeleteNote, loadVars, ghosts
  <1> DEFINE n == action.note
  <1>1. /\ DOMAIN row' = DOMAIN row
        /\ \A m \in DOMAIN row : /\ row[m] \in Rows /\ row'[m] \in Rows
                                /\ row'[m].version = row[m].version
    <2>1. \A m \in DOMAIN row : row[m] \in Rows
      BY DEF IInv, Types, IsMap
    <2>2. CASE n \in DOMAIN row
      <3>1. /\ DOMAIN row' = DOMAIN row /\ row'[n] = [row[n] EXCEPT !.trashed = TRUE]
            /\ \A m \in DOMAIN row : m # n => row'[m] = row[m]
        BY <2>2 DEF IInv, Types, IsMap
      <3> QED BY <2>1, <2>2, <3>1 DEF Rows
    <2>3. CASE n \notin DOMAIN row
      BY <2>1, <2>3
    <2> QED BY <2>2, <2>3
  <1>2. row' \in [DOMAIN row -> Rows]
    <2>1. row' \in [DOMAIN row -> {row'[m] : m \in DOMAIN row}]
      BY DEF IInv, Types, IsMap
    <2> QED BY <1>1, <2>1
  <1>3. /\ action' \in Actions /\ action'.kind = "deleted" /\ action'.note = n
    BY DEF IInv, Types, Actions, Kinds
  <1>4. Types'
    BY <1>1, <1>2, <1>3, LoadsSame DEF IInv, Types, IsMap
  <1>5. RowsGrow
    BY <1>1 DEF RowsGrow, Rows, IInv, Types, IsMap
  <1>6. RowsOK'
    BY <1>1 DEF RowsOK, IInv, VersionsOK
  <1>7. VersionsOK'
    BY <1>1, <1>3, <1>4, <1>5, <1>6, VersionsSame, SaveSame DEF IInv
  <1>8. QueueOK'
    BY <1>3 DEF IInv, QueueOK
  <1> QED BY <1>4, <1>7, <1>8, WishesSame DEF IInv

LEMMA TrashedOK == ASSUME IInv, Trashed PROVE IInv'
  <1> USE DEF Trashed, serverVars, loadVars
  <1> DEFINE n == action.note
  <1>1. /\ IsMap(list', Entries) /\ DOMAIN list' = DOMAIN list \ {n}
        /\ \A m \in DOMAIN list' : list'[m] = list[m]
    BY DEF Without, IInv, Types, IsMap
  <1>2. action' \in Actions /\ action'.kind = "none"
    BY NoNote DEF NoAction, Actions, Kinds, Places
  <1>3. /\ wish' \in [Notes -> Places \union {"settled"}] /\ wish'[n] = "settled"
        /\ \A m \in Notes : m # n => wish'[m] = wish[m]
    BY DEF IInv, Types, Actions
  <1>4. Types'
    BY <1>1, <1>2, <1>3, LoadsSame DEF IInv, Types
  <1>5. VersionsOK'
    BY <1>1, <1>2, VersionsUnmoved, SaveUnmoved DEF IInv, VersionsOK
  <1>6. QueueOK'
    BY <1>2 DEF IInv, QueueOK
  <1>7. WishesOK'
    <2> SUFFICES ASSUME ~Unfiles, NEW m \in Notes, m \notin disturbed, wish'[m] # "settled"
                 PROVE  WishOK(m)'
      BY DEF WishesOK
    <2>1. m # n /\ wish'[m] = wish[m]
      BY <1>3
    <2>2. WishOK(m)
      BY <2>1 DEF IInv, WishesOK
    <2>3. m \in DOMAIN list' /\ list'[m] = list[m]
      BY <1>1, <2>1, <2>2 DEF WishOK
    <2> QED BY <2>1, <2>2, <2>3, WishSame
  <1> QED BY <1>4, <1>5, <1>6, <1>7 DEF IInv

LEMMA CreateNoteOK == ASSUME IInv, NEW n \in Notes, CreateNote(n) PROVE IInv'
  <1> USE DEF CreateNote, loadVars, ghosts
  <1> DEFINE r == [folder |-> NoFolder, version |-> 1, trashed |-> FALSE]
  <1>0. r \in Rows /\ r.version = 1
    BY DEF Rows, Places
  <1> HIDE DEF r
  <1>1. /\ IsMap(row', Rows) /\ DOMAIN row' = DOMAIN row \union {n} /\ row'[n] = r
        /\ \A m \in DOMAIN row : m # n /\ row'[m] = row[m]
    <2>1. row' = With(row, n, r) /\ IsMap(row, Rows) /\ n \notin DOMAIN row
      BY DEF IInv, Types, r
    <2> HIDE DEF CreateNote
    <2>2. /\ IsMap(row', Rows) /\ DOMAIN row' = DOMAIN row \union {n} /\ row'[n] = r
          /\ \A m \in DOMAIN row : m # n => row'[m] = row[m]
      <3>1. r \in Rows /\ n \in Notes
        BY <1>0
      <3>2. IsMap(With(row, n, r), Rows) /\ DOMAIN With(row, n, r) = DOMAIN row \union {n}
        BY <2>1, <3>1, WithTyped
      <3>3. row' = [m \in DOMAIN row \union {n} |-> IF m = n THEN r ELSE row[m]]
        BY <2>1 DEF With
      <3> QED BY <2>1, <3>2, <3>3
    <2> QED BY <2>1, <2>2
  <1>2. action' \in Actions /\ action'.kind = "created" /\ action'.note = n
    BY NoNote DEF NoAction, Actions, Kinds, Places
  <1>3. Types'
    BY <1>1, <1>2, LoadsSame, Counted DEF IInv, Types
  <1>4. RowsGrow
    <2>1. \A m \in DOMAIN row : row[m].version \in Nat
      BY DEF IInv, Types, IsMap, Rows
    <2>2. UNCHANGED foreign
      OBVIOUS
    <2> HIDE DEF CreateNote
    <2> QED BY <1>1, <2>1, <2>2 DEF RowsGrow
  <1>5. RowsOK'
    <2>1. UNCHANGED foreign /\ RowsOK
      BY DEF IInv, VersionsOK
    <2> HIDE DEF CreateNote
    <2> QED BY <1>0, <1>1, <2>1 DEF RowsOK
  <1>6. VersionsOK'
    BY <1>1, <1>2, <1>3, <1>4, <1>5, VersionsSame, SaveSame DEF IInv
  <1>7. QueueOK'
    BY <1>2 DEF IInv, QueueOK
  <1> QED BY <1>3, <1>6, <1>7, WishesSame DEF IInv

LEMMA CreatedOK == ASSUME IInv, Created PROVE IInv'
  <1> USE DEF Created, serverVars
  <1> DEFINE n == action.note
             e == [folder |-> NoFolder, version |-> 1, rootVersion |-> 1]
  <1>0. e \in Entries /\ e.rootVersion = 1 /\ n \in Notes
    BY DEF Entries, Places, IInv, Types, Actions
  <1> HIDE DEF e
  <1>1. /\ IsMap(list', Entries) /\ DOMAIN list' = DOMAIN list \union {n} /\ list'[n] = e
        /\ \A m \in DOMAIN list : m # n => list'[m] = list[m]
    <2>1. list' = With(list, n, e) /\ IsMap(list, Entries)
      BY DEF IInv, Types, e
    <2> HIDE DEF Created
    <2> QED BY <1>0, <2>1, WithTyped
  <1>2. action' \in Actions /\ action'.kind = "none"
    BY NoNote DEF NoAction, Actions, Kinds, Places
  <1>3. "events" \in LoadKinds /\ "conflict" \in LoadKinds
    BY DEF LoadKinds
  <1>4. /\ newest' = "events"
        /\ loads' = [j \in LoadKinds |-> loads'[j]]
        /\ \A j \in LoadKinds : IsLoad(loads'[j])
        /\ \A j \in LoadKinds : loads'[j] = IF j = "events" THEN Asked ELSE loads[j]
    <2>1. loads' = [loads EXCEPT !["events"] = Asked] /\ newest' = "events"
      BY DEF BeginLoad, Asked
    <2> QED BY <1>3, <2>1, LoadSet, NewLoads DEF IInv
  <1>5. Types'
    BY <1>0, <1>1, <1>2, <1>3, <1>4 DEF IInv, Types
  <1>6. VersionsOK'
    <2>1. AnswersOK'
      BY <1>3, <1>4, AnswersStay, NewLoads DEF IInv, VersionsOK
    <2>2. KnownNext(n, 1)
      <3>1. /\ n \in DOMAIN row /\ row[n].version >= 1 /\ foreign[n] # 1
            /\ foreign[n] \in Nat /\ seen[n] \in Nat
        BY <1>0 DEF IInv, Types, VersionsOK, RowsOK
      <3> QED BY <3>1 DEF KnownNext
    <2>3. \A m \in DOMAIN list' : KnownNext(m, list'[m].rootVersion)
      BY <1>0, <1>1, <2>2 DEF IInv, VersionsOK, Known, KnownNext
    <2> QED BY <1>2, <2>1, <2>3, VersionsAfter, SaveUnmoved DEF IInv, VersionsOK
  <1>7. QueueOK'
    BY <1>2, <1>3, <1>4 DEF IInv, QueueOK
  <1>8. WishesOK'
    <2> SUFFICES ASSUME ~Unfiles, NEW m \in Notes, m \notin disturbed', wish[m] # "settled"
                 PROVE  WishOK(m)'
      BY DEF WishesOK
    <2>1. m # n /\ m \notin disturbed
      OBVIOUS
    <2>2. WishOK(m)
      BY <2>1 DEF IInv, WishesOK
    <2>3. m \in DOMAIN list' /\ list'[m] = list[m]
      BY <1>1, <2>1, <2>2 DEF WishOK
    <2> QED BY <2>2, <2>3, WishSame
  <1> QED BY <1>5, <1>6, <1>7, <1>8 DEF IInv

(* A refused save keeps as drafts what the queue is still to save. *)
LEMMA ResolveOK == ASSUME IInv, Resolve PROVE IInv'
  <1> USE DEF Resolve, serverVars, ghosts
  <1> DEFINE drafted == {save.note} \union (ToSet(pending) \intersect DOMAIN list)
             d == [n \in drafted |-> list[n].folder]
  <1>0. save.note \in DOMAIN list /\ save.stage = "refused"
    BY DEF Current
  <1>1. /\ IsMap(d, Places) /\ DOMAIN d = drafted
        /\ \A n \in drafted : d[n] = list[n].folder
    BY <1>0 DEF IInv, Types, IsMap, Entries
  <1> HIDE DEF d
  <1>2. save' = [note |-> save.note, stage |-> "resolving", copy |-> save.copy, drafts |-> d]
    BY DEF IInv, Types, Saves, d
  <1>3. /\ save'.note = save.note /\ save'.stage = "resolving" /\ save'.copy = save.copy
        /\ save'.drafts = d /\ save' # Idle
    <2> HIDE DEF Resolve
    <2> QED BY <1>2, IdleTyped
  <1>4. save' \in Saves({save'.drafts})
    BY <1>2, <1>3 DEF IInv, Types, Saves, Stages
  <1>5. "events" \in LoadKinds /\ "conflict" \in LoadKinds
    BY DEF LoadKinds
  <1>6. /\ newest' = "conflict"
        /\ loads' = [j \in LoadKinds |-> loads'[j]]
        /\ \A j \in LoadKinds : IsLoad(loads'[j])
        /\ \A j \in LoadKinds : loads'[j] = IF j = "conflict" THEN Asked ELSE loads[j]
    <2>1. loads' = [loads EXCEPT !["conflict"] = Asked] /\ newest' = "conflict"
      BY DEF BeginLoad, Asked
    <2> QED BY <1>5, <2>1, LoadSet, NewLoads DEF IInv
  <1>7. Types'
    BY <1>1, <1>3, <1>4, <1>5, <1>6 DEF IInv, Types
  <1>8. VersionsOK'
    <2>1. AnswersOK'
      BY <1>5, <1>6, AnswersStay, NewLoads DEF IInv, VersionsOK
    <2>2. SaveOK'
      BY <1>3 DEF SaveOK
    <2> QED BY <2>1, <2>2, VersionsAfter DEF IInv, VersionsOK, Known, KnownNext
  <1>9. QueueOK'
    <2>1. ~timer
      BY <1>0, IdleTyped DEF IInv, QueueOK
    <2> QED BY <1>3, <1>5, <1>6, <2>1, NewLoads DEF IInv, QueueOK, Awaited
  <1>10. WishesOK'
    <2> SUFFICES ASSUME ~Unfiles, NEW n \in Notes, n \notin disturbed, wish[n] # "settled"
                 PROVE  WishOK(n)'
      BY DEF WishesOK
    <2>1. WishOK(n)
      BY DEF IInv, WishesOK
    <2>2. Contains(pending, n) => n \in drafted
      BY <2>1 DEF WishOK, Contains, ToSet
    <2>3. Contains(pending, n) \/ save.note = n
      BY <2>1 DEF WishOK, Carried
    <2> QED BY <1>1, <1>3, <2>1, <2>2, <2>3 DEF WishOK, Carried, Drafted
  <1> QED BY <1>7, <1>8, <1>9, <1>10 DEF IInv

-----------------------------------------------------------------------------
(* Steps that flush the queue: what they leave under way copies the list l. *)

Took(l) ==
  /\ pending' \in Seq(Notes) /\ IsInjective(pending') /\ timer' = FALSE
  /\ save' \in Saves({save'.drafts}) /\ IsMap(save'.drafts, Places)
  /\ issues' \subseteq Notes
  /\ save'.stage \in {"idle", "missing", "encrypting"}
  /\ save'.stage = "idle" => save' = Idle /\ pending' = << >>
  /\ save'.stage = "encrypting" => save'.note \in DOMAIN l /\ save'.copy = l[save'.note]

(* The note is still to be saved, or is the one taken.                     *)
Stays(n, l) ==
  \/ Contains(pending', n)
  \/ save'.note = n /\ save' # Idle /\ (n \in DOMAIN l => save'.stage = "encrypting")

AwaitedNext(n) == Contains(pending', n) \/ (save'.note = n /\ save' # Idle)

LEMMA FlushTook ==
  ASSUME NEW q \in Seq(Notes), IsInjective(q), NEW l, IsMap(l, Entries),
         NEW told, told \subseteq Notes, Flush(q, l, told), timer' = FALSE
  PROVE  Took(l) /\ \A n : Contains(q, n) => Stays(n, l)
  BY Flushed DEF Took, Stays

LEMMA TookQueue ==
  ASSUME NEW l, Took(l), loads'["conflict"].state = "none",
         action'.kind \in {"move", "trash"} => Stays(action'.note, l)
  PROVE  QueueOK'
  BY DEF Took, Stays, QueueOK, Awaited

LEMMA TookWish ==
  ASSUME Took(list'), NEW n \in DOMAIN list', list'[n].folder = wish'[n],
         wish'[n] # NoFolder, Stays(n, list')
  PROVE  WishOK(n)'
  BY DEF Took, Stays, WishOK, Carried, Current

LEMMA TookVersions ==
  ASSUME Took(list'), \A n \in DOMAIN list' : KnownNext(n, list'[n].rootVersion)
  PROVE  SaveOK'
  BY DEF Took, SaveOK, Known, KnownNext

LEMMA NotResolving ==
  ASSUME QueueOK, save.stage # "resolving"
  PROVE  loads["conflict"].state = "none"
  BY DEF QueueOK

LEMMA TimerFiresOK == ASSUME IInv, TimerFires PROVE IInv'
  <1> USE DEF TimerFires, serverVars, loadVars, ghosts
  <1>0. save = Idle /\ save.stage = "idle"
    BY IdleTyped DEF IInv, QueueOK
  <1>1. Took(list) /\ \A n : Contains(pending, n) => Stays(n, list)
    BY FlushTook DEF IInv, Types, QueueOK
  <1>2. Types'
    BY <1>1, LoadsSame DEF IInv, Types, Took
  <1>3. VersionsOK'
    <2>1. \A n \in DOMAIN list' : KnownNext(n, list'[n].rootVersion)
      BY DEF IInv, VersionsOK, Known, KnownNext
    <2> QED BY <1>1, <2>1, TookVersions, VersionsUnmoved DEF IInv, VersionsOK
  <1>4. QueueOK'
    BY <1>0, <1>1, TookQueue, NotResolving DEF IInv, QueueOK, Awaited
  <1>5. WishesOK'
    BY <1>0, <1>1, TookWish DEF IInv, WishesOK, WishOK, Carried
  <1> QED BY <1>2, <1>3, <1>4, <1>5 DEF IInv

LEMMA Drained ==
  ASSUME IInv, NEW q \in Seq(Notes), IsInjective(q), NEW l, IsMap(l, Entries), Drain(q, l)
  PROVE  /\ pending' \in Seq(Notes) /\ IsInjective(pending') /\ timer' = FALSE
         /\ save' \in Saves({save'.drafts}) /\ IsMap(save'.drafts, Places)
         /\ issues' \subseteq Notes
         /\ \/ save = Idle /\ Took(l) /\ \A n : Contains(q, n) => Stays(n, l)
            \/ save # Idle /\ pending' = q /\ UNCHANGED <<save, issues>>
  <1>1. CASE save = Idle
    <2>1. Flush(q, l, issues) /\ timer' = FALSE /\ issues \subseteq Notes
      BY <1>1 DEF Drain, IInv, Types
    <2> QED BY <1>1, <2>1, FlushTook DEF Took
  <1>2. CASE save # Idle
    BY <1>2 DEF Drain, IInv, Types
  <1> QED BY <1>1, <1>2

LEMMA MoveOK ==
  ASSUME IInv, NEW n \in Notes, NEW p \in Places, Move(n, p)
  PROVE  IInv'
  <1> DEFINE q == Queued(n)
  <1>0. /\ n \in DOMAIN list /\ list' = Put(list, n, p) /\ Drain(q, list')
        /\ action' = [kind |-> "move", note |-> n, previous |-> list[n].folder]
        /\ wish' = [wish EXCEPT ![n] = p]
        /\ disturbed' = (IF save.stage = "resolving" THEN disturbed \union {n} ELSE disturbed)
        /\ UNCHANGED <<folders, row, foreign, elsewhere, loads, newest, reloads, seen>>
        /\ Acts /\ (~Unfiles => p # NoFolder)
    BY NotesAssumption DEF Move, Wished, serverVars, loadVars
  <1>1. /\ q \in Seq(Notes) /\ IsInjective(q)
        /\ \A m : Contains(q, m) <=> m = n \/ Contains(pending, m)
    BY LastAdded DEF IInv, Types, QueueOK, Queued
  <1> HIDE DEF q
  <1>2. /\ IsMap(list', Entries) /\ DOMAIN list' = DOMAIN list
        /\ \A o \in DOMAIN list : /\ list'[o].version = list[o].version
                                 /\ list'[o].rootVersion = list[o].rootVersion
                                 /\ list'[o].folder = IF o = n THEN p ELSE list[o].folder
    BY <1>0, PutTyped DEF IInv, Types
  <1>3. /\ pending' \in Seq(Notes) /\ IsInjective(pending') /\ timer' = FALSE
        /\ save' \in Saves({save'.drafts}) /\ IsMap(save'.drafts, Places)
        /\ issues' \subseteq Notes
        /\ \/ save = Idle /\ Took(list') /\ \A m : Contains(q, m) => Stays(m, list')
           \/ save # Idle /\ pending' = q /\ UNCHANGED <<save, issues>>
    BY <1>0, <1>1, <1>2, Drained
  <1>4. action' \in Actions /\ action'.kind = "move" /\ action'.note = n
    <2>1. list[n].folder \in Places
      BY <1>0 DEF IInv, Types, IsMap, Entries
    <2> QED BY <1>0, <2>1 DEF Actions, Kinds
  <1>5. Types'
    <2>1. wish' \in [Notes -> Places \union {"settled"}] /\ disturbed' \subseteq Notes
      BY <1>0 DEF IInv, Types
    <2> QED BY <1>0, <1>2, <1>3, <1>4, <2>1, Counted, LoadsSame DEF IInv, Types
  <1>6. VersionsOK'
    <2>1. \A m \in DOMAIN list' : Known(m, list'[m].rootVersion)
      BY <1>2 DEF IInv, VersionsOK
    <2>2. SaveOK'
      <3>1. CASE save = Idle
        BY <1>0, <1>3, <2>1, <3>1, TookVersions DEF Known, KnownNext
      <3>2. CASE save # Idle
        BY <1>0, <1>3, <3>2, SaveUnmoved DEF IInv, VersionsOK
      <3> QED BY <3>1, <3>2
    <2> QED BY <1>0, <1>4, <2>1, <2>2, VersionsUnmoved DEF IInv
  <1>7. QueueOK'
    <2>1. CASE save = Idle
      <3>1. loads'["conflict"].state = "none"
        BY <1>0, <2>1, IdleTyped, NotResolving DEF IInv
      <3>2. Stays(n, list') /\ Took(list')
        BY <1>1, <1>3, <2>1
      <3> QED BY <1>4, <3>1, <3>2, TookQueue
    <2>2. CASE save # Idle
      BY <1>0, <1>1, <1>3, <1>4, <2>2 DEF IInv, QueueOK, Awaited
    <2> QED BY <2>1, <2>2
  <1>8. WishesOK'
    <2> SUFFICES ASSUME ~Unfiles, NEW m \in Notes, m \notin disturbed', wish'[m] # "settled"
                 PROVE  WishOK(m)'
      BY DEF WishesOK
    <2>1. /\ m # n => m \notin disturbed /\ wish'[m] = wish[m] /\ WishOK(m)
          /\ m = n => save.stage # "resolving" /\ wish'[m] = p /\ p # NoFolder
      BY <1>0 DEF IInv, Types, WishesOK
    <2>2. m \in DOMAIN list' /\ list'[m].folder = wish'[m] /\ wish'[m] # NoFolder
      BY <1>0, <1>2, <2>1 DEF WishOK
    <2>3. CASE save = Idle
      <3>1. Contains(q, m)
        BY <1>1, <2>1, <2>3, IdleTyped DEF WishOK, Carried
      <3> QED BY <1>3, <2>2, <2>3, <3>1, TookWish
    <2>4. CASE save # Idle
      <3>1. CASE m = n
        BY <1>1, <1>3, <2>1, <2>2, <2>4, <3>1 DEF WishOK
      <3>2. CASE m # n
        BY <1>1, <1>2, <1>3, <2>1, <2>2, <2>4, <3>2 DEF WishOK, Carried, Current, Drafted
      <3> QED BY <3>1, <3>2
    <2> QED BY <2>3, <2>4
  <1> QED BY <1>5, <1>6, <1>7, <1>8 DEF IInv

LEMMA TrashOK == ASSUME IInv, NEW n \in Notes, Trash(n) PROVE IInv'
  <1>0. /\ Drain(pending, list) /\ Acts
        /\ UNCHANGED <<folders, row, foreign, elsewhere, list, loads, newest, reloads,
                       wish, disturbed, seen>>
        /\ action' = IF Awaited(n)'
                     THEN [NoAction EXCEPT !.kind = "trash", !.note = n]
                     ELSE IF n \in issues' THEN NoAction
                     ELSE [NoAction EXCEPT !.kind = "deleting", !.note = n]
    BY DEF Trash, serverVars, loadVars, ghosts
  <1>1. /\ pending' \in Seq(Notes) /\ IsInjective(pending') /\ timer' = FALSE
        /\ save' \in Saves({save'.drafts}) /\ IsMap(save'.drafts, Places)
        /\ issues' \subseteq Notes
        /\ \/ save = Idle /\ Took(list) /\ \A m : Contains(pending, m) => Stays(m, list)
           \/ save # Idle /\ UNCHANGED <<pending, save, issues>>
    BY <1>0, Drained DEF IInv, Types, QueueOK
  <1>2. /\ action' \in Actions /\ action'.kind # "created"
        /\ action'.kind \in {"move", "trash"} => AwaitedNext(action'.note)
    <2>1. NoAction \in Actions /\ NoAction.kind = "none"
      BY NoNote DEF NoAction, Actions, Kinds, Places
    <2>2. \A k \in Kinds : /\ [NoAction EXCEPT !.kind = k, !.note = n] \in Actions
                          /\ [NoAction EXCEPT !.kind = k, !.note = n].kind = k
                          /\ [NoAction EXCEPT !.kind = k, !.note = n].note = n
      BY <2>1 DEF Actions, NoAction
    <2>3. {"trash", "deleting"} \subseteq Kinds
      BY DEF Kinds
    <2>4. CASE Awaited(n)'
      BY <1>0, <2>2, <2>3, <2>4 DEF Awaited, AwaitedNext
    <2>5. CASE ~Awaited(n)'
      BY <1>0, <2>1, <2>2, <2>3, <2>5
    <2> QED BY <2>4, <2>5
  <1>3. Types'
    BY <1>0, <1>1, <1>2, Counted, LoadsSame DEF IInv, Types
  <1>4. VersionsOK'
    <2>1. \A m \in DOMAIN list' : KnownNext(m, list'[m].rootVersion)
      BY <1>0 DEF IInv, VersionsOK, Known, KnownNext
    <2>2. SaveOK'
      BY <1>0, <1>1, <2>1, TookVersions, SaveUnmoved DEF IInv, VersionsOK
    <2> QED BY <1>0, <1>2, <2>2, VersionsUnmoved DEF IInv, VersionsOK
  <1>5. QueueOK'
    <2>1. CASE save = Idle
      <3>1. loads'["conflict"].state = "none"
        BY <1>0, <2>1, IdleTyped, NotResolving DEF IInv
      <3> QED BY <1>1, <1>2, <2>1, <3>1 DEF QueueOK, Took, Awaited, AwaitedNext
    <2>2. CASE save # Idle
      BY <1>0, <1>1, <1>2, <2>2 DEF IInv, QueueOK, Awaited, AwaitedNext
    <2> QED BY <2>1, <2>2
  <1>6. WishesOK'
    <2>1. CASE save = Idle
      BY <1>0, <1>1, <2>1, IdleTyped, TookWish DEF IInv, WishesOK, WishOK, Carried
    <2>2. CASE save # Idle
      BY <1>0, <1>1, <2>2, WishesSame DEF IInv
    <2> QED BY <2>1, <2>2
  <1> QED BY <1>3, <1>4, <1>5, <1>6 DEF IInv

(* The end of a save: a move that failed is taken back on the list, the    *)
(* note of a conflict leaves the queue, and the next save begins.          *)
LEMMA Rolledback ==
  ASSUME Types, NEW result, NEW l, IsMap(l, Entries), AfterSave(result, l)
  PROVE  /\ IsMap(list', Entries) /\ DOMAIN list' = DOMAIN l
         /\ \A n \in DOMAIN l : /\ n # action.note => list'[n] = l[n]
                               /\ list'[n].version = l[n].version
                               /\ list'[n].rootVersion = l[n].rootVersion
         /\ result \notin {"conflict", "failed"} => list' = l
         /\ action' \in Actions /\ action'.kind \in {"none", "deleting"}
  <1>1. action \in Actions /\ action.previous \in Places
    BY DEF Types, Actions
  <1>2. NoAction \in Actions /\ NoAction.kind = "none"
    BY NoNote DEF NoAction, Actions, Kinds, Places
  <1>3. /\ [action EXCEPT !.kind = "deleting"] \in Actions
        /\ [action EXCEPT !.kind = "deleting"].kind = "deleting"
    BY <1>1 DEF Actions, Kinds
  <1>4. action' \in Actions /\ action'.kind \in {"none", "deleting"}
    BY <1>2, <1>3 DEF AfterSave
  <1>5. CASE list' = l
    BY <1>4, <1>5
  <1>6. CASE list' # l
    <2>1. /\ result \in {"conflict", "failed"} /\ action.note \in DOMAIN l
          /\ list' = Put(l, action.note, action.previous)
      BY <1>6 DEF AfterSave
    <2> QED BY <1>1, <1>4, <2>1, PutTyped
  <1> QED BY <1>5, <1>6

LEMMA RemainingQueue ==
  ASSUME IInv, NEW result
  PROVE  /\ Remaining(result) \in Seq(Notes) /\ IsInjective(Remaining(result))
         /\ \A n : Contains(pending, n) /\ (n # save.note \/ result # "conflict") =>
                     Contains(Remaining(result), n)
  BY OneRemoved DEF Remaining, IInv, Types, QueueOK

Ended(result, l) ==
  /\ IsMap(list', Entries) /\ DOMAIN list' = DOMAIN l
  /\ \A n \in DOMAIN l : /\ n # save.note => list'[n] = l[n]
                        /\ list'[n].version = l[n].version
                        /\ list'[n].rootVersion = l[n].rootVersion
  /\ result \notin {"conflict", "failed"} => list' = l
  /\ action' \in Actions
  /\ action' = action \/ action'.kind \in {"none", "deleting"}
  /\ Took(list')
  /\ \A n : Contains(pending, n) /\ (n # save.note \/ result # "conflict") =>
              Stays(n, list')
  /\ action'.kind \in {"move", "trash"} => Stays(action'.note, list')

LEMMA Finished ==
  ASSUME IInv, NEW result, NEW l, IsMap(l, Entries), NEW told, told \subseteq Notes,
         Finish(result, l, told)
  PROVE  Ended(result, l)
  <1> DEFINE waits == /\ action.kind \in {"move", "trash"} /\ action.note = save.note
                      /\ ~Contains(Remaining(result), save.note)
  <1>1. /\ waits => AfterSave(result, l)
        /\ ~waits => list' = l /\ UNCHANGED action
        /\ Flush(Remaining(result), list', told) /\ timer' = FALSE
    BY DEF Finish
  <1>2. /\ IsMap(list', Entries) /\ DOMAIN list' = DOMAIN l
        /\ \A n \in DOMAIN l : /\ n # save.note => list'[n] = l[n]
                              /\ list'[n].version = l[n].version
                              /\ list'[n].rootVersion = l[n].rootVersion
        /\ result \notin {"conflict", "failed"} => list' = l
        /\ action' \in Actions
        /\ IF waits THEN action'.kind \in {"none", "deleting"} ELSE action' = action
    <2>1. CASE waits
      BY <1>1, <2>1, Rolledback DEF IInv
    <2>2. CASE ~waits
      BY <1>1, <2>2 DEF IInv, Types
    <2> QED BY <2>1, <2>2
  <1>3. Took(list') /\ \A n : Contains(Remaining(result), n) => Stays(n, list')
    BY <1>1, <1>2, RemainingQueue, FlushTook
  <1>4. ASSUME action'.kind \in {"move", "trash"} PROVE Stays(action'.note, list')
    <2>1. ~waits /\ action' = action
      BY <1>2, <1>4
    <2>2. Contains(pending, action.note) \/ save.note = action.note
      BY <1>4, <2>1 DEF IInv, QueueOK, Awaited
    <2>3. Contains(Remaining(result), action.note)
      BY <1>4, <2>1, <2>2, RemainingQueue
    <2> QED BY <1>3, <2>1, <2>3
  <1> QED BY <1>2, <1>3, <1>4, RemainingQueue DEF Ended

(* What is left to show of a step that ends a save.                        *)
LEMMA FinishedOK ==
  ASSUME IInv, NEW result, NEW l, IsMap(l, Entries), NEW told, told \subseteq Notes,
         Finish(result, l, told), UNCHANGED <<serverVars, newest, reloads, edits>>,
         loads' = [k \in LoadKinds |-> loads'[k]], \A k \in LoadKinds : IsLoad(loads'[k]),
         AnswersOK', loads'["conflict"].state = "none",
         wish' \in [Notes -> Places \union {"settled"}], disturbed' \subseteq Notes,
         seen' \in [Notes -> Nat],
         \A n \in DOMAIN l : KnownNext(n, l[n].rootVersion),
         ~Unfiles => \A n \in Notes : n \notin disturbed' /\ wish'[n] # "settled" =>
           /\ n \in DOMAIN l /\ list'[n].folder = wish'[n] /\ wish'[n] # NoFolder
           /\ Contains(pending, n) /\ (n # save.note \/ result # "conflict")
  PROVE  IInv'
  <1> USE DEF serverVars
  <1>0. Ended(result, l)
    BY Finished
  <1>1. /\ IsMap(list', Entries) /\ DOMAIN list' = DOMAIN l
        /\ \A n \in DOMAIN l : /\ n # save.note => list'[n] = l[n]
                              /\ list'[n].version = l[n].version
                              /\ list'[n].rootVersion = l[n].rootVersion
        /\ result \notin {"conflict", "failed"} => list' = l
        /\ action' \in Actions
        /\ action' = action \/ action'.kind \in {"none", "deleting"}
        /\ Took(list')
        /\ \A n : Contains(pending, n) /\ (n # save.note \/ result # "conflict") =>
                    Stays(n, list')
        /\ action'.kind \in {"move", "trash"} => Stays(action'.note, list')
    BY <1>0 DEF Ended
  <1>2. Types'
    <2>1. timer' \in BOOLEAN /\ newest' \in LoadKinds
      BY <1>1 DEF Took, IInv, Types
    <2> QED BY <1>1, <2>1 DEF IInv, Types, Took
  <1>3. VersionsOK'
    <2>1. \A n \in DOMAIN list' : KnownNext(n, list'[n].rootVersion)
      BY <1>1
    <2>2. action'.kind = "created" => action'.note \in DOMAIN row
      BY <1>1 DEF IInv, VersionsOK
    <2> QED BY <1>1, <2>1, <2>2, TookVersions, VersionsAfter DEF IInv
  <1>4. QueueOK'
    BY <1>1, TookQueue
  <1>5. WishesOK'
    BY <1>1, TookWish DEF WishesOK
  <1> QED BY <1>2, <1>3, <1>4, <1>5 DEF IInv

LEMMA SkipOK == ASSUME IInv, Skip PROVE IInv'
  <1> USE DEF Skip, loadVars, ghosts
  <1>1. loads'["conflict"].state = "none" /\ save # Idle
    BY NotResolving, IdleTyped DEF IInv
  <1>2. \A n \in DOMAIN list : KnownNext(n, list[n].rootVersion)
    BY DEF IInv, VersionsOK, Known, KnownNext, serverVars
  <1>3. list' = list
    <2>1. issues \subseteq Notes /\ IsMap(list, Entries) /\ Finish("skipped", list, issues)
      BY DEF IInv, Types
    <2>2. Ended("skipped", list)
      BY <2>1, Finished
    <2> QED BY <2>2 DEF Ended
  <1>4. AnswersOK'
    BY DEF IInv, VersionsOK, AnswersOK, serverVars
  <1>5. ~Unfiles => \A n \in Notes : n \notin disturbed' /\ wish'[n] # "settled" =>
          /\ n \in DOMAIN list /\ list'[n].folder = wish'[n] /\ wish'[n] # NoFolder
          /\ Contains(pending, n)
    <2> SUFFICES ASSUME ~Unfiles, NEW n \in Notes, n \notin disturbed, wish[n] # "settled"
                 PROVE  /\ n \in DOMAIN list /\ list[n].folder = wish[n] /\ wish[n] # NoFolder
                        /\ Contains(pending, n)
      BY <1>3
    <2>1. WishOK(n)
      BY DEF IInv, WishesOK
    <2>2. ~Carried(n)
      BY DEF Carried
    <2> QED BY <2>1, <2>2 DEF WishOK
  <1>6. Finish("skipped", list, issues) /\ issues \subseteq Notes /\ IsMap(list, Entries)
    BY DEF IInv, Types
  <1>7. /\ wish' \in [Notes -> Places \union {"settled"}] /\ disturbed' \subseteq Notes
        /\ seen' \in [Notes -> Nat] /\ UNCHANGED <<serverVars, newest, reloads, edits>>
    BY DEF IInv, Types
  <1>8. /\ loads' = [k \in LoadKinds |-> loads'[k]]
        /\ \A k \in LoadKinds : IsLoad(loads'[k])
    BY LoadsSame DEF IInv
  <1> QED BY <1>1, <1>2, <1>4, <1>5, <1>6, <1>7, <1>8, FinishedOK

LEMMA SavedOK == ASSUME IInv, Saved PROVE IInv'
  <1> USE DEF Saved, loadVars, ghosts
  <1> DEFINE n == save.note
             v == save.copy.rootVersion + 1
             l == [list EXCEPT ![n].rootVersion = v]
  <1>1. loads'["conflict"].state = "none" /\ save # Idle /\ save.stage = "saved"
    BY NotResolving, IdleTyped DEF IInv
  <1>2. n \in DOMAIN list /\ v \in Nat /\ Known(n, v)
    BY DEF Current, IInv, Types, Saves, Entries, VersionsOK, SaveOK
  <1>3. /\ DOMAIN l = DOMAIN list /\ l[n] = [list[n] EXCEPT !.rootVersion = v]
        /\ \A m \in DOMAIN list : m # n => l[m] = list[m]
        /\ l \in [DOMAIN list -> {l[m] : m \in DOMAIN list}]
    BY <1>2 DEF IInv, Types, IsMap
  <1>4. \A m \in DOMAIN list : /\ list[m] \in Entries /\ l[m] \in Entries
                              /\ l[m].folder = list[m].folder
                              /\ l[m].rootVersion = IF m = n THEN v ELSE list[m].rootVersion
    <2>1. \A m \in DOMAIN list : list[m] \in Entries
      BY DEF IInv, Types, IsMap
    <2> HIDE DEF l, v
    <2> QED BY <1>2, <1>3, <2>1 DEF Entries
  <1>5. IsMap(l, Entries)
    <2> HIDE DEF l
    <2> QED BY <1>3, <1>4 DEF IInv, Types, IsMap
  <1>6. /\ Finish("saved", l, issues \ {n}) /\ issues \ {n} \subseteq Notes
        /\ UNCHANGED <<serverVars, newest, reloads, edits>>
    BY DEF IInv, Types
  <1>7. list' = l
    <2> HIDE DEF l, n
    <2>1. Ended("saved", l)
      BY <1>5, <1>6, Finished
    <2> QED BY <2>1 DEF Ended
  <1>8. \A m \in DOMAIN l : KnownNext(m, l[m].rootVersion)
    <2> HIDE DEF l, v, n
    <2> QED BY <1>2, <1>3, <1>4 DEF IInv, VersionsOK, Known, KnownNext, serverVars
  <1>9. AnswersOK'
    BY DEF IInv, VersionsOK, AnswersOK, serverVars
  <1>10. ~Unfiles => \A m \in Notes : m \notin disturbed' /\ wish'[m] # "settled" =>
           /\ m \in DOMAIN l /\ list'[m].folder = wish'[m] /\ wish'[m] # NoFolder
           /\ Contains(pending, m)
    <2> SUFFICES ASSUME ~Unfiles, NEW m \in Notes, m \notin disturbed, wish[m] # "settled"
                 PROVE  /\ m \in DOMAIN l /\ l[m].folder = wish[m] /\ wish[m] # NoFolder
                        /\ Contains(pending, m)
      BY <1>7
    <2>1. WishOK(m)
      BY DEF IInv, WishesOK
    <2>2. ~Carried(m)
      BY <1>1 DEF Carried
    <2> HIDE DEF l
    <2> QED BY <1>3, <1>4, <2>1, <2>2 DEF WishOK
  <1>11. /\ wish' \in [Notes -> Places \union {"settled"}] /\ disturbed' \subseteq Notes
         /\ seen' \in [Notes -> Nat]
    BY DEF IInv, Types
  <1>12. /\ loads' = [k \in LoadKinds |-> loads'[k]]
         /\ \A k \in LoadKinds : IsLoad(loads'[k])
    BY LoadsSame DEF IInv
  <1>13. \A m \in Notes : m # save.note \/ "saved" # "conflict"
    OBVIOUS
  <1> HIDE DEF l
  <1> QED BY <1>1, <1>5, <1>6, <1>8, <1>9, <1>10, <1>11, <1>12, <1>13, FinishedOK

(* The user is told of a failure: the wish of the note is settled.         *)
LEMMA GivenUp ==
  ASSUME IInv, Finish("failed", list, issues \union {save.note}), Told(save.note),
         UNCHANGED <<serverVars, newest, reloads, edits, disturbed, seen>>,
         loads' = [k \in LoadKinds |-> loads'[k]], \A k \in LoadKinds : IsLoad(loads'[k]),
         AnswersOK', loads'["conflict"].state = "none"
  PROVE  IInv'
  <1> DEFINE told == issues \union {save.note}
  <1>1. save.note \in Notes /\ told \subseteq Notes /\ IsMap(list, Entries)
    BY DEF IInv, Types, Saves
  <1>2. \A n \in DOMAIN list : KnownNext(n, list[n].rootVersion)
    BY DEF IInv, VersionsOK, Known, KnownNext, serverVars
  <1>3. /\ wish' \in [Notes -> Places \union {"settled"}] /\ wish'[save.note] = "settled"
        /\ \A n \in Notes : n # save.note => wish'[n] = wish[n]
    BY <1>1 DEF Told, IInv, Types
  <1>4. \A n \in DOMAIN list : n # save.note => list'[n] = list[n]
    <2>1. Ended("failed", list)
      BY <1>1, Finished
    <2> QED BY <2>1 DEF Ended
  <1>5. ~Unfiles => \A n \in Notes : n \notin disturbed' /\ wish'[n] # "settled" =>
          /\ n \in DOMAIN list /\ list'[n].folder = wish'[n] /\ wish'[n] # NoFolder
          /\ Contains(pending, n) /\ n # save.note
    <2> SUFFICES ASSUME ~Unfiles, NEW n \in Notes, n \notin disturbed, wish'[n] # "settled"
                 PROVE  /\ n \in DOMAIN list /\ list'[n].folder = wish'[n]
                        /\ wish'[n] # NoFolder /\ Contains(pending, n) /\ n # save.note
      OBVIOUS
    <2>1. n # save.note /\ wish'[n] = wish[n]
      BY <1>3
    <2>2. WishOK(n)
      BY <2>1 DEF IInv, WishesOK
    <2> QED BY <1>4, <2>1, <2>2 DEF WishOK, Carried
  <1>6. disturbed' \subseteq Notes /\ seen' \in [Notes -> Nat]
    BY DEF IInv, Types
  <1>7. UNCHANGED <<serverVars, newest, reloads, edits>>
    OBVIOUS
  <1>8. Finish("failed", list, told)
    OBVIOUS
  <1> HIDE DEF told
  <1> QED BY <1>1, <1>2, <1>3, <1>5, <1>6, <1>7, <1>8, FinishedOK

LEMMA FailOK == ASSUME IInv, Fail PROVE IInv'
  <1> USE DEF Fail, loadVars
  <1>1. loads'["conflict"].state = "none"
    BY NotResolving DEF IInv
  <1>2. AnswersOK'
    BY DEF IInv, VersionsOK, AnswersOK, serverVars
  <1>3. /\ loads' = [k \in LoadKinds |-> loads'[k]]
        /\ \A k \in LoadKinds : IsLoad(loads'[k])
    BY LoadsSame DEF IInv
  <1> QED BY <1>1, <1>2, <1>3, GivenUp

LEMMA FailConflictOK == ASSUME IInv, FailToLoad("conflict") PROVE IInv'
  <1> USE DEF FailToLoad
  <1>1. /\ "conflict" \in LoadKinds /\ loads' = [loads EXCEPT !["conflict"] = NoLoad]
        /\ Finish("failed", list, issues \union {save.note}) /\ Told(save.note)
        /\ UNCHANGED <<serverVars, newest, reloads, edits, disturbed, seen>>
    BY DEF LoadKinds
  <1>2. /\ loads' = [j \in LoadKinds |-> loads'[j]]
        /\ \A j \in LoadKinds : IsLoad(loads'[j])
        /\ \A j \in LoadKinds : loads'[j] = IF j = "conflict" THEN NoLoad ELSE loads[j]
    BY <1>1, LoadSet, NewLoads DEF IInv
  <1>3. AnswersOK'
    BY <1>1, <1>2, AnswersStay, NewLoads DEF IInv, VersionsOK, serverVars
  <1>4. loads'["conflict"].state = "none"
    BY <1>1, <1>2, NewLoads
  <1> QED BY <1>1, <1>2, <1>3, <1>4, GivenUp

(* The drafts go back over what was loaded, as far as it still has them.   *)
LEMMA Redrawn ==
  ASSUME Types, NEW l, IsMap(l, Entries)
  PROVE  /\ IsMap(Redrafted(l), Entries) /\ DOMAIN Redrafted(l) = DOMAIN l
         /\ \A n \in DOMAIN l :
              /\ Redrafted(l)[n].rootVersion = l[n].rootVersion
              /\ n \in DOMAIN save.drafts /\ save.note \in DOMAIN l =>
                   Redrafted(l)[n].folder = save.drafts[n]
  <1> DEFINE r == Redrafted(l)
  <1>1. /\ DOMAIN r = DOMAIN l /\ r = [n \in DOMAIN l |-> r[n]]
        /\ \A n \in DOMAIN l :
             r[n] = IF n \in DOMAIN save.drafts /\ save.note \in DOMAIN l
                    THEN [l[n] EXCEPT !.folder = save.drafts[n]] ELSE l[n]
    BY DEF Redrafted
  <1> HIDE DEF r
  <1>2. ASSUME NEW n \in DOMAIN l
        PROVE  /\ r[n] \in Entries /\ r[n].rootVersion = l[n].rootVersion
               /\ n \in DOMAIN save.drafts /\ save.note \in DOMAIN l =>
                    r[n].folder = save.drafts[n]
    <2>1. l[n] \in Entries /\ (n \in DOMAIN save.drafts => save.drafts[n] \in Places)
      BY DEF IsMap, Types
    <2> QED BY <1>1, <2>1 DEF Entries
  <1>3. IsMap(r, Entries)
    <2>1. DOMAIN l \subseteq Notes /\ \A n \in DOMAIN l : r[n] \in Entries
      BY <1>2 DEF IsMap
    <2>2. r \in [DOMAIN l -> Entries]
      BY <1>1, <2>1
    <2> QED BY <1>1, <2>1, <2>2 DEF IsMap
  <1> QED BY <1>1, <1>2, <1>3 DEF r

LEMMA ConflictOK == ASSUME IInv, Conflict PROVE IInv'
  <1> USE DEF Conflict
  <1> DEFINE l == Redrafted(Loaded("conflict"))
             told == issues \union {save.note}
  <1>1. "conflict" \in LoadKinds /\ save.stage = "resolving"
    BY DEF LoadKinds, IInv, QueueOK
  <1>2. /\ Finish("conflict", l, told) /\ UNCHANGED <<serverVars, newest, reloads, edits>>
        /\ save.note \in Notes /\ told \subseteq Notes /\ Noticed("conflict")
        /\ UNCHANGED <<row, foreign>>
    BY DEF IInv, Types, Saves, serverVars
  <1>3. /\ seen' \in [Notes -> Nat] /\ IsMap(Loaded("conflict"), Entries)
        /\ \A n \in DOMAIN Loaded("conflict") :
             KnownNext(n, Loaded("conflict")[n].rootVersion)
    BY <1>1, <1>2, Shown
  <1>4. /\ IsMap(l, Entries) /\ DOMAIN l = DOMAIN Loaded("conflict")
        /\ \A n \in DOMAIN l :
             /\ l[n].rootVersion = Loaded("conflict")[n].rootVersion
             /\ n \in DOMAIN save.drafts /\ save.note \in DOMAIN l =>
                  l[n].folder = save.drafts[n]
    BY <1>3, Redrawn DEF IInv
  <1> HIDE DEF l, told
  <1>5. \A n \in DOMAIN l : KnownNext(n, l[n].rootVersion)
    BY <1>3, <1>4
  <1>6. DOMAIN list' = DOMAIN l /\ \A n \in DOMAIN l : n # save.note => list'[n] = l[n]
    <2>1. Ended("conflict", l)
      BY <1>2, <1>4, Finished
    <2> QED BY <2>1 DEF Ended
  <1>7. /\ loads' = [j \in LoadKinds |-> loads'[j]]
        /\ \A j \in LoadKinds : IsLoad(loads'[j])
        /\ \A j \in LoadKinds : loads'[j] = IF j = "conflict" THEN NoLoad ELSE loads[j]
    BY <1>1, LoadSet, NewLoads DEF IInv
  <1>8. AnswersOK' /\ loads'["conflict"].state = "none"
    BY <1>1, <1>2, <1>7, AnswersStay, NewLoads DEF IInv, VersionsOK
  <1>9. /\ wish' \in [Notes -> Places \union {"settled"}]
        /\ \A n \in Notes : wish'[n] # "settled" =>
             n # save.note /\ n \notin Gone(list') /\ wish'[n] = wish[n]
    BY DEF IInv, Types
  <1>10. /\ disturbed \subseteq disturbed' /\ disturbed' \subseteq Notes
         /\ save.note \notin DOMAIN l => DOMAIN save.drafts \subseteq disturbed'
    BY <1>4 DEF IInv, Types, IsMap
  <1>11. ~Unfiles => \A n \in Notes : n \notin disturbed' /\ wish'[n] # "settled" =>
           /\ n \in DOMAIN l /\ list'[n].folder = wish'[n] /\ wish'[n] # NoFolder
           /\ Contains(pending, n) /\ n # save.note
    <2> SUFFICES ASSUME ~Unfiles, NEW n \in Notes, n \notin disturbed', wish'[n] # "settled"
                 PROVE  /\ n \in DOMAIN l /\ list'[n].folder = wish'[n]
                        /\ wish'[n] # NoFolder /\ Contains(pending, n) /\ n # save.note
      OBVIOUS
    <2>1. n # save.note /\ n \notin Gone(list') /\ wish'[n] = wish[n] /\ n \notin disturbed
      BY <1>9, <1>10
    <2>2. WishOK(n)
      BY <2>1 DEF IInv, WishesOK
    <2>3. Contains(pending, n) /\ Drafted(n) /\ n \in DOMAIN list /\ wish[n] # NoFolder
      BY <1>1, <2>1, <2>2 DEF WishOK, Carried
    <2>4. n \in DOMAIN l
      BY <1>6, <2>1, <2>3 DEF Gone
    <2>5. save.note \in DOMAIN l
      BY <1>10, <2>3 DEF Drafted
    <2>6. list'[n].folder = save.drafts[n]
      BY <1>4, <1>6, <2>1, <2>3, <2>4, <2>5 DEF Drafted
    <2> QED BY <2>1, <2>3, <2>4, <2>6 DEF Drafted
  <1> HIDE DEF Conflict
  <1> QED BY <1>2, <1>3, <1>4, <1>5, <1>7, <1>8, <1>9, <1>10, <1>11, FinishedOK

-----------------------------------------------------------------------------
LEMMA InitOK == ASSUME Init PROVE IInv
  <1> USE DEF Init
  <1> DEFINE r == [folder |-> NoFolder, version |-> 1, trashed |-> FALSE]
             e == [folder |-> NoFolder, version |-> 1, rootVersion |-> 1]
  <1>0. /\ r \in Rows /\ e \in Entries /\ r.version = 1 /\ r.folder = NoFolder
        /\ e.rootVersion = 1
    BY DEF Rows, Entries, Places
  <1>1. row = [n \in InitialNotes |-> r] /\ list = [n \in InitialNotes |-> e]
    BY DEF Init
  <1>2. /\ IsMap(row, Rows) /\ IsMap(list, Entries)
        /\ DOMAIN row = InitialNotes /\ DOMAIN list = InitialNotes
        /\ \A n \in InitialNotes : row[n] = r /\ list[n] = e
    <2> HIDE DEF r, e, Init
    <2> QED BY <1>0, <1>1, NotesAssumption DEF IsMap
  <1>3. NoAction \in Actions /\ NoAction.kind = "none"
    BY NoNote DEF NoAction, Actions, Kinds, Places
  <1>4. /\ loads = [k \in LoadKinds |-> NoLoad] /\ newest \in LoadKinds
        /\ \A k \in LoadKinds : loads[k] = NoLoad
        /\ loads["conflict"].state = "none"
    BY NewLoads DEF LoadKinds
  <1>5. /\ pending = << >> /\ timer = FALSE /\ save = Idle /\ issues = {} /\ disturbed = {}
        /\ folders = Folders /\ action = NoAction
        /\ wish = [n \in Notes |-> "settled"]
        /\ foreign = [n \in Notes |-> 0] /\ seen = [n \in Notes |-> 0]
        /\ edits = 0 /\ elsewhere = 0 /\ reloads = 0
    OBVIOUS
  <1> HIDE DEF r, e, Init
  <1>6. Types
    <2>1. loads = [k \in LoadKinds |-> loads[k]] /\ \A k \in LoadKinds : IsLoad(loads[k])
      BY <1>4, NewLoads
    <2>2. save \in Saves({save.drafts}) /\ IsMap(save.drafts, Places)
      BY <1>5, IdleTyped
    <2>3. edits \in 0..MaxEdits /\ elsewhere \in 0..MaxElsewhere /\ reloads \in 0..MaxReloads
      BY <1>5, BoundsAssumption
    <2>4. /\ wish \in [Notes -> Places \union {"settled"}]
          /\ foreign \in [Notes -> Nat] /\ seen \in [Notes -> Nat]
      BY <1>5
    <2> QED BY <1>2, <1>3, <1>4, <1>5, <2>1, <2>2, <2>3, <2>4, EmptyQueue DEF Types
  <1>7. VersionsOK
    <2>1. \A n \in Notes : foreign[n] = 0 /\ seen[n] = 0
      BY <1>5
    <2>2. RowsOK
      BY <1>0, <1>2, <2>1 DEF RowsOK
    <2>3. \A n \in DOMAIN list : Known(n, list[n].rootVersion)
      BY <1>0, <1>2, <2>1, NotesAssumption DEF Known
    <2>4. AnswersOK
      BY <1>4, NewLoads DEF AnswersOK
    <2>5. SaveOK
      BY <1>5, IdleTyped DEF SaveOK
    <2> QED BY <1>3, <1>5, <2>2, <2>3, <2>4, <2>5 DEF VersionsOK
  <1>8. QueueOK
    BY <1>3, <1>4, <1>5, EmptyQueue, IdleTyped DEF QueueOK
  <1>9. WishesOK
    BY <1>5 DEF WishesOK
  <1> QED BY <1>6, <1>7, <1>8, <1>9 DEF IInv

LEMMA NextOK == ASSUME IInv, Next PROVE IInv'
  <1>1. ASSUME Others PROVE IInv'
    BY <1>1, SaveElsewhereOK, TrashElsewhereOK, DeleteFolderElsewhereOK DEF Others
  <1>2. ASSUME User PROVE IInv'
    BY <1>2, EditOK, MoveOK, RetitleOK, TrashOK, CreateNoteOK DEF User
  <1>3. ASSUME Saving PROVE IInv'
    <2>1. ASSUME Answer("conflict") PROVE IInv'
      BY <2>1, AnswerOK DEF LoadKinds
    <2> QED BY <1>3, <2>1, TimerFiresOK, SkipOK, SendOK, StoreOK, SavedOK, FailOK,
               ResolveOK, ConflictOK, FailConflictOK DEF Saving
  <1>4. ASSUME Listing PROVE IInv'
    <2>1. ASSUME Answer("events") PROVE IInv'
      BY <2>1, AnswerOK DEF LoadKinds
    <2> QED BY <1>4, <2>1, ShowReloadOK, DropFolderOK DEF Listing
  <1>5. ASSUME Acting PROVE IInv'
    BY <1>5, DeleteNoteOK, TrashedOK, CreatedOK DEF Acting
  <1> QED BY <1>1, <1>2, <1>3, <1>4, <1>5, ReloadOK, FailEventsOK, LoseOK DEF Next

LEMMA StillOK == ASSUME IInv, UNCHANGED vars PROVE IInv'
  <1> USE DEF vars
  <1>1. Types'
    BY DEF IInv, Types
  <1>2. VersionsOK'
    BY VersionsUnmoved, SaveUnmoved DEF IInv, VersionsOK
  <1>3. QueueOK'
    BY QueueSame DEF IInv
  <1> QED BY <1>1, <1>2, <1>3, WishesSame DEF IInv

(* Type correctness and the inductive invariant: what the list, the save   *)
(* under way and the loads know of versions is or was the server's, one    *)
(* save is under way at a time, and every wish that no load was shown over *)
(* is in the queue or carried by that save (hooks/useNoteAutosave.ts).     *)
THEOREM Invariance == Spec => []IInv
  <1>1. Init => IInv
    BY InitOK
  <1>2. IInv /\ [Next]_vars => IInv'
    BY NextOK, StillOK
  <1> QED BY <1>1, <1>2, PTL DEF Spec

(* No save of this client is stored over a version of others its list has  *)
(* not shown: what flushAutosave copies from the list it was last given is *)
(* what the server's version check compares.                               *)
THEOREM SeenBeforeOverwritten == Spec => StoresOverSeen
  <1>1. IInv /\ [Next]_vars =>
          [\A n \in Notes :
             n \in DOMAIN row /\ save.stage = "sent" /\ save.note = n
             /\ save'.stage = "saved" => foreign[n] <= seen[n]]_vars
    <2> SUFFICES ASSUME IInv, Next, save.stage = "sent", save.note \in DOMAIN row,
                        save'.stage = "saved"
                 PROVE  foreign[save.note] <= seen[save.note]
      BY DEF vars
    <2>1. ASSUME Store PROVE foreign[save.note] <= seen[save.note]
      <3>1. Accepts(save.note, save.copy)
        <4>1. save' # [save EXCEPT !.stage = "refused"]
          BY DEF IInv, Types, Saves
        <4> QED BY <2>1, <4>1 DEF Store
      <3>2. /\ row[save.note].version = save.copy.rootVersion
            /\ Known(save.note, save.copy.rootVersion)
            /\ foreign[save.note] <= row[save.note].version
        BY <3>1 DEF Accepts, IInv, VersionsOK, SaveOK, RowsOK, Types, Saves
      <3>3. foreign[save.note] \in Nat /\ row[save.note].version \in Nat
        BY DEF IInv, Types, IsMap, Rows, Saves
      <3> QED BY <3>2, <3>3 DEF Known
    <2>2. save # Idle /\ ~timer /\ loads["conflict"].state = "none"
      BY IdleTyped, NotResolving DEF IInv, QueueOK
    <2>3. ASSUME Lose PROVE FALSE
      BY <2>3 DEF Lose, IInv, Types, Saves
    <2>4. ASSUME Others PROVE save' = save
      BY <2>4 DEF Others, SaveElsewhere, TrashElsewhere, DeleteFolderElsewhere
    <2>5. ASSUME User PROVE save' = save
      <3>1. ASSUME NEW n \in Notes, NEW p \in Places, Edit(n, p) \/ Move(n, p)
            PROVE  save' = save
        BY <2>2, <3>1 DEF Edit, Schedule, Move, Drain
      <3>2. ASSUME NEW n \in Notes, Retitle(n) \/ Trash(n) \/ CreateNote(n)
            PROVE  save' = save
        BY <2>2, <3>2 DEF Retitle, Schedule, Trash, Drain, CreateNote
      <3> QED BY <2>5, <3>1, <3>2 DEF User
    <2>6. ASSUME Saving PROVE Store \/ save' = save
      <3>1. ~(TimerFires \/ Skip \/ Send \/ Saved \/ Fail \/ Resolve \/ Conflict)
        BY <2>2 DEF TimerFires, Skip, Send, Saved, Fail, Resolve, Conflict
      <3>2. ~FailToLoad("conflict") /\ ~Answer("conflict")
        BY <2>2 DEF FailToLoad, Answer
      <3> QED BY <2>6, <3>1, <3>2 DEF Saving
    <2>7. ASSUME Listing \/ Acting \/ Reload \/ FailToLoad("events") PROVE save' = save
      BY <2>7 DEF Listing, Answer, ShowReload, DropFolder, Acting, DeleteNote, Trashed,
                  Created, Reload, FailToLoad
    <2> QED BY <2>1, <2>3, <2>4, <2>5, <2>6, <2>7 DEF Next
  <1> QED BY <1>1, Invariance, PTL DEF Spec, StoresOverSeen

(* A note's place that the user chose stays on the list and is waiting to  *)
(* be saved or being saved until it is stored or the user is told, unless  *)
(* a load of the list was shown over it: what updateSelectedNote,          *)
(* flushAutosave and preserveDraftAfterSaveConflict together promise, as   *)
(* long as no note is taken out of its folder, which a save cannot say.    *)
THEOREM KeptUntilSettled == ~Unfiles => (Spec => []WishesKept)
  <1> SUFFICES ASSUME ~Unfiles PROVE Spec => []WishesKept
    OBVIOUS
  <1>1. IInv => TypeOK
    <2> SUFFICES ASSUME IInv PROVE TypeOK
      OBVIOUS
    <2>1. IsList(list) /\ \A k \in LoadKinds : IsList(loads[k].answer)
      BY DEF IInv, Types, IsMap, IsList, IsLoad
    <2>2. /\ save.note \in Notes /\ save.stage \in Stages /\ save.copy \in Entries
          /\ DOMAIN save.drafts \subseteq Notes
      BY DEF IInv, Types, Saves, IsMap
    <2>3. action.kind \in Kinds /\ action.previous \in Places
      BY DEF IInv, Types, Actions
    <2>4. \A k \in LoadKinds : loads[k].state \in {"none", "asked", "answered"}
                              /\ loads[k].initial \subseteq Notes
      BY DEF IInv, Types, IsLoad, States
    <2> QED BY <2>1, <2>2, <2>3, <2>4 DEF TypeOK, IInv, Types, QueueOK, IsMap
  <1>2. IInv => WishesKept
    <2>1. ASSUME IInv, NEW n \in Notes, WishOK(n) PROVE Awaited(n)
      BY <2>1, IdleTyped DEF WishOK, Carried, Awaited
    <2> QED BY <1>1, <2>1 DEF IInv, WishesOK, WishOK, WishesKept
  <1> QED BY <1>2, Invariance, PTL
=============================================================================
