--------------------------- MODULE DurableSection ---------------------------
(***************************************************************************)
(* What the encrypted section log promises to its readers, without saying  *)
(* how: the content accepted in a key epoch only ever grows, nothing is    *)
(* added to an epoch that has been rotated away, and a reader that has     *)
(* caught up knows exactly the content accepted so far.  SectionHistory    *)
(* implements this with numbered rows, compacting checkpoints and paged    *)
(* reads.                                                                  *)
(***************************************************************************)
EXTENDS Integers

CONSTANTS
  UpdateIds,   \* the edits of the section, each an opaque CRDT update
  Readers,     \* the clients that read the section
  MaxEpoch     \* bound on key rotations

VARIABLES
  content,     \* [1..MaxEpoch -> SUBSET UpdateIds] accepted edits per epoch
  epoch,       \* the note's current key epoch
  known        \* [Readers -> [epoch, ids]] what each reader last caught up with

vars == <<content, epoch, known>>

Init ==
  /\ content = [e \in 1..MaxEpoch |-> {}]
  /\ epoch = 1
  /\ known = [c \in Readers |-> [epoch |-> 0, ids |-> {}]]

(* Edits are accepted into the current epoch and stay. *)
Accept ==
  /\ \E ids \in SUBSET UpdateIds :
       content' = [content EXCEPT ![epoch] = @ \union ids]
  /\ UNCHANGED <<epoch, known>>

Rotate ==
  /\ epoch < MaxEpoch
  /\ epoch' = epoch + 1
  /\ UNCHANGED <<content, known>>

(* A reader starts from nothing in the current epoch. *)
Open(c) ==
  /\ known' = [known EXCEPT ![c] = [epoch |-> epoch, ids |-> {}]]
  /\ UNCHANGED <<content, epoch>>

(* A reader of the current epoch catches up, at one instant. *)
Read(c) ==
  /\ known[c].epoch = epoch
  /\ known' = [known EXCEPT ![c].ids = content[epoch]]
  /\ UNCHANGED <<content, epoch>>

Next ==
  \/ Accept
  \/ Rotate
  \/ \E c \in Readers : Open(c) \/ Read(c)

Spec == Init /\ [][Next]_vars
=============================================================================
