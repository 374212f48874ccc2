---------------------------- MODULE NoteSharing ----------------------------
(***************************************************************************)
(* One note shared by its owner: the note's key at each epoch, the shares  *)
(* of it sealed for the members, the links from each epoch's key to the    *)
(* one before, and the members' own sharing keys.  The owner works on      *)
(* several devices that see the note as they last loaded it; inviting and  *)
(* revoking are the sequences of requests the sharing panel makes.         *)
(*                                                                         *)
(* Keys are numbered as they are made.  What is encrypted is described by  *)
(* the key it is under and what it is bound to.                            *)
(***************************************************************************)
EXTENDS Integers, FiniteSets

CONSTANTS
    Owners,         \* the devices of the owner
    Inviting,       \* those of them that invite
    Members,        \* the users the note may be shared with
    Invited,        \* those of them that the note is shared with at first
    Renewing,       \* those of them that renew their sharing key
    None,           \* no share, no failure, nothing loaded
    MaxEpoch,       \* bound: epochs of the note
    MaxKeys,        \* bound: keys made for the note
    MaxSharingKeys, \* bound: versions of a member's sharing key
    MaxInvites,     \* bound: invitations stored
    MaxTitles       \* bound: changes of the title

ASSUME SharingAssumption ==
    /\ None \notin Owners \cup Members
    /\ Inviting \subseteq Owners /\ Invited \subseteq Members /\ Renewing \subseteq Members
    /\ MaxEpoch \in Nat \ {0} /\ MaxKeys \in Nat /\ MaxSharingKeys \in Nat \ {0}
    /\ MaxInvites \in Nat /\ MaxTitles \in Nat

(* None is no share. *)
ASSUME NoneAssumption ==
    None \notin [key: 0..MaxKeys, epoch: 1..MaxEpoch, version: 1..MaxSharingKeys]

VARIABLES
    note,       \* notes: epoch, root version, key, title and the key it is under
    links,      \* note_epoch_links
    status,     \* note_memberships: status of each user
    share,      \* note_key_shares: the share of each user
    published,  \* user_sharing_keys: the versions of each user
    view,       \* the note as each device of the owner shows it
    job,        \* what the sharing panel of each device is doing
    failed,     \* revocationRotationFailures: the revocation to retry
    trusted,    \* sharing key trust records of each device
    made,       \* the number of keys made after the first
    opened,     \* the key each member shows the note with
    loading,    \* the summary a member loads the note from
    behind,     \* members who have an event still to handle
    invites,    \* ghost: invitations stored
    known,      \* ghost: the keys each member was ever given
    late        \* ghost: members whose share was sealed before the last rotation

server == <<note, links, status, share, published>>
owners == <<view, job, failed, trusted, made>>
members == <<opened, loading>>
ghosts == <<invites, known, late>>
vars == <<server, owners, members, behind, ghosts>>

Keys == 0..MaxKeys

Idle == [at |-> "idle"]

Init ==
    /\ note = [epoch |-> 1, root |-> 1, key |-> 0, titleKey |-> 0, title |-> 0]
    /\ links = {}
    /\ status = [m \in Members |-> IF m \in Invited THEN "active" ELSE "none"]
    /\ share = [m \in Members |->
                  IF m \in Invited THEN [key |-> 0, epoch |-> 1, version |-> 1] ELSE None]
    /\ published = [m \in Members |-> {1}]
    /\ view = [o \in Owners |-> [epoch |-> 1, root |-> 1, key |-> 0, title |-> 0]]
    /\ job = [o \in Owners |-> Idle]
    /\ failed = [o \in Owners |-> None]
    /\ trusted = [o \in Owners |-> Invited \X {1}]
    /\ made = 0
    /\ opened = [m \in Members |-> IF m \in Invited THEN 0 ELSE None]
    /\ loading = [m \in Members |-> None]
    /\ behind = {}
    /\ invites = 0
    /\ known = [m \in Members |-> IF m \in Invited THEN {0} ELSE {}]
    /\ late = {}

---------------------------------------------------------------------------
At(o, stage) == job[o].at = stage
Goes(o, to) == job' = [job EXCEPT ![o] = to]

(* The newest sharing key of a user, as a lookup returns it.               *)
Current(m) == CHOOSE v \in published[m] : \A w \in published[m] : w <= v

Active == {m \in Members : status[m] = "active"}

(* A device of the owner loads the note; the envelope comes with it.       *)
Load(o) ==
    /\ view' = [view EXCEPT ![o] = [epoch |-> note.epoch, root |-> note.root,
                                    key |-> note.key, title |-> note.title]]

Reload(o) ==
    /\ Load(o)
    /\ UNCHANGED <<server, job, failed, trusted, made, members, behind, ghosts>>

(* The server takes a save only for the root version and epoch it has.     *)
TakenUnchecked(o) == TRUE

Taken(o) == note.root = view[o].root /\ note.epoch = view[o].epoch

(* The title is saved under the key the device has.                        *)
SaveTitle(o) ==
    /\ note.title < MaxTitles
    /\ Taken(o)
    /\ note' = [epoch |-> note.epoch, root |-> note.root + 1, key |-> note.key,
                titleKey |-> view[o].key, title |-> note.title + 1]
    /\ view' = [view EXCEPT ![o] = [epoch |-> note.epoch, root |-> note.root + 1,
                                    key |-> view[o].key, title |-> note.title + 1]]
    /\ behind' = behind \cup Active
    /\ UNCHANGED <<links, status, share, published, job, failed, trusted, made,
                   members, ghosts>>

---------------------------------------------------------------------------
(* Inviting *)

(* What an invitation carries: the note key as the device has it, bound to *)
(* the device's epoch and sealed for one version of the sharing key.       *)
Sealed(o, version) ==
    [key |-> view[o].key, epoch |-> view[o].epoch, version |-> version]

(* The sharing key is looked up; an unknown one has to be confirmed first. *)
SubmitInvite(o, m) ==
    /\ o \in Inviting /\ At(o, "idle") /\ invites < MaxInvites
    /\ LET v == Current(m)
       IN  Goes(o, IF <<m, v>> \in trusted[o]
                   THEN [at |-> "invite", member |-> m, seal |-> Sealed(o, v)]
                   ELSE [at |-> "confirm", member |-> m, seal |-> Sealed(o, v)])
    /\ UNCHANGED <<server, view, failed, trusted, made, members, behind, ghosts>>

(* The owner confirms, unless the note key changed meanwhile, or cancels.  *)
ConfirmTrust(o) ==
    /\ At(o, "confirm")
    /\ IF job[o].seal.key = view[o].key
       THEN /\ trusted' = [trusted EXCEPT ![o] = @ \cup {<<job[o].member, job[o].seal.version>>}]
            /\ Goes(o, [at |-> "invite", member |-> job[o].member,
                        seal |-> Sealed(o, job[o].seal.version)])
       ELSE Goes(o, Idle) /\ UNCHANGED trusted
    /\ UNCHANGED <<server, view, failed, made, members, behind, ghosts>>

CancelTrust(o) ==
    /\ At(o, "confirm")
    /\ Goes(o, Idle)
    /\ UNCHANGED <<server, view, failed, trusted, made, members, behind, ghosts>>

(* Membership and share are stored together if the sharing key exists;     *)
(* nothing says which epoch the share is for.                              *)
Invite(o) ==
    LET m == job[o].member
        seal == job[o].seal
    IN  /\ At(o, "invite")
        /\ Goes(o, Idle)
        /\ IF seal.version \notin published[m]
           THEN UNCHANGED <<status, share, behind, ghosts>>
           ELSE /\ status' = [status EXCEPT ![m] = "active"]
                /\ share' = [share EXCEPT ![m] = seal]
                /\ behind' = behind \cup Active \cup {m}
                /\ invites' = invites + 1
                /\ known' = [known EXCEPT ![m] = @ \cup {seal.key}]
                /\ late' = IF seal.epoch = note.epoch THEN late \ {m} ELSE late \cup {m}
        /\ UNCHANGED <<note, links, published, view, failed, trusted, made, members>>

---------------------------------------------------------------------------
(* Revoking *)

(* A new key with the owner's envelope, the title and the link to the old  *)
(* key, all prepared from what the device shows.                           *)
Prepared(o) ==
    [key |-> made + 1, epoch |-> view[o].epoch + 1, root |-> view[o].root,
     old |-> view[o].key, title |-> view[o].title]

(* A preparation that failed is used again while the note is as it was.    *)
Matches(o, preparation) ==
    /\ preparation.root = view[o].root
    /\ preparation.epoch = view[o].epoch + 1

Revoking(o, m, preparation) ==
    [at |-> "wrap", member |-> m, others |-> Active \ {m}, preparation |-> preparation]

Revoke(o, m) ==
    /\ At(o, "idle") /\ status[m] = "active"
    /\ view[o].epoch < MaxEpoch /\ made < MaxKeys
    /\ Goes(o, Revoking(o, m, Prepared(o)))
    /\ made' = made + 1
    /\ UNCHANGED <<server, view, failed, trusted, members, behind, ghosts>>

(* A retry asks first whether the lost request did its work.               *)
Retry(o) ==
    /\ At(o, "idle") /\ failed[o] # None
    /\ LET m == failed[o].member
       IN  IF status[m] = "revoked"
           THEN /\ Load(o)
                /\ failed' = [failed EXCEPT ![o] = None]
                /\ UNCHANGED <<job, made>>
           ELSE /\ UNCHANGED <<view, failed>>
                /\ IF Matches(o, failed[o].preparation)
                   THEN /\ Goes(o, Revoking(o, m, failed[o].preparation))
                        /\ UNCHANGED made
                   ELSE /\ view[o].epoch < MaxEpoch /\ made < MaxKeys
                        /\ Goes(o, Revoking(o, m, Prepared(o)))
                        /\ made' = made + 1
    /\ UNCHANGED <<server, trusted, members, behind, ghosts>>

Fails(o) ==
    /\ failed' = [failed EXCEPT ![o] = [member |-> job[o].member,
                                        preparation |-> job[o].preparation]]
    /\ Goes(o, Idle)

(* The new key is sealed for every other member, with the sharing key that *)
(* is looked up now; one that is not trusted ends the attempt.             *)
WrapShares(o) ==
    /\ At(o, "wrap")
    /\ LET others == job[o].others
       IN  IF \A m \in others : <<m, Current(m)>> \in trusted[o]
           THEN /\ Goes(o, [at |-> "rotate", member |-> job[o].member,
                            preparation |-> job[o].preparation,
                            versions |-> [m \in others |-> Current(m)]])
                /\ UNCHANGED failed
           ELSE Fails(o)
    /\ UNCHANGED <<server, view, trusted, made, members, behind, ghosts>>

(* What the transaction checks: that the note is as it was prepared, that  *)
(* the member is active, that the shares are those of the others and that  *)
(* their sharing keys exist.                                               *)
UnchangedSince(preparation) ==
    note.epoch = preparation.epoch - 1

Unmoved(preparation) ==
    /\ note.root = preparation.root
    /\ note.epoch = preparation.epoch - 1

SubsetOfMembers(o) ==
    /\ status[job[o].member] = "active"
    /\ DOMAIN job[o].versions \subseteq Active \ {job[o].member}
    /\ \A m \in DOMAIN job[o].versions : job[o].versions[m] \in published[m]

SameMembers(o) ==
    /\ status[job[o].member] = "active"
    /\ DOMAIN job[o].versions = Active \ {job[o].member}
    /\ \A m \in DOMAIN job[o].versions : job[o].versions[m] \in published[m]

(* The shares after the rotation; the member revoked loses his.            *)
Shares(o) ==
    [m \in Members |->
        IF m \in DOMAIN job[o].versions
        THEN [key |-> job[o].preparation.key, epoch |-> job[o].preparation.epoch,
              version |-> job[o].versions[m]]
        ELSE IF m = job[o].member THEN None ELSE share[m]]

Rotate(o) ==
    LET p == job[o].preparation
    IN  /\ At(o, "rotate")
        /\ Unmoved(p) /\ SameMembers(o)
        /\ note' = [epoch |-> p.epoch, root |-> note.root + 1, key |-> p.key,
                    titleKey |-> p.key, title |-> p.title]
        /\ links' = links \cup {[source |-> p.epoch - 1, target |-> p.epoch,
                                 holds |-> p.old, under |-> p.key]}
        /\ status' = [status EXCEPT ![job[o].member] = "revoked"]
        /\ share' = Shares(o)
        /\ Goes(o, [at |-> "rotated", member |-> job[o].member, preparation |-> p])
        /\ behind' = behind \cup Active
        /\ known' = [m \in Members |->
                       IF m \in DOMAIN job[o].versions THEN known[m] \cup {p.key} ELSE known[m]]
        /\ late' = {}
        /\ UNCHANGED <<published, view, failed, trusted, made, members, invites>>

RotationRefused(o) ==
    /\ At(o, "rotate")
    /\ ~(Unmoved(job[o].preparation) /\ SameMembers(o))
    /\ Fails(o)
    /\ UNCHANGED <<server, view, trusted, made, members, behind, ghosts>>

(* The answer replaces what the device shows of the note.                  *)
RotationAnswered(o) ==
    LET p == job[o].preparation
    IN  /\ At(o, "rotated")
        /\ view' = [view EXCEPT ![o] = [epoch |-> p.epoch, root |-> p.root + 1,
                                        key |-> p.key, title |-> view[o].title]]
        /\ failed' = [failed EXCEPT ![o] = None]
        /\ Goes(o, Idle)
        /\ UNCHANGED <<server, trusted, made, members, behind, ghosts>>

AnswerLost(o) ==
    /\ At(o, "rotated")
    /\ Fails(o)
    /\ UNCHANGED <<server, view, trusted, made, members, behind, ghosts>>

---------------------------------------------------------------------------
(* Members *)

(* A new version of the sharing key; versions before it are kept while a   *)
(* share is sealed for them.                                               *)
RotateSharingKey(m) ==
    /\ m \in Renewing /\ Current(m) < MaxSharingKeys
    /\ published' = [published EXCEPT ![m] = @ \cup {Current(m) + 1}]
    /\ UNCHANGED <<note, links, status, share, owners, members, behind, ghosts>>

Retired(m) ==
    {v \in published[m] : v < Current(m) /\ ~(share[m] # None /\ share[m].version = v)}

CleanupSharingKeys(m) ==
    /\ Retired(m) # {}
    /\ published' = [published EXCEPT ![m] = @ \ Retired(m)]
    /\ UNCHANGED <<note, links, status, share, owners, members, behind, ghosts>>

(* The list is loaded, then the share, by another request.                 *)
LoadSummary(m) ==
    /\ m \in behind /\ loading[m] = None
    /\ behind' = behind \ {m}
    /\ IF status[m] = "active"
       THEN loading' = [loading EXCEPT ![m] = [epoch |-> note.epoch, key |-> note.titleKey]]
            /\ UNCHANGED opened
       ELSE opened' = [opened EXCEPT ![m] = None] /\ UNCHANGED loading
    /\ UNCHANGED <<server, owners, ghosts>>

Opens(s, m, summary) ==
    /\ s # None
    /\ s.version \in published[m]
    /\ s.epoch = summary.epoch /\ s.key = summary.key

OpenHandlingAll(m) ==
    /\ loading[m] # None
    /\ IF Opens(share[m], m, loading[m])
       THEN opened' = [opened EXCEPT ![m] = share[m].key]
       ELSE UNCHANGED opened
    /\ behind' = behind \ {m}
    /\ loading' = [loading EXCEPT ![m] = None]
    /\ UNCHANGED <<server, owners, ghosts>>

(* A load that cannot open the share shows nothing and is owed again.      *)
OpenShare(m) ==
    /\ loading[m] # None
    /\ IF Opens(share[m], m, loading[m])
       THEN opened' = [opened EXCEPT ![m] = share[m].key] /\ UNCHANGED behind
       ELSE behind' = behind \cup {m} /\ UNCHANGED opened
    /\ loading' = [loading EXCEPT ![m] = None]
    /\ UNCHANGED <<server, owners, ghosts>>

---------------------------------------------------------------------------
OwnerNext(o) ==
    \/ Reload(o) \/ SaveTitle(o)
    \/ \E m \in Members : SubmitInvite(o, m) \/ Revoke(o, m)
    \/ ConfirmTrust(o) \/ CancelTrust(o) \/ Invite(o)
    \/ Retry(o) \/ WrapShares(o) \/ Rotate(o) \/ RotationRefused(o)
    \/ RotationAnswered(o) \/ AnswerLost(o)

MemberNext(m) ==
    RotateSharingKey(m) \/ CleanupSharingKeys(m) \/ LoadSummary(m) \/ OpenShare(m)

Next == (\E o \in Owners : OwnerNext(o)) \/ (\E m \in Members : MemberNext(m))

(* Events arrive and loads are answered.                                   *)
Fairness == \A m \in Members : WF_vars(LoadSummary(m) \/ OpenShare(m))

Spec == Init /\ [][Next]_vars /\ Fairness

---------------------------------------------------------------------------
(* Properties *)

(* Every variable has the shape the code gives it.                         *)
TypeOK ==
    /\ note \in [epoch: 1..MaxEpoch, root: Nat, key: Keys, titleKey: Keys, title: 0..MaxTitles]
    /\ \A l \in links : l \in [source: 1..MaxEpoch, target: 1..MaxEpoch, holds: Keys, under: Keys]
    /\ status \in [Members -> {"none", "active", "revoked"}]
    /\ \A m \in Members :
           /\ share[m] = None \/ share[m] \in [key: Keys, epoch: 1..MaxEpoch,
                                               version: 1..MaxSharingKeys]
           /\ published[m] \subseteq 1..MaxSharingKeys /\ published[m] # {}
           /\ opened[m] = None \/ opened[m] \in Keys
           /\ loading[m] = None \/ loading[m] \in [epoch: 1..MaxEpoch, key: Keys]
    /\ \A o \in Owners :
           /\ view[o] \in [epoch: 1..MaxEpoch, root: Nat, key: Keys, title: 0..MaxTitles]
           /\ job[o].at \in {"idle", "confirm", "invite", "wrap", "rotate", "rotated"}
           /\ trusted[o] \subseteq Members \X (1..MaxSharingKeys)
    /\ behind \subseteq Members

(* At every epoch there is one key: title and envelope are under the       *)
(* present one, and each key leads to the key before it, back to the first *)
(* (postgresRotationRepository.ts, lib/keyMaterial.ts).                    *)
OneKeyPerEpoch ==
    /\ TypeOK
    /\ note.titleKey = note.key
    /\ Cardinality(links) = note.epoch - 1
    /\ \A e \in 1..(note.epoch - 1) : \E l \in links :
           /\ l.source = e /\ l.target = e + 1
           /\ l.under = IF e + 1 = note.epoch THEN note.key
                        ELSE (CHOOSE k \in links : k.source = e + 1).holds

(* An active member has a share that opens the present key with a sharing  *)
(* key that still exists; only a share an invitation sealed before a       *)
(* rotation and stored after it does not                                   *)
(* (postgresMembershipRepository.ts, postgresRotationRepository.ts).       *)
MembersCanRead ==
    \A m \in Active :
        /\ share[m] # None /\ share[m].version \in published[m]
        /\ m \in late \/ (share[m].key = note.key /\ share[m].epoch = note.epoch)

(* A member who was revoked has no share, and was never given the key the  *)
(* note has now (SharingPanel.tsx, postgresRotationRepository.ts).         *)
RevokedCannotRead ==
    \A m \in Members : status[m] = "revoked" => share[m] = None /\ note.key \notin known[m]

(* The present key reaches who may read, and nobody who was revoked,       *)
(* however invitations, renewals, revocations and retries overlap          *)
(* (postgresMembershipRepository.ts, postgresRotationRepository.ts).       *)
OnlyMembersRead == MembersCanRead /\ RevokedCannotRead

(* A rotation encrypts the title it found and never brings back an earlier *)
(* one (lib/keyMaterial.ts, postgresRotationRepository.ts).                *)
TitlesKept == [][note'.title >= note.title]_vars

(* Whatever rotations his loads run into, a member who stays comes to show *)
(* the note with its present key (hooks/useAppData.ts, lib/keyMaterial.ts).*)
MembersCatchUp ==
    []<>(\A m \in Active \ late : opened[m] = note.key)

=============================================================================
