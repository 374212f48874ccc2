----------------------- MODULE AccountSessionsProofs -----------------------
(***************************************************************************)
(* Proofs about AccountSessions: for any number of devices, sessions and   *)
(* versions, the key material of the account belongs together and no       *)
(* session of an old password is left over.                                *)
(*                                                                         *)
(* The argument turns on the version: whoever changes the account has read *)
(* the whole record at the version he replaces, so that what he read is    *)
(* still what is stored.                                                   *)
(***************************************************************************)
EXTENDS AccountSessions, TLAPS

Changing == {"read", "recovering", "allowed"}

(* A request under way: the verifier a sign-in compared, the record a      *)
(* change was based on, the session an answer will carry.                  *)
JobOK(d) ==
  /\ At(d, "verified") => job[d].secret \in Secrets /\ account.version > 0
  /\ job[d].at \in Changing =>
       /\ job[d] = [at |-> job[d].at, op |-> job[d].op, seen |-> job[d].seen]
       /\ job[d].seen \in Accounts
       /\ job[d].seen.version < MaxVersion
       /\ job[d].seen.version <= account.version
       /\ job[d].seen.version = account.version => job[d].seen = account
  /\ At(d, "closing") =>
       job[d] = [at |-> "closing", op |-> job[d].op, id |-> job[d].id,
                 revoked |-> job[d].revoked]
  /\ job[d].at \in {"closing", "granted"} => job[d].id \in 0..last

JobsOK == DOMAIN job = Devices /\ \A d \in Devices : JobOK(d)

KeysFit ==
  /\ Opens(account.verifier, account.vault, account.vaultContext)
  /\ Opens(account.recoveryVerifier, account.recovery, account.recoveryContext)

(* Nobody has a session before the account exists. *)
NoneBefore == account.version = 0 => DOMAIN rows = {}

IInv ==
  /\ TypeOK
  /\ JobsOK
  /\ KeysFit
  /\ NoneBefore
  /\ SessionsOfThePassword
  /\ SocketsFollowSessions

-----------------------------------------------------------------------------
RowType == [expired: BOOLEAN, verifier: Secrets, raced: BOOLEAN]

(* The parts of the type invariant, to be kept one by one. *)
AccountType == account \in Accounts /\ last \in 0..MaxSessions
RowsType == DOMAIN rows \subseteq 1..last /\ \A s \in DOMAIN rows : rows[s] \in RowType
Stages == {"idle", "verified", "granted", "read", "recovering",
           "allowed", "closing", "opening"}
StageType == \A d \in Devices : job[d].at \in Stages
HubType ==
  /\ cookie \in [Devices -> 0..last] /\ upgrading \in [Devices -> 0..last]
  /\ socket \in [Devices -> 0..last]
  /\ unnoticed \subseteq {d \in Devices : socket[d] # 0}

LEMMA TypeParts ==
  TypeOK <=> AccountType /\ RowsType /\ StageType /\ HubType /\ unlocked \subseteq Devices
  BY DEF TypeOK, AccountType, RowsType, RowType, StageType, Stages,
         HubType

LEMMA NumbersTyped ==
  ASSUME TypeOK
  PROVE  account.version \in Nat /\ last \in Nat
  <1>1. account \in Accounts /\ last \in 0..MaxSessions
    BY DEF TypeOK
  <1> QED
    BY <1>1, LimitsAssumption DEF Accounts

-----------------------------------------------------------------------------
(* What a change stores. *)

LEMMA NewAccountFits ==
  ASSUME NEW secret \in Secrets, NEW version \in 0..MaxVersion
  PROVE  /\ NewAccount(secret, version) \in Accounts
         /\ Opens(NewAccount(secret, version).verifier,
                  NewAccount(secret, version).vault,
                  NewAccount(secret, version).vaultContext)
         /\ Opens(NewAccount(secret, version).recoveryVerifier,
                  NewAccount(secret, version).recovery,
                  NewAccount(secret, version).recoveryContext)
  BY DEF NewAccount, Wrap, Opens, Accounts, Wraps

(* The secret of a device and a version the bound allows. *)
LEMMA SecretOf ==
  ASSUME NEW d \in Devices, NEW n \in 0..MaxVersion
  PROVE  <<d, n>> \in Secrets
  BY DEF Secrets

(* Either change replaces one half of the record by parts that fit. *)
LEMMA PasswordFits ==
  ASSUME NEW r \in Accounts, NEW secret \in Secrets, NEW version \in 0..MaxVersion
  PROVE  LET n == WithPassword(r, secret, version)
         IN  /\ n \in Accounts
             /\ n.version = r.version
             /\ Opens(n.verifier, n.vault, n.vaultContext)
             /\ n.recoveryVerifier = r.recoveryVerifier
             /\ n.recovery = r.recovery
             /\ n.recoveryContext = r.recoveryContext
  BY DEF WithPassword, Wrap, Opens, Accounts, Wraps

LEMMA RecoveryKeyFits ==
  ASSUME NEW r \in Accounts, NEW secret \in Secrets, NEW version \in 0..MaxVersion
  PROVE  LET n == WithRecoveryKey(r, secret, version)
         IN  /\ n \in Accounts
             /\ n.version = r.version
             /\ Opens(n.recoveryVerifier, n.recovery, n.recoveryContext)
             /\ n.verifier = r.verifier
             /\ n.vault = r.vault
             /\ n.vaultContext = r.vaultContext
  BY DEF WithRecoveryKey, Wrap, Opens, Accounts, Wraps

(* A change based on the present record stores one whose parts fit again,  *)
(* at the next version; a rotation leaves the verifier alone.              *)
LEMMA UpdateFits ==
  ASSUME IInv, NEW d \in Devices, At(d, "allowed"), Current(d),
         account' = Updated(d)
  PROVE  /\ account' \in Accounts
         /\ KeysFit'
         /\ account'.version = account.version + 1
         /\ job[d].op = "rotate" => account'.verifier = account.verifier
  <1> DEFINE seen == job[d].seen
             secret == <<d, seen.version + 1>>
             next == [account EXCEPT !.version = @ + 1]
  <1>1. seen = account /\ seen \in Accounts /\ seen.version < MaxVersion
    BY DEF IInv, JobsOK, JobOK, At, Changing, Current
  <1>2. seen.version \in Nat /\ seen.version + 1 \in 0..MaxVersion
    BY <1>1, LimitsAssumption DEF Accounts
  <1>3. secret \in Secrets
    BY <1>2, SecretOf
  <1>4. next \in Accounts /\ next.version = account.version + 1
        /\ next.verifier = account.verifier
        /\ next.vault = account.vault /\ next.vaultContext = account.vaultContext
        /\ next.recoveryVerifier = account.recoveryVerifier
        /\ next.recovery = account.recovery
        /\ next.recoveryContext = account.recoveryContext
    BY <1>1, <1>2 DEF Accounts
  <1>6. CASE job[d].op = "rotate"
    <2> DEFINE base == [next EXCEPT !.vault = seen.vault,
                                    !.vaultContext = seen.vaultContext]
    <2>1. base = next
      BY <1>1, <1>4 DEF Accounts
    <2>2. account' = WithRecoveryKey(next, secret, seen.version + 1)
      BY <1>6, <2>1 DEF Updated
    <2> HIDE DEF next, secret, seen
    <2>3. QED
      BY <1>2, <1>3, <1>4, <2>2, RecoveryKeyFits DEF KeysFit, Opens, IInv
  <1>7. CASE job[d].op # "rotate"
    <2>1. account' = WithPassword(next, secret, seen.version + 1)
      BY <1>7 DEF Updated
    <2> HIDE DEF next, secret, seen
    <2>2. QED
      BY <1>2, <1>3, <1>4, <1>7, <2>1, PasswordFits DEF KeysFit, Opens, IInv
  <1> QED
    BY <1>6, <1>7

-----------------------------------------------------------------------------
(* Requests.  A step changes the job of one device. *)

LEMMA JobsStep ==
  ASSUME JobsOK, NEW d \in Devices, NEW to, Goes(d, to)
  PROVE  /\ DOMAIN job' = Devices
         /\ job'[d] = to
         /\ \A e \in Devices \ {d} : job'[e] = job[e]
  BY DEF JobsOK, Goes

(* The other jobs stay right whatever the account becomes. *)
LEMMA JobsKept ==
  ASSUME TypeOK, JobsOK, last' \in Nat, last' >= last,
         account' = account \/ account'.version = account.version + 1,
         DOMAIN job' = Devices,
         NEW d \in Devices, \A e \in Devices \ {d} : job'[e] = job[e], JobOK(d)'
  PROVE  JobsOK'
  <1>1. ASSUME NEW e \in Devices \ {d}
        PROVE  JobOK(e)'
    <2>1. account.version \in Nat /\ last \in Nat
      BY NumbersTyped
    <2>2. job[e].at \in Changing => job[e].seen.version \in Nat
      BY LimitsAssumption DEF JobsOK, JobOK, Accounts
    <2>3. job'[e] = job[e] /\ JobOK(e)
      BY DEF JobsOK
    <2>4. At(e, "verified") => job[e].secret \in Secrets /\ account'.version > 0
      BY <2>1, <2>3 DEF JobOK
    <2>5. job[e].at \in Changing =>
            /\ job[e].seen.version <= account'.version
            /\ job[e].seen.version = account'.version => job[e].seen = account'
      BY <2>1, <2>2, <2>3 DEF JobOK
    <2>6. job[e].at \in {"closing", "granted"} => job[e].id \in 0..last'
      BY <2>1, <2>3 DEF JobOK
    <2> QED
      BY <2>3, <2>4, <2>5, <2>6 DEF JobOK, At
  <1> QED
    BY <1>1 DEF JobsOK

(* A step that leaves sessions and sockets alone, and no request that is   *)
(* closing sockets, keeps what is known of sockets.                        *)
LEMMA SocketsKept ==
  ASSUME SocketsFollowSessions, UNCHANGED <<socket, unnoticed>>,
         DOMAIN rows \subseteq DOMAIN rows',
         \A e \in Devices : At(e, "closing") => job'[e] = job[e]
  PROVE  SocketsFollowSessions'
  BY DEF SocketsFollowSessions, At

LEMMA RowTyped ==
  ASSUME NEW secret \in Secrets
  PROVE  /\ Row(secret) \in RowType
         /\ Row(secret).verifier = secret
         /\ Row(secret).raced = (secret # account'.verifier)
  <1>1. (secret # account'.verifier) \in BOOLEAN
    OBVIOUS
  <1> QED
    BY <1>1 DEF Row, RowType

(* A session more leaves the types of what is there. *)
LEMMA TypesGrow ==
  ASSUME TypeOK, last' \in Nat, last' >= last
  PROVE  /\ UNCHANGED rows => RowsType'
         /\ UNCHANGED <<cookie, upgrading, socket, unnoticed>> => HubType'
  <1>1. last \in Nat
    BY NumbersTyped
  <1>2. 0..last \subseteq 0..last'
    BY <1>1
  <1>3. 1..last \subseteq 1..last'
    BY <1>1
  <1>4. RowsType /\ HubType
    BY TypeParts
  <1>5. UNCHANGED rows => RowsType'
    <2>1. ASSUME UNCHANGED rows
          PROVE  RowsType'
      <3>1. rows' = rows
        BY <2>1
      <3> QED
        BY <1>3, <1>4, <3>1 DEF RowsType
    <2> QED
      BY <2>1
  <1>6. ASSUME UNCHANGED <<cookie, upgrading, socket, unnoticed>>
        PROVE  HubType'
    <2>1. /\ cookie' = cookie /\ upgrading' = upgrading /\ socket' = socket
          /\ unnoticed' = unnoticed
      BY <1>6
    <2>2. [Devices -> 0..last] \subseteq [Devices -> 0..last']
      BY <1>2
    <2> QED
      BY <1>4, <2>1, <2>2 DEF HubType
  <1> QED
    BY <1>5, <1>6

-----------------------------------------------------------------------------
(* Steps of a request that change neither the account nor a session. *)

LEMMA QuietStep ==
  ASSUME IInv, NEW d \in Devices, NEW to, Goes(d, to),
         UNCHANGED <<account, rows, last, upgrading, socket, unnoticed>>,
         cookie' \in [Devices -> 0..last], unlocked' \subseteq Devices,
         ~At(d, "closing"), to.at \in Stages, JobOK(d)'
  PROVE  IInv'
  <1>1. /\ account' = account /\ rows' = rows /\ last' = last
        /\ upgrading' = upgrading /\ socket' = socket /\ unnoticed' = unnoticed
    OBVIOUS
  <1>2. /\ DOMAIN job' = Devices /\ job'[d] = to
        /\ \A e \in Devices \ {d} : job'[e] = job[e]
    BY JobsStep DEF IInv
  <1>3. last' \in Nat /\ last' >= last
    BY <1>1, NumbersTyped DEF IInv
  <1>4. JobsOK'
    BY <1>1, <1>2, <1>3, JobsKept DEF IInv
  <1>5. StageType'
    BY <1>2, TypeParts DEF IInv, StageType
  <1>6. HubType'
    BY <1>1, TypeParts DEF IInv, HubType
  <1>7. AccountType' /\ RowsType'
    BY <1>1, TypeParts DEF IInv, AccountType, RowsType
  <1>8. TypeOK'
    BY <1>5, <1>6, <1>7, TypeParts DEF TypeOK, AccountType, RowsType, RowType,
       StageType, Stages, HubType
  <1>9. SocketsFollowSessions'
    BY <1>1, <1>2, SocketsKept DEF IInv, At
  <1>10. KeysFit' /\ NoneBefore' /\ SessionsOfThePassword'
    BY <1>1 DEF IInv, KeysFit, NoneBefore, SessionsOfThePassword
  <1> QED
    BY <1>4, <1>8, <1>9, <1>10 DEF IInv

LEMMA IdleOK ==
  ASSUME NEW d, job'[d] = Idle
  PROVE  JobOK(d)'
  BY DEF JobOK, At, Idle, Changing

LEMMA LoginStep ==
  ASSUME IInv, NEW d \in Devices, Login(d)
  PROVE  IInv'
  <1> DEFINE to == [at |-> "verified", op |-> "login", secret |-> account.verifier]
  <1>1. job'[d] = to
    BY JobsStep DEF Login, IInv
  <1>2. account.verifier \in Secrets /\ account' = account
    BY DEF Login, IInv, TypeOK, Accounts
  <1>3. JobOK(d)'
    BY <1>1, <1>2 DEF JobOK, At, Changing, Login
  <1> QED
    BY <1>3, QuietStep DEF Login, IInv, TypeOK, At, Stages

LEMMA BeginChangeStep ==
  ASSUME IInv, NEW d \in Devices, NEW op, BeginChange(d, op)
  PROVE  IInv'
  <1> DEFINE to == [at |-> "read", op |-> op, seen |-> account]
  <1>1. job'[d] = to
    BY JobsStep DEF BeginChange, IInv
  <1>2. account \in Accounts /\ account' = account /\ account.version \in Nat
    BY NumbersTyped DEF BeginChange, IInv, TypeOK
  <1>3. JobOK(d)'
    BY <1>1, <1>2 DEF JobOK, At, Changing, BeginChange
  <1> QED
    BY <1>3, QuietStep DEF BeginChange, IInv, TypeOK, At, Stages

LEMMA BeginRecoveryStep ==
  ASSUME IInv, NEW d \in Devices, BeginRecovery(d)
  PROVE  IInv'
  <1> DEFINE to == [at |-> "recovering", op |-> "recover", seen |-> account]
  <1>1. job'[d] = to
    BY JobsStep DEF BeginRecovery, IInv
  <1>2. account \in Accounts /\ account' = account /\ account.version \in Nat
    BY NumbersTyped DEF BeginRecovery, IInv, TypeOK
  <1>3. account.version < MaxVersion
    <2>1. account.version \in 1..(MaxVersion - 1)
      BY DEF BeginRecovery
    <2> QED
      BY <2>1, LimitsAssumption
  <1>4. /\ job'[d].at = "recovering" /\ job'[d].seen = account
        /\ job'[d] = [at |-> job'[d].at, op |-> job'[d].op, seen |-> job'[d].seen]
    BY <1>1
  <1>5. JobOK(d)'
    BY <1>2, <1>3, <1>4 DEF JobOK, At, Changing
  <1> QED
    BY <1>5, QuietStep DEF BeginRecovery, IInv, TypeOK, At, Stages

(* A change that is allowed is still based on what was read. *)
LEMMA AllowedOK ==
  ASSUME IInv, NEW d \in Devices, job[d].at \in Changing, UNCHANGED account,
         Goes(d, [job[d] EXCEPT !.at = "allowed"])
  PROVE  JobOK(d)' /\ job'[d].at = "allowed"
  <1>1. JobOK(d) /\ job'[d] = [job[d] EXCEPT !.at = "allowed"]
    BY JobsStep DEF IInv, JobsOK
  <1>2. job'[d].at = "allowed" /\ job'[d].seen = job[d].seen
    BY <1>1 DEF Changing, JobOK
  <1> QED
    BY <1>1, <1>2 DEF JobOK, At, Changing

LEMMA PutStep ==
  ASSUME IInv, NEW d \in Devices, Put(d) \/ CheckRecovery(d)
  PROVE  IInv'
  <1> DEFINE allowed == [job[d] EXCEPT !.at = "allowed"]
  <1>1. UNCHANGED <<account, rows, last, cookie, unlocked, upgrading, socket, unnoticed>>
        /\ job[d].at \in Changing /\ ~At(d, "closing")
    BY DEF Put, CheckRecovery, At, Changing
  <1>2. Goes(d, allowed) \/ Goes(d, Idle)
    BY DEF Put, CheckRecovery
  <1>3. CASE Goes(d, allowed)
    <2>1. JobOK(d)' /\ job'[d].at = "allowed" /\ job'[d] = allowed
      BY <1>1, <1>3, AllowedOK, JobsStep DEF IInv
    <2>2. allowed.at \in Stages
      BY <2>1 DEF Stages
    <2> HIDE DEF allowed
    <2> QED
      BY <1>1, <1>3, <2>1, <2>2, QuietStep DEF IInv, TypeOK
  <1>4. CASE Goes(d, Idle)
    <2>1. JobOK(d)'
      BY <1>4, IdleOK, JobsStep DEF IInv
    <2> QED
      BY <1>1, <1>4, <2>1, QuietStep DEF IInv, TypeOK, Stages, Idle
  <1> QED
    BY <1>2, <1>3, <1>4

LEMMA ConflictStep ==
  ASSUME IInv, NEW d \in Devices, Conflict(d)
  PROVE  IInv'
  <1>1. JobOK(d)'
    BY IdleOK, JobsStep DEF IInv, Conflict
  <1> QED
    BY <1>1, QuietStep DEF Conflict, IInv, TypeOK, At, Stages, Idle

LEMMA AnswerStep ==
  ASSUME IInv, NEW d \in Devices, Answer(d)
  PROVE  IInv'
  <1> DEFINE in == [at |-> "opening", secret |-> job[d].secret]
  <1>1. job[d].id \in 0..last /\ cookie \in [Devices -> 0..last] /\ unlocked \subseteq Devices
    BY TypeParts DEF IInv, Answer, At, JobsOK, JobOK, HubType
  <1>2. cookie' \in [Devices -> 0..last] /\ unlocked' \subseteq Devices
    BY <1>1 DEF Answer
  <1>3. Goes(d, in) \/ Goes(d, Idle)
    BY DEF Answer
  <1>4. /\ UNCHANGED <<account, rows, last, upgrading, socket, unnoticed>>
        /\ ~At(d, "closing")
    BY DEF Answer, At
  <1>5. CASE Goes(d, in)
    <2>1. JobOK(d)'
      BY <1>5, JobsStep DEF IInv, JobOK, At, Changing
    <2> QED
      BY <1>2, <1>4, <1>5, <2>1, QuietStep DEF Stages
  <1>6. CASE Goes(d, Idle)
    <2>1. JobOK(d)'
      BY <1>6, IdleOK, JobsStep DEF IInv
    <2> QED
      BY <1>2, <1>4, <1>6, <2>1, QuietStep DEF Stages, Idle
  <1> QED
    BY <1>3, <1>5, <1>6

LEMMA LoseAnswerStep ==
  ASSUME IInv, NEW d \in Devices, LoseAnswer(d) \/ OpenVault(d)
  PROVE  IInv'
  <1>1. /\ UNCHANGED <<account, rows, last, cookie, upgrading, socket, unnoticed>>
        /\ Goes(d, Idle) /\ ~At(d, "closing")
    BY DEF LoseAnswer, OpenVault, At
  <1>2. unlocked' \subseteq Devices
    BY DEF LoseAnswer, OpenVault, IInv, TypeOK
  <1>3. JobOK(d)'
    BY <1>1, IdleOK, JobsStep DEF IInv
  <1>4. cookie' \in [Devices -> 0..last]
    BY <1>1 DEF IInv, TypeOK
  <1> QED
    BY <1>1, <1>2, <1>3, <1>4, QuietStep DEF Stages, Idle

-----------------------------------------------------------------------------
(* Steps that change the account or the sessions. *)

LEMMA RegisterStep ==
  ASSUME IInv, NEW d \in Devices, Register(d)
  PROVE  IInv'
  <1> DEFINE to == [at |-> "verified", op |-> "register", secret |-> account'.verifier]
  <1>1. /\ account' = NewAccount(<<d, 1>>, 1) /\ account.version = 0 /\ Goes(d, to)
        /\ rows' = rows /\ last' = last /\ cookie' = cookie /\ unlocked' = unlocked
        /\ upgrading' = upgrading /\ socket' = socket /\ unnoticed' = unnoticed
        /\ ~At(d, "closing")
    BY DEF Register, At
  <1>2. <<d, 1>> \in Secrets /\ 1 \in 0..MaxVersion
    BY LimitsAssumption, SecretOf
  <1>3. /\ account' \in Accounts /\ KeysFit'
        /\ account'.version = 1 /\ account'.verifier \in Secrets
    BY <1>1, <1>2, NewAccountFits DEF KeysFit, NewAccount
  <1>4. /\ DOMAIN job' = Devices /\ job'[d] = to
        /\ \A e \in Devices \ {d} : job'[e] = job[e]
    BY <1>1, JobsStep DEF IInv
  <1>5. JobOK(d)'
    BY <1>3, <1>4 DEF JobOK, At, Changing
  <1>6. last' \in Nat /\ last' >= last
    BY <1>1, NumbersTyped DEF IInv
  <1>7. JobsOK'
    BY <1>1, <1>3, <1>4, <1>5, <1>6, JobsKept DEF IInv
  <1>8. TypeOK'
    BY <1>1, <1>3, <1>4 DEF IInv, TypeOK
  <1>9. SocketsFollowSessions'
    BY <1>1, <1>4, SocketsKept DEF IInv, At
  <1>10. NoneBefore' /\ SessionsOfThePassword'
    BY <1>1 DEF IInv, NoneBefore, SessionsOfThePassword
  <1> QED
    BY <1>3, <1>7, <1>8, <1>9, <1>10 DEF IInv

(* A row more, under a new identifier. *)
LEMMA RowAdded ==
  ASSUME TypeOK, last < MaxSessions, last' = last + 1, NEW secret \in Secrets,
         NEW old, DOMAIN old \subseteq DOMAIN rows, \A s \in DOMAIN old : old[s] = rows[s],
         rows' = Inserted(old, secret)
  PROVE  /\ last' \in 0..MaxSessions /\ RowsType'
         /\ DOMAIN rows' = DOMAIN old \cup {last + 1}
         /\ rows'[last + 1] = Row(secret)
         /\ \A s \in DOMAIN old : rows'[s] = rows[s]
  <1>1. last \in Nat /\ DOMAIN rows \subseteq 1..last /\ MaxSessions \in Nat
    BY NumbersTyped, LimitsAssumption DEF TypeOK
  <1>2. last + 1 \notin DOMAIN old
    BY <1>1
  <1>3. /\ DOMAIN rows' = DOMAIN old \cup {last + 1}
        /\ rows'[last + 1] = Row(secret)
        /\ \A s \in DOMAIN old : rows'[s] = old[s]
    BY <1>2 DEF Inserted
  <1>4. \A s \in DOMAIN rows' : rows'[s] \in RowType
    BY <1>3, RowTyped, TypeParts DEF RowsType
  <1>5. DOMAIN rows' \subseteq 1..last' /\ last' \in 0..MaxSessions
    BY <1>1, <1>3
  <1> QED
    BY <1>3, <1>4, <1>5 DEF RowsType

LEMMA CreateSessionStep ==
  ASSUME IInv, NEW d \in Devices, CreateSession(d)
  PROVE  IInv'
  <1> DEFINE secret == job[d].secret
             to == [at |-> "granted", op |-> job[d].op, secret |-> job[d].secret,
                    id |-> last + 1]
  <1>1. /\ At(d, "verified") /\ last < MaxSessions /\ last' = last + 1
        /\ account' = account /\ rows' = Inserted(rows, secret) /\ Goes(d, to)
        /\ cookie' = cookie /\ unlocked' = unlocked
        /\ upgrading' = upgrading /\ socket' = socket /\ unnoticed' = unnoticed
    BY DEF CreateSession
  <1>2. secret \in Secrets /\ account.version > 0 /\ account.version \in Nat
        /\ last \in Nat
    BY <1>1, NumbersTyped DEF IInv, JobsOK, JobOK
  <1>3. /\ last' \in 0..MaxSessions /\ RowsType'
        /\ DOMAIN rows' = DOMAIN rows \cup {last + 1}
        /\ rows'[last + 1] = Row(secret)
        /\ \A s \in DOMAIN rows : rows'[s] = rows[s]
    BY <1>1, <1>2, RowAdded DEF IInv
  <1>4. /\ DOMAIN job' = Devices /\ job'[d] = to
        /\ \A e \in Devices \ {d} : job'[e] = job[e]
    BY <1>1, JobsStep DEF IInv
  <1>5. JobOK(d)'
    BY <1>1, <1>2, <1>4 DEF JobOK, At, Changing
  <1>6. last' \in Nat /\ last' >= last
    BY <1>1, <1>2
  <1>7. JobsOK'
    BY <1>1, <1>4, <1>5, <1>6, JobsKept DEF IInv
  <1>8. HubType' /\ StageType' /\ AccountType' /\ unlocked' \subseteq Devices
    <2>1. HubType'
      BY <1>1, <1>6, TypesGrow DEF IInv
    <2>2. StageType'
      BY <1>4, TypeParts DEF IInv, StageType, Stages
    <2> QED
      BY <1>1, <1>3, <2>1, <2>2 DEF IInv, TypeOK, AccountType
  <1>9. TypeOK'
    BY <1>3, <1>8 DEF TypeOK, AccountType, RowsType, RowType, StageType, Stages, HubType
  <1>10. SocketsFollowSessions'
    BY <1>1, <1>3, <1>4, SocketsKept DEF IInv, At
  <1>11. SessionsOfThePassword'
    <2>1. Row(secret).verifier = secret /\ Row(secret).raced = (secret # account'.verifier)
      BY <1>2, RowTyped
    <2> QED
      BY <1>1, <1>3, <2>1 DEF IInv, SessionsOfThePassword
  <1>12. KeysFit' /\ NoneBefore'
    BY <1>1, <1>2 DEF IInv, KeysFit, NoneBefore
  <1> QED
    BY <1>7, <1>9, <1>10, <1>11, <1>12 DEF IInv

LEMMA RotateRecoveryKeyStep ==
  ASSUME IInv, NEW d \in Devices, RotateRecoveryKey(d)
  PROVE  IInv'
  <1>1. /\ At(d, "allowed") /\ job[d].op = "rotate" /\ Current(d) /\ account' = Updated(d)
        /\ Goes(d, Idle) /\ rows' = rows /\ last' = last
        /\ cookie' = cookie /\ unlocked' = unlocked
        /\ upgrading' = upgrading /\ socket' = socket /\ unnoticed' = unnoticed
    BY DEF RotateRecoveryKey
  <1>2. /\ account' \in Accounts /\ KeysFit' /\ account'.version = account.version + 1
        /\ account'.verifier = account.verifier
    BY <1>1, UpdateFits
  <1>3. /\ DOMAIN job' = Devices /\ job'[d] = Idle
        /\ \A e \in Devices \ {d} : job'[e] = job[e]
    BY <1>1, JobsStep DEF IInv
  <1>4. JobOK(d)' /\ last' \in Nat /\ last' >= last /\ account.version \in Nat
    BY <1>1, <1>3, IdleOK, NumbersTyped DEF IInv
  <1>5. JobsOK'
    BY <1>2, <1>3, <1>4, JobsKept DEF IInv
  <1>6. TypeOK'
    BY <1>1, <1>2, <1>3 DEF IInv, TypeOK, Idle
  <1>7. SocketsFollowSessions'
    BY <1>1, <1>3, SocketsKept DEF IInv, At
  <1>8. NoneBefore' /\ SessionsOfThePassword'
    BY <1>1, <1>2, <1>4 DEF IInv, NoneBefore, SessionsOfThePassword
  <1> QED
    BY <1>2, <1>5, <1>6, <1>7, <1>8 DEF IInv

(* A new password: of all sessions one is left, its own, and the sockets   *)
(* of the others are about to be closed.                                   *)
LEMMA ReplaceStep ==
  ASSUME IInv, NEW d \in Devices, ChangePassword(d) \/ Recover(d)
  PROVE  IInv'
  <1> DEFINE secret == account'.verifier
             to == [at |-> "closing", op |-> job[d].op, id |-> last + 1,
                    revoked |-> DOMAIN rows]
  <1>1. /\ At(d, "allowed") /\ Current(d) /\ account' = Updated(d)
        /\ last < MaxSessions /\ last' = last + 1 /\ Goes(d, to)
        /\ rows' = Inserted(<< >>, secret)
        /\ cookie' = cookie /\ unlocked' = unlocked
        /\ upgrading' = upgrading /\ socket' = socket /\ unnoticed' = unnoticed
    BY DEF ChangePassword, Recover, ReplaceSessions
  <1>2. /\ account' \in Accounts /\ KeysFit' /\ account'.version = account.version + 1
        /\ secret \in Secrets
    BY <1>1, UpdateFits DEF Accounts
  <1>3. /\ last' \in 0..MaxSessions /\ RowsType'
        /\ DOMAIN rows' = {last + 1}
        /\ rows'[last + 1] = Row(secret)
    <2>1. DOMAIN << >> = {}
      OBVIOUS
    <2> QED
      BY <1>1, <1>2, <2>1, RowAdded DEF IInv
  <1>4. /\ DOMAIN job' = Devices /\ job'[d] = to
        /\ \A e \in Devices \ {d} : job'[e] = job[e]
    BY <1>1, JobsStep DEF IInv
  <1>5. last \in Nat /\ last' \in Nat /\ last' >= last /\ account.version \in Nat
    BY <1>1, NumbersTyped DEF IInv
  <1>6. JobOK(d)'
    BY <1>1, <1>4, <1>5 DEF JobOK, At, Changing
  <1>7. JobsOK'
    BY <1>2, <1>4, <1>5, <1>6, JobsKept DEF IInv
  <1>8. HubType'
    BY <1>1, <1>5, TypesGrow DEF IInv
  <1>9. StageType'
    BY <1>4, TypeParts DEF IInv, StageType, Stages
  <1>10. AccountType' /\ unlocked' \subseteq Devices
    BY <1>1, <1>2, <1>3 DEF IInv, TypeOK, AccountType
  <1>11. TypeOK'
    BY <1>3, <1>8, <1>9, <1>10
    DEF TypeOK, AccountType, RowsType, RowType, StageType, Stages, HubType
  <1>12. SessionsOfThePassword'
    <2>1. Row(secret).verifier = secret
      BY <1>2, RowTyped
    <2> QED
      BY <1>3, <2>1 DEF SessionsOfThePassword
  <1>13. SocketsFollowSessions'
    <2>1. ASSUME NEW e \in Devices, socket'[e] \notin DOMAIN rows' \cup {0},
                 e \notin unnoticed'
          PROVE  \E c \in Devices : At(c, "closing")' /\ socket'[e] \in job'[c].revoked
      <3>1. CASE socket[e] \in DOMAIN rows
        <4>1. At(d, "closing")' /\ socket'[e] \in job'[d].revoked
          BY <1>1, <1>4, <3>1 DEF At
        <4> QED
          BY <4>1
      <3>2. CASE socket[e] \notin DOMAIN rows
        <4>1. PICK c \in Devices : At(c, "closing") /\ socket[e] \in job[c].revoked
          BY <1>1, <2>1, <3>2 DEF IInv, SocketsFollowSessions
        <4>2. c # d
          BY <1>1, <4>1 DEF At
        <4> QED
          BY <1>1, <1>4, <4>1, <4>2 DEF At
      <3> QED
        BY <3>1, <3>2
    <2> QED
      BY <2>1 DEF SocketsFollowSessions
  <1>14. NoneBefore'
    BY <1>2, <1>5 DEF NoneBefore
  <1> QED
    BY <1>2, <1>7, <1>11, <1>12, <1>13, <1>14 DEF IInv

LEMMA LogoutStep ==
  ASSUME IInv, NEW d \in Devices, Logout(d)
  PROVE  IInv'
  <1> DEFINE to == [at |-> "closing", op |-> "logout", id |-> 0,
                    revoked |-> {cookie[d]} \cap DOMAIN rows]
  <1>1. /\ At(d, "idle") /\ Goes(d, to) /\ account' = account /\ last' = last
        /\ rows' = [s \in DOMAIN rows \ {cookie[d]} |-> rows[s]]
        /\ cookie' = cookie /\ unlocked' = unlocked
        /\ upgrading' = upgrading /\ socket' = socket /\ unnoticed' = unnoticed
    BY DEF Logout
  <1>2. /\ DOMAIN job' = Devices /\ job'[d] = to
        /\ \A e \in Devices \ {d} : job'[e] = job[e]
    BY <1>1, JobsStep DEF IInv
  <1>3. last \in Nat /\ last' \in Nat /\ last' >= last
    BY <1>1, NumbersTyped DEF IInv
  <1>4. JobOK(d)'
    BY <1>1, <1>2, <1>3 DEF JobOK, At, Changing
  <1>5. JobsOK'
    BY <1>1, <1>2, <1>3, <1>4, JobsKept DEF IInv
  <1>6. DOMAIN rows' = DOMAIN rows \ {cookie[d]} /\ \A s \in DOMAIN rows' : rows'[s] = rows[s]
    BY <1>1
  <1>7. TypeOK'
    BY <1>1, <1>2, <1>6 DEF IInv, TypeOK
  <1>8. SocketsFollowSessions'
    <2>1. ASSUME NEW e \in Devices, socket'[e] \notin DOMAIN rows' \cup {0},
                 e \notin unnoticed'
          PROVE  \E c \in Devices : At(c, "closing")' /\ socket'[e] \in job'[c].revoked
      <3>1. CASE socket[e] \in DOMAIN rows
        <4>1. At(d, "closing")' /\ socket'[e] \in job'[d].revoked
          BY <1>1, <1>2, <1>6, <2>1, <3>1 DEF At
        <4> QED
          BY <4>1
      <3>2. CASE socket[e] \notin DOMAIN rows
        <4>1. PICK c \in Devices : At(c, "closing") /\ socket[e] \in job[c].revoked
          BY <1>1, <2>1, <3>2 DEF IInv, SocketsFollowSessions
        <4>2. c # d
          BY <1>1, <4>1 DEF At
        <4> QED
          BY <1>1, <1>2, <4>1, <4>2 DEF At
      <3> QED
        BY <3>1, <3>2
    <2> QED
      BY <2>1 DEF SocketsFollowSessions
  <1>9. KeysFit' /\ NoneBefore' /\ SessionsOfThePassword'
    BY <1>1, <1>6 DEF IInv, KeysFit, NoneBefore, SessionsOfThePassword
  <1> QED
    BY <1>5, <1>7, <1>8, <1>9 DEF IInv

-----------------------------------------------------------------------------
(* Sessions that expire, the hub, and a vault that is locked. *)

(* Steps that leave account and requests alone. *)
LEMMA OtherStep ==
  ASSUME IInv, UNCHANGED <<account, last, job, cookie>>,
         unlocked' \subseteq Devices, upgrading' \in [Devices -> 0..last],
         socket' \in [Devices -> 0..last],
         unnoticed' \subseteq {d \in Devices : socket'[d] # 0},
         DOMAIN rows' \subseteq DOMAIN rows,
         \A s \in DOMAIN rows' : /\ rows'[s] \in RowType
                                 /\ rows'[s].verifier = rows[s].verifier
                                 /\ rows'[s].raced = rows[s].raced,
         \A d \in Devices :
           socket'[d] \notin DOMAIN rows' \cup {0} =>
             \/ d \in unnoticed'
             \/ socket'[d] = socket[d] /\ socket[d] \notin DOMAIN rows /\ d \notin unnoticed
  PROVE  IInv'
  <1>1. account' = account /\ last' = last /\ job' = job /\ cookie' = cookie
    OBVIOUS
  <1>2. JobsOK'
    BY <1>1 DEF IInv, JobsOK, JobOK, At
  <1>3. TypeOK'
    BY <1>1 DEF IInv, TypeOK, RowType
  <1>4. KeysFit' /\ NoneBefore' /\ SessionsOfThePassword'
    BY <1>1 DEF IInv, KeysFit, NoneBefore, SessionsOfThePassword
  <1>5. SocketsFollowSessions'
    BY <1>1 DEF IInv, SocketsFollowSessions, At
  <1> QED
    BY <1>2, <1>3, <1>4, <1>5 DEF IInv

LEMMA HubTyped ==
  ASSUME IInv
  PROVE  /\ HubType /\ RowsType /\ unlocked \subseteq Devices
         /\ last \in Nat /\ 0 \in 0..last
  BY NumbersTyped, TypeParts DEF IInv

LEMMA LockStep ==
  ASSUME IInv, NEW d \in Devices, Lock(d)
  PROVE  IInv'
  <1>1. UNCHANGED <<account, rows, last, job, cookie, upgrading, socket, unnoticed>>
        /\ unlocked' \subseteq Devices
    BY DEF Lock, IInv, TypeOK
  <1>2. rows' = rows /\ upgrading' = upgrading /\ socket' = socket /\ unnoticed' = unnoticed
    BY <1>1
  <1> QED
    BY <1>1, <1>2, HubTyped, OtherStep DEF HubType, RowsType

LEMMA ExpireStep ==
  ASSUME IInv, NEW s \in DOMAIN rows, Expire(s)
  PROVE  IInv'
  <1>1. /\ rows' = [rows EXCEPT ![s].expired = TRUE]
        /\ account' = account /\ last' = last /\ job' = job /\ cookie' = cookie
        /\ unlocked' = unlocked /\ upgrading' = upgrading
        /\ socket' = socket /\ unnoticed' = unnoticed
    BY DEF Expire
  <1>2. RowsType
    BY HubTyped
  <1>3. DOMAIN rows' = DOMAIN rows
    BY <1>1
  <1>4. ASSUME NEW t \in DOMAIN rows'
        PROVE  /\ rows'[t] \in RowType
               /\ rows'[t].verifier = rows[t].verifier
               /\ rows'[t].raced = rows[t].raced
    <2>1. rows[t] \in RowType
      BY <1>2, <1>3 DEF RowsType
    <2>2. CASE t = s
      <3>1. rows'[t] = [rows[t] EXCEPT !.expired = TRUE]
        BY <1>1, <1>3, <2>2
      <3> QED
        BY <2>1, <3>1 DEF RowType
    <2>3. CASE t # s
      BY <1>1, <1>3, <2>1, <2>3
    <2> QED
      BY <2>2, <2>3
  <1> QED
    BY <1>1, <1>3, <1>4, HubTyped, OtherStep DEF HubType

LEMMA UpgradeStep ==
  ASSUME IInv, NEW d \in Devices, Upgrade(d)
  PROVE  IInv'
  <1>1. /\ UNCHANGED <<account, last, job, cookie>> /\ rows' = rows
        /\ unlocked' = unlocked /\ socket' = socket /\ unnoticed' = unnoticed
    BY DEF Upgrade
  <1>2. upgrading' \in [Devices -> 0..last]
    BY HubTyped DEF Upgrade, HubType
  <1> QED
    BY <1>1, <1>2, HubTyped, OtherStep DEF HubType, RowsType

LEMMA AddClientStep ==
  ASSUME IInv, NEW d \in Devices, AddClient(d)
  PROVE  IInv'
  <1>1. /\ UNCHANGED <<account, last, job, cookie>> /\ rows' = rows /\ unlocked' = unlocked
        /\ upgrading[d] # 0
        /\ socket' = [socket EXCEPT ![d] = upgrading[d]]
        /\ upgrading' = [upgrading EXCEPT ![d] = 0]
        /\ unnoticed' = IF upgrading[d] \in DOMAIN rows THEN unnoticed
                        ELSE unnoticed \cup {d}
    BY DEF AddClient
  <1>2. /\ upgrading' \in [Devices -> 0..last] /\ socket' \in [Devices -> 0..last]
        /\ socket'[d] = upgrading[d]
        /\ \A e \in Devices \ {d} : socket'[e] = socket[e]
    BY <1>1, HubTyped DEF HubType
  <1>3. unnoticed' \subseteq {e \in Devices : socket'[e] # 0}
    BY <1>1, <1>2, HubTyped DEF HubType
  <1>4. ASSUME NEW e \in Devices, socket'[e] \notin DOMAIN rows' \cup {0}
        PROVE  \/ e \in unnoticed'
               \/ socket'[e] = socket[e] /\ socket[e] \notin DOMAIN rows /\ e \notin unnoticed
    BY <1>1, <1>2, <1>4
  <1> QED
    BY <1>1, <1>2, <1>3, <1>4, HubTyped, OtherStep DEF RowsType

(* A socket is closed. *)
LEMMA HangUpStep ==
  ASSUME IInv, NEW d \in Devices, HangUp(d) \/ CheckClient(d)
  PROVE  IInv'
  <1>1. /\ UNCHANGED <<account, last, job, cookie>> /\ rows' = rows /\ unlocked' = unlocked
        /\ upgrading' = upgrading
        /\ socket' = Closed({d}) /\ unnoticed' = unnoticed \ {d}
    BY DEF HangUp, CheckClient
  <1>2. /\ socket' \in [Devices -> 0..last] /\ socket'[d] = 0
        /\ \A e \in Devices \ {d} : socket'[e] = socket[e]
    BY <1>1, HubTyped DEF HubType, Closed
  <1>3. unnoticed' \subseteq {e \in Devices : socket'[e] # 0}
    BY <1>1, <1>2, HubTyped DEF HubType
  <1>4. ASSUME NEW e \in Devices, socket'[e] \notin DOMAIN rows' \cup {0}
        PROVE  \/ e \in unnoticed'
               \/ socket'[e] = socket[e] /\ socket[e] \notin DOMAIN rows /\ e \notin unnoticed
    BY <1>1, <1>2, <1>4
  <1> QED
    BY <1>1, <1>2, <1>3, <1>4, HubTyped, OtherStep DEF HubType, RowsType

LEMMA DeleteExpiredStep ==
  ASSUME IInv, DeleteExpired
  PROVE  IInv'
  <1>1. /\ UNCHANGED <<account, last, job, cookie>> /\ unlocked' = unlocked
        /\ upgrading' = upgrading /\ socket' = socket
        /\ rows' = [s \in {t \in DOMAIN rows : Active(t)} |-> rows[s]]
        /\ unnoticed' = unnoticed \cup
              {d \in Devices : socket[d] \in DOMAIN rows /\ ~Active(socket[d])}
    BY DEF DeleteExpired
  <1>2. RowsType /\ HubType /\ 0 \notin DOMAIN rows
    BY HubTyped DEF RowsType
  <1>3. /\ DOMAIN rows' = {t \in DOMAIN rows : Active(t)}
        /\ \A s \in DOMAIN rows' : rows'[s] = rows[s]
    BY <1>1
  <1>4. unnoticed' \subseteq {d \in Devices : socket'[d] # 0}
    BY <1>1, <1>2 DEF HubType
  <1>5. ASSUME NEW e \in Devices, socket'[e] \notin DOMAIN rows' \cup {0}
        PROVE  \/ e \in unnoticed'
               \/ socket'[e] = socket[e] /\ socket[e] \notin DOMAIN rows /\ e \notin unnoticed
    BY <1>1, <1>3, <1>5
  <1>6. \A s \in DOMAIN rows' : /\ rows'[s] \in RowType
                                /\ rows'[s].verifier = rows[s].verifier
                                /\ rows'[s].raced = rows[s].raced
    BY <1>2, <1>3 DEF RowsType
  <1> QED
    BY <1>1, <1>2, <1>3, <1>4, <1>5, <1>6, HubTyped, OtherStep DEF HubType

(* CloseSessions ends a request; what it had to close is closed. *)
LEMMA CloseSessionsStep ==
  ASSUME IInv, NEW d \in Devices, CloseSessions(d)
  PROVE  IInv'
  <1> DEFINE ended == {e \in Devices : socket[e] \in job[d].revoked}
             to == [job[d] EXCEPT !.at = "granted"]
  <1>1. /\ At(d, "closing") /\ Goes(d, to)
        /\ socket' = Closed(ended) /\ unnoticed' = unnoticed \ ended
        /\ account' = account /\ rows' = rows /\ last' = last /\ cookie' = cookie
        /\ unlocked' = unlocked /\ upgrading' = upgrading
    BY DEF CloseSessions
  <1>2. /\ DOMAIN job' = Devices /\ job'[d] = to
        /\ \A e \in Devices \ {d} : job'[e] = job[e]
    BY <1>1, JobsStep DEF IInv
  <1>3. to.at = "granted" /\ to.id = job[d].id /\ job[d].id \in 0..last
    <2>1. JobOK(d)
      BY DEF IInv, JobsOK
    <2>2. job[d] = [at |-> "closing", op |-> job[d].op, id |-> job[d].id,
                    revoked |-> job[d].revoked]
      BY <1>1, <2>1 DEF JobOK
    <2>3. job[d].id \in 0..last
      BY <1>1, <2>1 DEF JobOK, At
    <2> QED
      BY <2>2, <2>3
  <1>4. JobOK(d)'
    BY <1>1, <1>2, <1>3 DEF JobOK, At, Changing
  <1>5. last' \in Nat /\ last' >= last
    BY <1>1, NumbersTyped DEF IInv
  <1>6. JobsOK'
    BY <1>1, <1>2, <1>4, <1>5, JobsKept DEF IInv
  <1>7. /\ socket' \in [Devices -> 0..last]
        /\ \A e \in Devices : socket'[e] = IF e \in ended THEN 0 ELSE socket[e]
    BY <1>1, HubTyped DEF HubType, Closed
  <1>8. HubType'
    BY <1>1, <1>7, HubTyped DEF HubType
  <1>9. StageType'
    BY <1>2, <1>3, TypeParts DEF IInv, StageType, Stages
  <1>10. AccountType' /\ RowsType' /\ unlocked' \subseteq Devices
    BY <1>1, TypeParts DEF IInv, AccountType, RowsType
  <1>11. TypeOK'
    BY <1>8, <1>9, <1>10
    DEF TypeOK, AccountType, RowsType, RowType, StageType, Stages, HubType
  <1>12. SocketsFollowSessions'
    <2>1. ASSUME NEW e \in Devices, socket'[e] \notin DOMAIN rows' \cup {0},
                 e \notin unnoticed'
          PROVE  \E c \in Devices : At(c, "closing")' /\ socket'[e] \in job'[c].revoked
      <3>1. e \notin ended /\ socket'[e] = socket[e] /\ e \notin unnoticed
        BY <1>1, <1>7, <2>1
      <3>2. PICK c \in Devices : At(c, "closing") /\ socket[e] \in job[c].revoked
        BY <1>1, <2>1, <3>1 DEF IInv, SocketsFollowSessions
      <3>3. c # d
        BY <3>1, <3>2
      <3> QED
        BY <1>2, <3>1, <3>2, <3>3 DEF At
    <2> QED
      BY <2>1 DEF SocketsFollowSessions
  <1>13. KeysFit' /\ NoneBefore' /\ SessionsOfThePassword'
    BY <1>1 DEF IInv, KeysFit, NoneBefore, SessionsOfThePassword
  <1> QED
    BY <1>6, <1>11, <1>12, <1>13 DEF IInv

-----------------------------------------------------------------------------
LEMMA Initially == Init => IInv
  <1> SUFFICES ASSUME Init PROVE IInv
    OBVIOUS
  <1>1. <<Nobody, 0>> \in Secrets /\ 0 \in 0..MaxVersion /\ 0 \in 0..MaxSessions
    BY LimitsAssumption DEF Secrets
  <1>2. account \in Accounts /\ KeysFit
    BY <1>1, NewAccountFits DEF Init, KeysFit
  <1>3. DOMAIN rows = {} /\ last = 0
    BY DEF Init
  <1>4. TypeOK
    BY <1>1, <1>2, <1>3 DEF Init, TypeOK, Idle
  <1>5. JobsOK
    BY DEF Init, JobsOK, JobOK, At, Changing, Idle
  <1>6. NoneBefore /\ SessionsOfThePassword /\ SocketsFollowSessions
    BY <1>3 DEF Init, NoneBefore, SessionsOfThePassword, SocketsFollowSessions
  <1> QED
    BY <1>2, <1>4, <1>5, <1>6 DEF IInv

LEMMA Inductive == IInv /\ [Next]_vars => IInv'
  <1> SUFFICES ASSUME IInv, [Next]_vars PROVE IInv'
    OBVIOUS
  <1>1. ASSUME NEW d \in Devices, Requests(d)
        PROVE  IInv'
    BY <1>1, RegisterStep, LoginStep, CreateSessionStep, BeginChangeStep, PutStep,
       BeginRecoveryStep, RotateRecoveryKeyStep, ReplaceStep, ConflictStep, LogoutStep,
       CloseSessionsStep, AnswerStep, LoseAnswerStep, LockStep
    DEF Requests
  <1>2. ASSUME NEW d \in Devices, Connections(d)
        PROVE  IInv'
    BY <1>2, UpgradeStep, AddClientStep, HangUpStep DEF Connections
  <1>3. ASSUME NEW s \in DOMAIN rows, Expire(s)
        PROVE  IInv'
    BY <1>3, ExpireStep
  <1>4. CASE UNCHANGED vars
    BY <1>4 DEF vars, IInv, TypeOK, JobsOK, JobOK, At, KeysFit, NoneBefore,
       SessionsOfThePassword, SocketsFollowSessions
  <1> QED
    BY <1>1, <1>2, <1>3, <1>4, DeleteExpiredStep, LimitsAssumption DEF Next

(* The invariant behind the theorems below holds in every reachable state. *)
THEOREM Invariance == Spec => []IInv
  BY Initially, Inductive, PTL DEF Spec

(* However password changes, rotations of the recovery key, recoveries and *)
(* sign-ins of any number of devices overlap, the password that signs in   *)
(* opens the vault and the recovery key the server accepts opens its copy. *)
THEOREM AlwaysUnlockable == Spec => []Unlockable
  <1>1. IInv => Unlockable
    BY DEF IInv, Unlockable, KeysFit
  <1> QED
    BY <1>1, Invariance, PTL

(* No session of an old password is left but that of a sign-in that raced  *)
(* the change, and no socket of an ended session that nobody will close.   *)
THEOREM CutOff == Spec => []OldSessionsCutOff
  <1>1. IInv => OldSessionsCutOff
    BY DEF IInv, OldSessionsCutOff
  <1> QED
    BY <1>1, Invariance, PTL
=============================================================================
