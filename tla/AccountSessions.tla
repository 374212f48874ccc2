-------------------------- MODULE AccountSessions --------------------------
(***************************************************************************)
(* One account: its password, its vault and recovery key (the key          *)
(* material), the sessions that were opened for it and the sockets the     *)
(* realtime hub keeps for them.  The devices of one person register, sign  *)
(* in, change the password, rotate the recovery key, recover the account,  *)
(* sign out and connect, all at once: each request is the sequence of      *)
(* database calls its route makes, with everything else in between.        *)
(*                                                                         *)
(* A secret (a password, a recovery key) is named after the device that    *)
(* chose it and the version it was chosen for.  Attempts with a wrong      *)
(* secret change nothing and are left out.                                 *)
(***************************************************************************)
EXTENDS Integers

CONSTANTS
    Devices,        \* the browsers of the person
    Connecting,     \* the devices that also connect to the hub
    Nobody,         \* a value that is no device, for an account not registered
    MaxSessions,    \* bound: sessions ever created
    MaxVersion      \* bound: versions of the key material

ASSUME LimitsAssumption ==
    /\ Connecting \subseteq Devices /\ Nobody \notin Devices
    /\ MaxSessions \in Nat /\ MaxVersion \in Nat \ {0}

VARIABLES
    account,    \* users and user_key_material: the account, version 0 when there is none
    rows,       \* sessions: the rows, by id
    last,       \* the id of the last session created
    job,        \* the request each device is making
    cookie,     \* the session cookie of each device, 0 without one
    unlocked,   \* the devices that hold the root key
    upgrading,  \* the session of a connection being upgraded, 0 without one
    socket,     \* the session of the hub's client for each device, 0 without one
    unnoticed   \* ghost: devices whose socket only a sweep will find to be orphaned

vars == <<account, rows, last, job, cookie, unlocked, upgrading, socket, unnoticed>>

Secrets == (Devices \cup {Nobody}) \X (0..MaxVersion)
Wraps == [under: Secrets, context: 0..MaxVersion]
Accounts == [verifier: Secrets, vault: Wraps, vaultContext: 0..MaxVersion,
             recoveryVerifier: Secrets, recovery: Wraps, recoveryContext: 0..MaxVersion,
             version: 0..MaxVersion]

(* The root key encrypted under a key derived from a secret, with the      *)
(* version as associated data, and what opens it.                          *)
Wrap(secret, version) == [under |-> secret, context |-> version]
Opens(secret, wrap, context) == wrap.under = secret /\ wrap.context = context

NewAccount(secret, version) ==
    [verifier |-> secret, vault |-> Wrap(secret, version), vaultContext |-> version,
     recoveryVerifier |-> secret, recovery |-> Wrap(secret, version),
     recoveryContext |-> version, version |-> version]

Idle == [at |-> "idle"]

Init ==
    /\ account = NewAccount(<<Nobody, 0>>, 0)
    /\ rows = << >> /\ last = 0
    /\ job = [d \in Devices |-> Idle]
    /\ cookie = [d \in Devices |-> 0]
    /\ unlocked = {}
    /\ upgrading = [d \in Devices |-> 0]
    /\ socket = [d \in Devices |-> 0]
    /\ unnoticed = {}

---------------------------------------------------------------------------
(* Sessions *)

(* A session without requests expires, and so does one that is old; a      *)
(* request or an upgrade with an expired one is turned away.  The limits   *)
(* are times: any session may expire at any moment.                        *)
Active(s) == s \in DOMAIN rows /\ ~rows[s].expired

Expire(s) ==
    /\ Active(s)
    /\ rows' = [rows EXCEPT ![s].expired = TRUE]
    /\ UNCHANGED <<account, last, job, cookie, unlocked, upgrading, socket, unnoticed>>

(* A new row; "raced" is a ghost: the password was changed since the       *)
(* sign-in read the verifier it was compared with.                         *)
Row(verifier) ==
    [expired |-> FALSE,
     verifier |-> verifier, raced |-> verifier # account'.verifier]

Inserted(old, verifier) ==
    [s \in DOMAIN old \cup {last + 1} |->
        IF s = last + 1 THEN Row(verifier) ELSE old[s]]

---------------------------------------------------------------------------
(* Accounts *)

At(d, stage) == job[d].at = stage

Goes(d, to) == job' = [job EXCEPT ![d] = to]

(* The account and its key material are inserted together; the handle is   *)
(* unique.                                                                 *)
Register(d) ==
    /\ At(d, "idle") /\ d \notin unlocked
    /\ account.version = 0
    /\ account' = NewAccount(<<d, 1>>, 1)
    /\ Goes(d, [at |-> "verified", op |-> "register", secret |-> account'.verifier])
    /\ UNCHANGED <<rows, last, cookie, unlocked, upgrading, socket, unnoticed>>

(* The verifier is read, then compared while other requests go on.         *)
Login(d) ==
    /\ At(d, "idle") /\ d \notin unlocked
    /\ account.version > 0
    /\ Goes(d, [at |-> "verified", op |-> "login", secret |-> account.verifier])
    /\ UNCHANGED <<account, rows, last, cookie, unlocked, upgrading, socket, unnoticed>>

CreateSession(d) ==
    /\ At(d, "verified")
    /\ last < MaxSessions
    /\ last' = last + 1
    /\ UNCHANGED account
    /\ rows' = Inserted(rows, job[d].secret)
    /\ Goes(d, [at |-> "granted", op |-> job[d].op, secret |-> job[d].secret, id |-> last + 1])
    /\ UNCHANGED <<cookie, unlocked, upgrading, socket, unnoticed>>

(* The client that changes its password or its recovery key first reads    *)
(* the key material.                                                       *)
BeginChange(d, op) ==
    /\ At(d, "idle") /\ d \in unlocked
    /\ account.version < MaxVersion
    /\ Active(cookie[d])
    /\ Goes(d, [at |-> "read", op |-> op, seen |-> account])
    /\ UNCHANGED <<account, rows, last, cookie, unlocked, upgrading, socket, unnoticed>>

(* PUT of the new key material: the session is checked, the secrets are    *)
(* hashed.                                                                 *)
Put(d) ==
    /\ At(d, "read")
    /\ Goes(d, IF Active(cookie[d]) THEN [job[d] EXCEPT !.at = "allowed"] ELSE Idle)
    /\ UNCHANGED <<account, rows, last, cookie, unlocked, upgrading, socket, unnoticed>>

(* The client opens the root key with the recovery key, and the server     *)
(* compares what it proves and the version it was given.                   *)
BeginRecovery(d) ==
    /\ At(d, "idle") /\ d \notin unlocked
    /\ account.version \in 1..(MaxVersion - 1)
    /\ Opens(account.recoveryVerifier, account.recovery, account.recoveryContext)
    /\ Goes(d, [at |-> "recovering", op |-> "recover", seen |-> account])
    /\ UNCHANGED <<account, rows, last, cookie, unlocked, upgrading, socket, unnoticed>>

CheckRecovery(d) ==
    /\ At(d, "recovering")
    /\ IF /\ account.recoveryVerifier = job[d].seen.recoveryVerifier
          /\ account.version = job[d].seen.version
       THEN Goes(d, [job[d] EXCEPT !.at = "allowed"])
       ELSE Goes(d, Idle)
    /\ UNCHANGED <<account, rows, last, cookie, unlocked, upgrading, socket, unnoticed>>

(* The mistake of checking only that the version was seen.                 *)
AnyVersion(d) == account.version >= job[d].seen.version

(* The update is conditional on the version the client read.               *)
Current(d) == account.version = job[d].seen.version

(* A new password with the vault under it, and a new recovery key with the *)
(* root key under that.                                                    *)
WithPassword(record, secret, version) ==
    [record EXCEPT !.verifier = secret, !.vault = Wrap(secret, version),
                   !.vaultContext = version]

WithRecoveryKey(record, secret, version) ==
    [record EXCEPT !.recoveryVerifier = secret, !.recovery = Wrap(secret, version),
                   !.recoveryContext = version]

(* What is stored for the device; a rotation of the recovery key stores    *)
(* the vault again as the client had read it.                              *)
Updated(d) ==
    LET seen == job[d].seen
        next == [account EXCEPT !.version = @ + 1]
        secret == <<d, seen.version + 1>>
    IN  IF job[d].op = "rotate"
        THEN WithRecoveryKey([next EXCEPT !.vault = seen.vault,
                                          !.vaultContext = seen.vaultContext],
                             secret, seen.version + 1)
        ELSE WithPassword(next, secret, seen.version + 1)

(* The mistake of replacing only the session of the device itself.         *)
ReplaceOwnSession(d) ==
    /\ last < MaxSessions /\ last' = last + 1
    /\ rows' = Inserted([s \in DOMAIN rows \ {cookie[d]} |-> rows[s]], account'.verifier)
    /\ Goes(d, [at |-> "closing", op |-> job[d].op, id |-> last + 1,
                revoked |-> {cookie[d]}])

(* The sessions of the account are deleted and one is inserted for the     *)
(* device that made the change.                                            *)
ReplaceSessions(d) ==
    /\ last < MaxSessions /\ last' = last + 1
    /\ rows' = Inserted(<< >>, account'.verifier)
    /\ Goes(d, [at |-> "closing", op |-> job[d].op, id |-> last + 1,
                revoked |-> DOMAIN rows])

(* The transactions of PUT and of POST /recover.  A new recovery key       *)
(* leaves the sessions alone.                                              *)
RotateRecoveryKey(d) ==
    /\ At(d, "allowed") /\ job[d].op = "rotate" /\ Current(d)
    /\ account' = Updated(d)
    /\ Goes(d, Idle)
    /\ UNCHANGED <<rows, last, cookie, unlocked, upgrading, socket, unnoticed>>

ChangePassword(d) ==
    /\ At(d, "allowed") /\ job[d].op = "change" /\ Current(d)
    /\ account' = Updated(d)
    /\ ReplaceSessions(d)
    /\ UNCHANGED <<cookie, unlocked, upgrading, socket, unnoticed>>

Recover(d) ==
    /\ At(d, "allowed") /\ job[d].op = "recover" /\ Current(d)
    /\ account' = Updated(d)
    /\ ReplaceSessions(d)
    /\ UNCHANGED <<cookie, unlocked, upgrading, socket, unnoticed>>

Conflict(d) ==
    /\ At(d, "allowed") /\ ~Current(d)
    /\ Goes(d, Idle)
    /\ UNCHANGED <<account, rows, last, cookie, unlocked, upgrading, socket, unnoticed>>

(* Sign-out deletes the row of the cookie.                                 *)
Logout(d) ==
    /\ At(d, "idle") /\ d \in unlocked
    /\ rows' = [s \in DOMAIN rows \ {cookie[d]} |-> rows[s]]
    /\ Goes(d, [at |-> "closing", op |-> "logout", id |-> 0,
                revoked |-> {cookie[d]} \cap DOMAIN rows])
    /\ UNCHANGED <<account, last, cookie, unlocked, upgrading, socket, unnoticed>>

---------------------------------------------------------------------------
(* The hub *)

(* The sockets that stay open when those of some devices are closed.       *)
Closed(ds) == [d \in Devices |-> IF d \in ds THEN 0 ELSE socket[d]]

(* closeSession for every session the request ended.                       *)
CloseSessions(d) ==
    /\ At(d, "closing")
    /\ LET ended == {e \in Devices : socket[e] \in job[d].revoked}
       IN  socket' = Closed(ended) /\ unnoticed' = unnoticed \ ended
    /\ Goes(d, [job[d] EXCEPT !.at = "granted"])
    /\ UNCHANGED <<account, rows, last, cookie, unlocked, upgrading>>

(* The upgrade finds the session; the client is added when the handshake   *)
(* is over, whatever became of the session meanwhile.                      *)
Upgrade(d) ==
    /\ d \in unlocked /\ socket[d] = 0 /\ upgrading[d] = 0
    /\ Active(cookie[d])
    /\ upgrading' = [upgrading EXCEPT ![d] = cookie[d]]
    /\ UNCHANGED <<account, rows, last, job, cookie, unlocked, socket, unnoticed>>

AddClient(d) ==
    /\ upgrading[d] # 0
    /\ socket' = [socket EXCEPT ![d] = upgrading[d]]
    /\ upgrading' = [upgrading EXCEPT ![d] = 0]
    /\ unnoticed' = IF upgrading[d] \in DOMAIN rows THEN unnoticed ELSE unnoticed \cup {d}
    /\ UNCHANGED <<account, rows, last, job, cookie, unlocked>>

HangUp(d) ==
    /\ socket[d] # 0
    /\ socket' = Closed({d}) /\ unnoticed' = unnoticed \ {d}
    /\ UNCHANGED <<account, rows, last, job, cookie, unlocked, upgrading>>

(* The mistake of looking only for sessions that expired.                  *)
CheckExpired(d) ==
    /\ socket[d] \in DOMAIN rows /\ ~Active(socket[d])
    /\ socket' = Closed({d}) /\ unnoticed' = unnoticed \ {d}
    /\ UNCHANGED <<account, rows, last, job, cookie, unlocked, upgrading>>

(* A sweep deletes the expired rows and then looks at every client; so     *)
(* does whatever else the hub sends.                                       *)
DeleteExpired ==
    /\ \E s \in DOMAIN rows : ~Active(s)
    /\ rows' = [s \in {t \in DOMAIN rows : Active(t)} |-> rows[s]]
    /\ unnoticed' = unnoticed \cup
           {d \in Devices : socket[d] \in DOMAIN rows /\ ~Active(socket[d])}
    /\ UNCHANGED <<account, last, job, cookie, unlocked, upgrading, socket>>

CheckClient(d) ==
    /\ socket[d] # 0 /\ ~Active(socket[d])
    /\ socket' = Closed({d}) /\ unnoticed' = unnoticed \ {d}
    /\ UNCHANGED <<account, rows, last, job, cookie, unlocked, upgrading>>

---------------------------------------------------------------------------
(* Answers *)

(* The answer sets or clears the cookie.  Registration and recovery have   *)
(* the root key already; a sign-in still has to open the vault.            *)
Answer(d) ==
    /\ At(d, "granted")
    /\ cookie' = [cookie EXCEPT ![d] = job[d].id]
    /\ unlocked' = CASE job[d].op \in {"register", "recover"} -> unlocked \cup {d}
                     [] job[d].op = "logout" -> unlocked \ {d}
                     [] OTHER -> unlocked
    /\ Goes(d, IF job[d].op = "login" THEN [at |-> "opening", secret |-> job[d].secret]
               ELSE Idle)
    /\ UNCHANGED <<account, rows, last, upgrading, socket, unnoticed>>

(* The answer is lost, and with it the cookie.  The vault is locked        *)
(* whether or not the sign-out arrived.                                    *)
LoseAnswer(d) ==
    /\ At(d, "granted")
    /\ unlocked' = IF job[d].op = "logout" THEN unlocked \ {d} ELSE unlocked
    /\ Goes(d, Idle)
    /\ UNCHANGED <<account, rows, last, cookie, upgrading, socket, unnoticed>>

(* After a sign-in: the key material is read with the new session and      *)
(* opened with the password.                                               *)
OpenVault(d) ==
    /\ At(d, "opening")
    /\ unlocked' = IF /\ Active(cookie[d])
                      /\ Opens(job[d].secret, account.vault, account.vaultContext)
                   THEN unlocked \cup {d} ELSE unlocked
    /\ Goes(d, Idle)
    /\ UNCHANGED <<account, rows, last, cookie, upgrading, socket, unnoticed>>

(* The vault is locked, or the page is closed: the cookie and the session  *)
(* stay.                                                                   *)
Lock(d) ==
    /\ At(d, "idle") /\ d \in unlocked
    /\ unlocked' = unlocked \ {d}
    /\ UNCHANGED <<account, rows, last, job, cookie, upgrading, socket, unnoticed>>

---------------------------------------------------------------------------
Requests(d) ==
    \/ Register(d) \/ Login(d) \/ CreateSession(d)
    \/ \E op \in {"change", "rotate"} : BeginChange(d, op)
    \/ Put(d) \/ BeginRecovery(d) \/ CheckRecovery(d)
    \/ RotateRecoveryKey(d) \/ ChangePassword(d) \/ Recover(d) \/ Conflict(d)
    \/ Logout(d) \/ CloseSessions(d)
    \/ Answer(d) \/ LoseAnswer(d) \/ OpenVault(d) \/ Lock(d)

Connections(d) == Upgrade(d) \/ AddClient(d) \/ HangUp(d) \/ CheckClient(d)

Next ==
    \/ \E d \in Devices : Requests(d)
    \/ \E d \in Connecting : Connections(d)
    \/ \E s \in DOMAIN rows : Expire(s)
    \/ DeleteExpired

(* The sweep runs every fifteen seconds.                                   *)
Fairness ==
    /\ WF_vars(DeleteExpired)
    /\ \A d \in Devices : WF_vars(CheckClient(d))

Spec == Init /\ [][Next]_vars /\ Fairness

---------------------------------------------------------------------------
(* Properties *)

(* Every variable has the shape the code gives it.                         *)
TypeOK ==
    /\ account \in Accounts
    /\ last \in 0..MaxSessions
    /\ DOMAIN rows \subseteq 1..last
    /\ \A s \in DOMAIN rows :
           rows[s] \in [expired: BOOLEAN, verifier: Secrets, raced: BOOLEAN]
    /\ \A d \in Devices :
           job[d].at \in {"idle", "verified", "granted", "read", "recovering",
                          "allowed", "closing", "opening"}
    /\ {cookie, upgrading, socket} \subseteq [Devices -> 0..last]
    /\ unlocked \subseteq Devices
    /\ unnoticed \subseteq {d \in Devices : socket[d] # 0}

(* The password that signs in opens the vault, and the recovery key that   *)
(* the server accepts opens its copy of the root key, whatever changes,    *)
(* rotations and recoveries ran into each other and however late they were *)
(* (keyMaterial/routes.ts, postgresAccountRepository.ts).                  *)
Unlockable ==
    /\ TypeOK
    /\ Opens(account.verifier, account.vault, account.vaultContext)
    /\ Opens(account.recoveryVerifier, account.recovery, account.recoveryContext)

(* A session belongs to the present password: those of an earlier one      *)
(* ended with it, except that of a sign-in which had read the verifier     *)
(* before the change and inserted its row after it                         *)
(* (postgresAccountRepository.ts, auth/routes.ts).                         *)
SessionsOfThePassword ==
    \A s \in DOMAIN rows : rows[s].verifier = account.verifier \/ rows[s].raced

(* A socket whose session is gone is about to be closed by the request     *)
(* that ended the session; only one that was added after the session ended *)
(* or whose session expired waits for a sweep (hub.ts, server.ts).         *)
SocketsFollowSessions ==
    \A d \in Devices :
        socket[d] \notin DOMAIN rows \cup {0} =>
            \/ d \in unnoticed
            \/ \E e \in Devices : At(e, "closing") /\ socket[d] \in job[e].revoked

(* A change of password or a recovery cuts off every session of the old    *)
(* password, and their sockets with them: no row and no socket is left     *)
(* that nobody is going to remove (postgresAccountRepository.ts, hub.ts).  *)
OldSessionsCutOff == SessionsOfThePassword /\ SocketsFollowSessions

(* However sessions end, in time there is no expired row and no socket     *)
(* whose session has ended (postgresSessionRepository.ts, hub.ts).         *)
OrphansEnd ==
    []<>(/\ \A s \in DOMAIN rows : Active(s)
         /\ \A d \in Devices : socket[d] = 0 \/ Active(socket[d]))

=============================================================================
