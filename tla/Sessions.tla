----------------------------- MODULE Sessions -----------------------------
(***************************************************************************)
(* Accounts and what opens with them.                                      *)
(*                                                                         *)
(* An account has an identity that is never used again and a version that  *)
(* every change raises. A sign-in opens an access token and a refresh      *)
(* token, a device signs in with a token of its own, and an access token   *)
(* opens connections. Each of them carries the identity and the version    *)
(* it was opened with. Checking a password and hashing one are awaited, so *)
(* accounts change between the look at an account and what follows it.     *)
(*                                                                         *)
(* The switch of the device tokens, the rule for requests from outside the *)
(* trusted networks and the second factor (SecondFactor) are read at each  *)
(* request, which finds them either way.                                   *)
(***************************************************************************)
EXTENDS Integers, FiniteSets, Sequences, SequencesExt

CONSTANTS Names,      \* user names
          Passwords,
          Devices,    \* device tokens
          None,
          FirstName, FirstPassword, \* HYDRA_UMC_BOOTSTRAP_ADMIN_USERNAME and _PASSWORD
          MaxRefresh, \* MAX_REFRESH_TOKENS_PER_USER
          MaxIds,     \* bound: accounts ever created
          MaxVersion, \* bound: changes of one account
          MaxTokens,  \* bound: access tokens at a time
          MaxSockets, \* bound: connections at a time
          MaxLogins   \* bound: sign-ins that wait for the hash at a time

ASSUME SessionsAssumption ==
  /\ FirstName \in Names /\ FirstPassword \in Passwords
  /\ None \notin Names \cup Passwords \cup Devices
  /\ {MaxRefresh, MaxIds, MaxVersion} \subseteq Nat \ {0}
  /\ {MaxTokens, MaxSockets, MaxLogins} \subseteq Nat

VARIABLES
  file,      \* data/users.json: the account of each name
  nextId,    \* identities handed out so far, plus one
  changing,  \* the change that holds the lock: the file as it loaded it, and what it will save
  logins,    \* sign-ins whose password is being checked, with the account as it was read
  tokens,    \* the access tokens that have not expired
  refresh,   \* data/refresh_tokens.json, in order
  sockets,   \* wsClients
  devices    \* data/device-tokens.json

vars == <<file, nextId, changing, logins, tokens, refresh, sockets, devices>>

Ids == 1..MaxIds
Roles == {"admin", "operator"}
Accounts == [id : Ids, version : 1..MaxVersion, role : Roles, password : Passwords]
Files == [Names -> Accounts \cup {None}]

\* password is history: the one that was checked when the session was opened (None: a device).
Sessions == [name : Names, id : Ids, version : 1..MaxVersion, password : Passwords \cup {None},
             device : Devices \cup {None}]
Sockets == [session : Sessions, role : Roles]
DeviceRecords == [state : {"active", "expired", "revoked"}, name : Names, id : Ids]

TypeOK ==
  /\ file \in Files
  /\ nextId \in 1..MaxIds + 1
  /\ changing \subseteq [loaded : Files, saves : Files]
  /\ logins \subseteq [name : Names, account : Accounts]
  /\ tokens \subseteq Sessions
  /\ refresh \in Seq(Sessions)
  /\ sockets \subseteq Sockets
  /\ devices \in [Devices -> DeviceRecords \cup {None}]

(***************************************************************************)
(* Accounts. A change loads the file, computes what it saves, waits for    *)
(* the hash of a password if there is one, and saves.                      *)
(***************************************************************************)
Live(name) == file[name] # None

Admins(f) == {n \in Names : f[n] # None /\ f[n].role = "admin"}

\* variant: no version until the first change
CreatedUnversioned(f, name, role, password) ==
  [f EXCEPT ![name] = [id |-> nextId, version |-> 0, role |-> role, password |-> password]]

Created(f, name, role, password) ==
  [f EXCEPT ![name] = [id |-> nextId, version |-> 1, role |-> role, password |-> password]]

Raised(account) == [account EXCEPT !.version = @ + 1]

\* The account of name, changed: another name, another role, another password (None: none was
\* given), and in any case the version.
Updated(f, name, newName, role, password) ==
  [f EXCEPT ![name] = None,
            ![newName] = Raised([f[name] EXCEPT !.role = role,
                                                !.password = IF password = None THEN @ ELSE password])]

LastAdmin(f, name) == Admins(f) = {name}

MayUpdate(f, name, newName, role) ==
  /\ f[name] # None
  /\ newName # name => f[newName] = None
  /\ role # "admin" => ~LastAdmin(f, name)

\* variant: no lock
LockNever == TRUE

LockFree == changing = {}

\* Each change reads the file when it has the lock.
CreateUser(name, role, password) ==
  /\ LockFree /\ nextId \in Ids /\ ~Live(name)
  /\ changing' = changing \cup {[loaded |-> file, saves |-> Created(file, name, role, password)]}
  /\ nextId' = nextId + 1
  /\ UNCHANGED <<file, logins, tokens, refresh, sockets, devices>>

UpdateUser(name, newName, role, password) ==
  /\ LockFree /\ MayUpdate(file, name, newName, role)
  /\ file[name].version < MaxVersion
  /\ LET saves == Updated(file, name, newName, role, password)
     IN  IF password = None
         THEN file' = saves /\ UNCHANGED changing
         ELSE changing' = changing \cup {[loaded |-> file, saves |-> saves]} /\ UNCHANGED file
  /\ UNCHANGED <<nextId, logins, tokens, refresh, sockets, devices>>

DeleteUser(name) ==
  /\ LockFree /\ Live(name) /\ ~LastAdmin(file, name)
  /\ file' = [file EXCEPT ![name] = None]
  /\ UNCHANGED <<nextId, changing, logins, tokens, refresh, sockets, devices>>

\* What an administrator may ask for.
UsersRoutes ==
  \/ \E n \in Names, r \in Roles, p \in Passwords : CreateUser(n, r, p)
  \/ \E n, m \in Names, r \in Roles, p \in Passwords \cup {None} : UpdateUser(n, m, r, p)
  \/ \E n \in Names : DeleteUser(n)

\* The hash is there: the file that was loaded, with the change, replaces the file.
SaveUsers(c) ==
  /\ c \in changing
  /\ changing' = changing \ {c}
  /\ file' = c.saves
  /\ UNCHANGED <<nextId, logins, tokens, refresh, sockets, devices>>

\* Too many passwords are being hashed, or the file cannot be written: the lock is free again.
GiveUp(c) ==
  /\ c \in changing
  /\ changing' = changing \ {c}
  /\ UNCHANGED <<file, nextId, logins, tokens, refresh, sockets, devices>>

(***************************************************************************)
(* What a session carries, and whether its account is still the one that   *)
(* opened it.                                                              *)
(***************************************************************************)
SessionOf(name, account, password, device) ==
  [name |-> name, id |-> account.id, version |-> account.version, password |-> password, device |-> device]

Current(s) == Live(s.name) /\ file[s.name].id = s.id /\ file[s.name].version = s.version

\* What authenticate() asks of every request: a token that is signed and in time, of the account as it is now.
Authenticated(s) == s \in tokens /\ Current(s)

\* issueRefreshToken: the oldest of the name goes when it has more than it may keep.
Issued(s) ==
  LET own == {i \in DOMAIN refresh : refresh[i].name = s.name}
      oldest == CHOOSE i \in own : \A j \in own : i <= j
  IN  Append(IF Cardinality(own) < MaxRefresh THEN refresh ELSE RemoveAt(refresh, oldest), s)

(***************************************************************************)
(* Signing in with a password.                                             *)
(***************************************************************************)
\* The password given is checked against the account as it is read now; a wrong one changes nothing here.
BeginLogin(name) ==
  /\ Live(name) /\ Cardinality(logins) < MaxLogins
  /\ logins' = logins \cup {[name |-> name, account |-> file[name]]}
  /\ UNCHANGED <<file, nextId, changing, tokens, refresh, sockets, devices>>

\* No free slot for the hash, the rule for outside, or no good code of the second factor.
RefuseLogin(l) ==
  /\ l \in logins
  /\ logins' = logins \ {l}
  /\ UNCHANGED <<file, nextId, changing, tokens, refresh, sockets, devices>>

\* variant: the account is read again after the check
OpenedAfresh(l) == SessionOf(l.name, IF Live(l.name) THEN file[l.name] ELSE l.account, l.account.password, None)

Opened(l) == SessionOf(l.name, l.account, l.account.password, None)

FinishLogin(l) ==
  /\ l \in logins
  /\ Cardinality(tokens) < MaxTokens
  /\ logins' = logins \ {l}
  /\ tokens' = tokens \cup {Opened(l)}
  /\ refresh' = Issued(Opened(l))
  /\ UNCHANGED <<file, nextId, changing, sockets, devices>>

(***************************************************************************)
(* Devices.                                                                *)
(***************************************************************************)
IssueDevice(d, name) ==
  /\ devices[d] = None
  /\ Live(name) /\ file[name].role # "admin"
  /\ devices' = [devices EXCEPT ![d] = [state |-> "active", name |-> name, id |-> file[name].id]]
  /\ UNCHANGED <<file, nextId, changing, logins, tokens, refresh, sockets>>

DeviceIs(d, state) == devices[d] # None /\ devices[d].state = state

\* The elements of q at the places in S, in their order.
Kept(q, S) == [i \in 1..Cardinality(S) |-> q[CHOOSE k \in S : Cardinality({j \in S : j <= k}) = i]]

\* Revoking a device token ends the refresh tokens that were opened with it.
RevokeDevice(d) ==
  /\ (DeviceIs(d, "active") \/ DeviceIs(d, "expired"))
  /\ devices' = [devices EXCEPT ![d].state = "revoked"]
  /\ refresh' = Kept(refresh, {i \in DOMAIN refresh : refresh[i].device # d})
  /\ UNCHANGED <<file, nextId, changing, logins, tokens, sockets>>

ExpireDevice(d) ==
  /\ DeviceIs(d, "active")
  /\ devices' = [devices EXCEPT ![d].state = "expired"]
  /\ UNCHANGED <<file, nextId, changing, logins, tokens, refresh, sockets>>

DeviceRoutes == \E d \in Devices : RevokeDevice(d) \/ \E n \in Names : IssueDevice(d, n)

LoginDevice(d) ==
  /\ DeviceIs(d, "active")
  /\ LET name == devices[d].name
         session == SessionOf(name, file[name], None, d)
     IN  /\ Live(name) /\ file[name].role # "admin" /\ file[name].id = devices[d].id
         /\ Cardinality(tokens) < MaxTokens
         /\ tokens' = tokens \cup {session}
         /\ refresh' = Issued(session)
  /\ UNCHANGED <<file, nextId, changing, logins, sockets, devices>>

(***************************************************************************)
(* Renewing and ending a session.                                          *)
(***************************************************************************)
\* The refresh token is of another version of the account, or of none: it goes.
RenewEnded(i) ==
  /\ ~Current(refresh[i])
  /\ refresh' = RemoveAt(refresh, i)
  /\ UNCHANGED <<file, nextId, changing, logins, tokens, sockets, devices>>

Rotated(i) == Append(RemoveAt(refresh, i), refresh[i])

DeviceMayRenew(d, on, account) == on /\ DeviceIs(d, "active") /\ account.role # "admin"

\* The token is rotated before anything else is looked at: whether the request is turned away
\* because it comes from outside, and whether the device tokens are on.
Renew(i, refused, on) ==
  /\ Current(refresh[i])
  /\ LET s == refresh[i]
         ended == s.device # None /\ ~DeviceMayRenew(s.device, on, file[s.name])
     IN  /\ refresh' = IF ~refused /\ ended THEN RemoveAt(refresh, i) ELSE Rotated(i)
         /\ IF refused \/ ended
            THEN UNCHANGED tokens
            ELSE /\ Cardinality(tokens) < MaxTokens
                 /\ tokens' = tokens \cup {s}
  /\ UNCHANGED <<file, nextId, changing, logins, sockets, devices>>

\* Signing out, and a refresh token whose time has run out.
EndRefresh(i) ==
  /\ refresh' = RemoveAt(refresh, i)
  /\ UNCHANGED <<file, nextId, changing, logins, tokens, sockets, devices>>

ExpireToken(s) ==
  /\ s \in tokens
  /\ tokens' = tokens \ {s}
  /\ UNCHANGED <<file, nextId, changing, logins, refresh, sockets, devices>>

(***************************************************************************)
(* Connections.                                                            *)
(***************************************************************************)
Connect(s) ==
  /\ Authenticated(s)
  /\ Cardinality(sockets) < MaxSockets
  /\ sockets' = sockets \cup {[session |-> s, role |-> file[s.name].role]}
  /\ UNCHANGED <<file, nextId, changing, logins, tokens, refresh, devices>>

Disconnect(k) ==
  /\ k \in sockets
  /\ sockets' = sockets \ {k}
  /\ UNCHANGED <<file, nextId, changing, logins, tokens, refresh, devices>>

\* variant: the account is not looked at
StillOpenAlways(k) == TRUE

StillOpen(k) == Current(k.session)

\* Every 30 seconds: who did not answer the last ping goes, and whose account is another now goes too.
Heartbeat(silent) ==
  /\ sockets' = {k \in sockets \ silent : StillOpen(k)}
  /\ UNCHANGED <<file, nextId, changing, logins, tokens, refresh, devices>>

\* Only the connection of an administrator is sent the credentials of the cameras.
MaySeeSecrets(k) == k.role = "admin"

Restart ==
  /\ changing' = {} /\ logins' = {} /\ sockets' = {}
  /\ UNCHANGED <<file, nextId, tokens, refresh, devices>>

\* ensureSeedUser: the first start creates one administrator.
Init ==
  /\ file = [n \in Names |-> IF n = FirstName
                             THEN [id |-> 1, version |-> 1, role |-> "admin", password |-> FirstPassword]
                             ELSE None]
  /\ nextId = 2
  /\ changing = {} /\ logins = {} /\ tokens = {} /\ refresh = <<>> /\ sockets = {}
  /\ devices = [d \in Devices |-> None]

Next ==
  \/ UsersRoutes
  \/ \E c \in changing : SaveUsers(c) \/ GiveUp(c)
  \/ \E n \in Names : BeginLogin(n)
  \/ \E l \in logins : RefuseLogin(l) \/ FinishLogin(l)
  \/ DeviceRoutes
  \/ \E d \in Devices : ExpireDevice(d) \/ LoginDevice(d)
  \/ \E i \in DOMAIN refresh : RenewEnded(i) \/ EndRefresh(i) \/ \E refused, on \in BOOLEAN : Renew(i, refused, on)
  \/ \E s \in tokens : ExpireToken(s) \/ Connect(s)
  \/ \E k \in sockets : Disconnect(k)
  \/ \E silent \in SUBSET sockets : Heartbeat(silent)
  \/ Restart

\* The timer of the heartbeat fires, also when every connection answered the last ping.
Spec == Init /\ [][Next]_vars /\ WF_vars(Heartbeat({}))

(***************************************************************************)
(* Properties.                                                             *)
(***************************************************************************)
Open == tokens \cup Range(refresh) \cup {k.session : k \in sockets}

(* Whatever is open with a password and still works was opened with the    *)
(* password the account has now: a sign-in that was checking the old       *)
(* password while it was changed, by routes/auth.ts:59, opens nothing.     *)
OpenedWithTheirPassword ==
  \A s \in Open : Current(s) /\ s.device = None => s.password = file[s.name].password

(* What a change of the account ended stays ended: no later change, saved  *)
(* from a file that was loaded before (users.ts:268), and no account       *)
(* created again under the name, opens an old token or connection again.   *)
EndedStaysEnded == [][\A s \in Open : ~Current(s) => ~Current(s)']_vars

(* A connection that is sent the credentials of the cameras is of an       *)
(* administrator, or of an account that changed since, which the next      *)
(* heartbeat closes (ws.ts:42, 232 and 330).                               *)
SecretsFollowTheRole ==
  \A k \in sockets : MaySeeSecrets(k) /\ Current(k.session) => file[k.session.name].role = "admin"

(* A device token that was revoked renews nothing: nothing in the file of  *)
(* refresh tokens was opened with it (routes/deviceRoutes.ts:62).          *)
RevokedRenewsNothing == \A i \in DOMAIN refresh : refresh[i].device # None => ~DeviceIs(refresh[i].device, "revoked")

SessionsAreTrue == OpenedWithTheirPassword /\ SecretsFollowTheRole /\ RevokedRenewsNothing

(* A connection whose account changed or is gone is closed: the heartbeat  *)
(* of ws.ts:314 looks at the account again.                                *)
EndedCloses ==
  \A i \in Ids, v \in 1..MaxVersion :
    LET Mine(k) == k.session.id = i /\ k.session.version = v
    IN  (\E k \in sockets : Mine(k) /\ ~Current(k.session)) ~> (\A k \in sockets : ~Mine(k))
=============================================================================
