--------------------------- MODULE WalletSessions ---------------------------
(***************************************************************************)
(* The wallet identity service (wallet-session-service.ts): challenges     *)
(* under two quotas per minute, their single consumption, and browser      *)
(* sessions.  Calls interleave between SQL statements and share a pool of  *)
(* connections; rows that a transaction wrote stay locked until it ends.   *)
(***************************************************************************)
EXTENDS Nothing, Naturals, FiniteSets

CONSTANTS
  Requests,      \* calls of createWalletChallenge; each names its challenge
  Logins,        \* calls of createWalletSession
  Addresses,
  AddressOf,     \* the address of a challenge
  ChallengeOf,   \* the challenge a login answers
  Signed,        \* logins whose signature recovers the challenge's address
  Connections,   \* size of the connection pool
  AddressLimit,  \* challenges per address and minute
  GlobalLimit,   \* challenges per minute
  Lifetime,      \* minutes a challenge may be answered
  Retention,     \* minutes an expired row is kept
  LastMinute,    \* bound: the minutes that are told apart
  Global         \* the subject of the global quota

ASSUME WalletAssumption ==
  /\ AddressOf \in [Requests -> Addresses]
  /\ ChallengeOf \in [Logins -> Requests]
  /\ Signed \subseteq Logins
  /\ Connections \in Nat \ {0}
  /\ AddressLimit \in Nat \ {0} /\ GlobalLimit \in Nat /\ GlobalLimit >= AddressLimit
  /\ {Lifetime, Retention, LastMinute} \subseteq Nat \ {0}
  /\ Global \notin Addresses
  /\ None \notin Requests /\ None \notin Logins /\ None \notin Nat

Minutes == 1 .. LastMinute

Subjects == Addresses \cup {Global}

VARIABLES
  minute,      \* the minute of PostgreSQL's clock
  used,        \* used_count of the quota_windows rows, by minute and subject
  held,        \* the request whose transaction has a quota row locked
  challenge,   \* wallet_challenges
  request,     \* how far a request is, and the minute its transaction read
  login,       \* how far a login is, and the project it found or creates
  addressLock, \* the login that holds an address's advisory lock
  identity,    \* wallet_identities: the default project of an address
  sessions     \* api_tokens of kind browser

walletVars == <<minute, used, held, challenge, request, login, addressLock, identity, sessions>>

Challenge == [status : {"none", "open", "consumed", "swept"}, issued : Minutes \cup {None}]

\* A project is named after the login that created it.
Session == [login : Logins, project : Logins]

RequestPlaces == {"idle", "clock", "address", "global", "insert", "cleanup", "done"}

LoginPlaces == {"idle", "verify", "connect", "lock", "lookup", "token", "done"}

\* Types of the state; locks are held by calls inside a transaction.
WalletTypeOK ==
  /\ minute \in Minutes
  /\ used \in [Minutes \X Subjects -> Nat]
  /\ held \in [Minutes \X Subjects -> Requests \cup {None}]
  /\ challenge \in [Requests -> Challenge]
  /\ request \in [Requests -> [at : RequestPlaces, minute : Minutes \cup {None}]]
  /\ login \in [Logins -> [at : LoginPlaces, project : Logins \cup {None}, outcome :
                  {"none", "session", "unavailable", "invalid", "conflict", "error"}]]
  /\ addressLock \in [Addresses -> Logins \cup {None}]
  /\ identity \in [Addresses -> Logins \cup {None}]
  /\ sessions \subseteq Session
  /\ \A row \in DOMAIN held :
       held[row] # None => request[held[row]].at \in {"global", "insert"}
  /\ \A a \in Addresses :
       addressLock[a] # None => login[addressLock[a]].at \in {"lookup", "token"}

WalletInit ==
  /\ minute = 1
  /\ used = [row \in Minutes \X Subjects |-> 0]
  /\ held = [row \in Minutes \X Subjects |-> None]
  /\ challenge = [r \in Requests |-> [status |-> "none", issued |-> None]]
  /\ request = [r \in Requests |-> [at |-> "idle", minute |-> None]]
  /\ login = [l \in Logins |-> [at |-> "idle", project |-> None, outcome |-> "none"]]
  /\ addressLock = [a \in Addresses |-> None]
  /\ identity = [a \in Addresses |-> None]
  /\ sessions = {}

---------------------------------------------------------------------------
(* The pool: a call has a connection from connect() to release().          *)

Connected ==
  {r \in Requests : request[r].at \notin {"idle", "done"}} \cup
  {l \in Logins : login[l].at \in {"lock", "lookup", "token"}}

ConnectionFree == Cardinality(Connected) < Connections

---------------------------------------------------------------------------
(* createWalletChallenge                                                   *)

loginVars == <<login, addressLock, identity, sessions>>

RequestAt(r, place) == request[r].at = place

RequestGoes(r, place) == request' = [request EXCEPT ![r].at = place]

\* Fault: a refused request leaves its transaction open.
ReleaseNothing(r) == UNCHANGED held

ReleaseRows(r) == held' = [row \in DOMAIN held |-> IF held[row] = r THEN None ELSE held[row]]

Connect(r) ==
  /\ RequestAt(r, "idle")
  /\ ConnectionFree
  /\ RequestGoes(r, "clock")
  /\ UNCHANGED <<minute, used, held, challenge, loginVars>>

\* One statement reads the clock for the windows and for the challenge.
ReadClock(r) ==
  /\ RequestAt(r, "clock")
  /\ request' = [request EXCEPT ![r] = [at |-> "address", minute |-> minute]]
  /\ UNCHANGED <<minute, used, held, challenge, loginVars>>

SubjectAt(r) == IF RequestAt(r, "address") THEN AddressOf[r] ELSE Global

LimitAt(r) == IF RequestAt(r, "address") THEN AddressLimit ELSE GlobalLimit

NextPlace(r) == IF RequestAt(r, "address") THEN "global" ELSE "insert"

\* reserveChallengeQuota: the upsert waits for the row, and takes it or refuses.
ReserveChallenge(r) ==
  LET row == <<request[r].minute, SubjectAt(r)>> IN
  /\ request[r].at \in {"address", "global"}
  /\ held[row] \in {None, r}
  /\ IF used[row] < LimitAt(r)
       THEN /\ held' = [held EXCEPT ![row] = r]
            /\ RequestGoes(r, NextPlace(r))
       ELSE ReleaseRows(r) /\ RequestGoes(r, "done")
  /\ UNCHANGED <<minute, used, challenge, loginVars>>

\* Fault: the challenge reads the clock again.
IssueNow(r) == minute

IssueTime(r) == request[r].minute

\* The challenge is inserted and everything is committed; whether the client learns
\* of it makes no difference here.
InsertChallenge(r) ==
  /\ RequestAt(r, "insert")
  /\ challenge' = [challenge EXCEPT ![r] = [status |-> "open", issued |-> IssueTime(r)]]
  /\ used' = [row \in DOMAIN used |-> IF held[row] = r THEN used[row] + 1 ELSE used[row]]
  /\ ReleaseRows(r)
  /\ RequestGoes(r, "cleanup")
  /\ UNCHANGED <<minute, loginVars>>

Old(time) == time + Retention <= minute

Swept(c) ==
  IF c.issued # None /\ Old(c.issued + Lifetime) THEN [c EXCEPT !.status = "swept"] ELSE c

\* Fault: the cleanup asks the pool for a connection of its own.
CleanupNeedsConnection(r) == ConnectionFree

\* The cleanup runs on the connection of the request.
CleanupCanRun(r) == TRUE

\* boundedChallengeCleanup: rows that are long over and not locked are deleted;
\* each statement may fail.
Cleanup(r) ==
  /\ RequestAt(r, "cleanup")
  /\ CleanupCanRun(r)
  /\ \/ challenge' = [x \in Requests |-> Swept(challenge[x])]
     \/ UNCHANGED challenge
  /\ \/ used' = [row \in DOMAIN used |->
                   IF Old(row[1] + 1) /\ held[row] = None THEN 0 ELSE used[row]]
     \/ UNCHANGED used
  /\ RequestGoes(r, "done")
  /\ UNCHANGED <<minute, held, loginVars>>

\* A statement fails or the process dies: ROLLBACK.
AbortRequest(r) ==
  /\ request[r].at \notin {"idle", "done"}
  /\ ReleaseRows(r)
  /\ RequestGoes(r, "done")
  /\ UNCHANGED <<minute, used, challenge, loginVars>>

---------------------------------------------------------------------------
(* createWalletSession                                                     *)

requestVars == <<used, held, request>>

LoginAt(l, place) == login[l].at = place

LoginGoes(l, place) == login' = [login EXCEPT ![l].at = place]

LoginEnds(l, outcome) ==
  /\ login' = [login EXCEPT ![l] = [at |-> "done", project |-> None, outcome |-> outcome]]
  /\ addressLock' = [a \in Addresses |-> IF addressLock[a] = l THEN None ELSE addressLock[a]]

OfAddress(l) == AddressOf[ChallengeOf[l]]

\* Fault: a challenge may be answered until it expires.
ConsumableOften(c) == c.status \in {"open", "consumed"} /\ c.issued + Lifetime > minute

Consumable(c) == c.status = "open" /\ c.issued + Lifetime > minute

\* consumeWalletChallenge: the challenge is consumed before its signature is seen.
Consume(l) ==
  LET r == ChallengeOf[l] IN
  /\ LoginAt(l, "idle") /\ challenge[r].status # "none"
  /\ ConnectionFree
  /\ IF Consumable(challenge[r])
       THEN /\ challenge' = [challenge EXCEPT ![r].status = "consumed"]
            /\ LoginGoes(l, "verify") /\ UNCHANGED addressLock
       ELSE LoginEnds(l, "unavailable") /\ UNCHANGED challenge
  /\ UNCHANGED <<minute, requestVars, identity, sessions>>

Verify(l) ==
  /\ LoginAt(l, "verify")
  /\ IF l \in Signed THEN LoginGoes(l, "connect") /\ UNCHANGED addressLock
                     ELSE LoginEnds(l, "invalid")
  /\ UNCHANGED <<minute, requestVars, challenge, identity, sessions>>

\* provisionBrowserSession: BEGIN.
ConnectLogin(l) ==
  /\ LoginAt(l, "connect")
  /\ ConnectionFree
  /\ LoginGoes(l, "lock")
  /\ UNCHANGED <<minute, requestVars, challenge, addressLock, identity, sessions>>

\* Fault: logins of one address are not serialized.
AddressFreeAlways(l) == TRUE

AddressFree(l) == addressLock[OfAddress(l)] = None

\* pg_advisory_xact_lock on the address.
LockAddress(l) ==
  /\ LoginAt(l, "lock")
  /\ AddressFree(l)
  /\ addressLock' = [addressLock EXCEPT ![OfAddress(l)] = l]
  /\ LoginGoes(l, "lookup")
  /\ UNCHANGED <<minute, requestVars, challenge, identity, sessions>>

\* The identity's project, or a new project and identity.
LookUp(l) ==
  LET known == identity[OfAddress(l)] IN
  /\ LoginAt(l, "lookup")
  /\ login' = [login EXCEPT ![l].at = "token", ![l].project = IF known = None THEN l ELSE known]
  /\ UNCHANGED <<minute, requestVars, challenge, addressLock, identity, sessions>>

\* The token is inserted and the transaction commits, unless the new identity meets
\* the unique key of (chain_id, address).
CommitSession(l) ==
  LET a == OfAddress(l)
      project == login[l].project IN
  /\ LoginAt(l, "token")
  /\ IF identity[a] \notin {None, project}
       THEN LoginEnds(l, "conflict") /\ UNCHANGED <<identity, sessions>>
       ELSE /\ identity' = [identity EXCEPT ![a] = project]
            /\ sessions' = sessions \cup {[login |-> l, project |-> project]}
            /\ \E outcome \in {"session", "error"} : LoginEnds(l, outcome)
  /\ UNCHANGED <<minute, requestVars, challenge>>

AbortLogin(l) ==
  /\ login[l].at \notin {"idle", "done"}
  /\ LoginEnds(l, "error")
  /\ UNCHANGED <<minute, requestVars, challenge, identity, sessions>>

---------------------------------------------------------------------------

\* The clock; no transaction is open for as long as rows are kept.
NextMinute ==
  /\ minute < LastMinute
  /\ \A r \in Requests :
       request[r].at \notin {"idle", "done"} /\ request[r].minute # None
         => request[r].minute + Retention > minute
  /\ minute' = minute + 1
  /\ UNCHANGED <<used, held, challenge, request, loginVars>>

RequestStep(r) ==
  Connect(r) \/ ReadClock(r) \/ ReserveChallenge(r) \/ InsertChallenge(r) \/ Cleanup(r)

LoginStep(l) ==
  Consume(l) \/ Verify(l) \/ ConnectLogin(l) \/ LockAddress(l) \/ LookUp(l) \/ CommitSession(l)

WalletNext ==
  \/ \E r \in Requests : RequestStep(r) \/ AbortRequest(r)
  \/ \E l \in Logins : LoginStep(l) \/ AbortLogin(l)
  \/ NextMinute

WalletSpec == WalletInit /\ [][WalletNext]_walletVars

\* Statements are executed; pool, row locks and advisory locks are queues.
WalletLive ==
  /\ WalletSpec
  /\ \A r \in Requests : SF_walletVars(RequestStep(r))
  /\ \A l \in Logins : SF_walletVars(LoginStep(l))

---------------------------------------------------------------------------
(* Properties.                                                             *)

IssuedIn(m, s) ==
  {r \in Requests : challenge[r].issued = m /\ s \in {AddressOf[r], Global}}

\* The challenges of a minute are as many as its rows count, for each address and in
\* all, as long as the rows are kept; so the limits bound the challenges.
QuotasBoundChallenges ==
  \A m \in Minutes, s \in Subjects :
    ~Old(m + 1) =>
      /\ Cardinality(IssuedIn(m, s)) = used[<<m, s>>]
      /\ used[<<m, s>>] <= IF s = Global THEN GlobalLimit ELSE AddressLimit

\* A challenge gives at most one session, to a login that signed it, and a failed
\* signature uses it up.
OneSessionPerChallenge ==
  /\ \A s \in sessions : s.login \in Signed /\ challenge[ChallengeOf[s.login]].status # "open"
  /\ \A s, t \in sessions : ChallengeOf[s.login] = ChallengeOf[t.login] => s = t
  /\ \A l \in Logins : login[l].outcome = "invalid" => challenge[ChallengeOf[l]].status # "open"

\* Concurrent first logins of an address end in one project, and none of them loses
\* its consumed challenge to the others.
OneProjectPerAddress ==
  /\ \A s \in sessions : identity[OfAddress(s.login)] = s.project
  /\ \A l \in Logins : login[l].outcome # "conflict"

\* Every request and every login that has begun ends, even with one connection.
CallsEnd ==
  /\ \A r \in Requests : RequestAt(r, "clock") ~> RequestAt(r, "done")
  /\ \A l \in Logins : LoginAt(l, "verify") ~> LoginAt(l, "done")

\* What a sign-in buys: one session per signed challenge, one project per address, and
\* no more challenges than the quotas, under concurrent requests and logins.
WalletPromise == OneSessionPerChallenge /\ OneProjectPerAddress /\ QuotasBoundChallenges
=============================================================================
