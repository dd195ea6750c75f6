------------------------- MODULE SessionController -------------------------
(***************************************************************************)
(* The browser's session controller (wallet-session-controller.ts): the    *)
(* bearer in memory and in the tab's storage, the calls it has in flight,  *)
(* and the sessions of the server.  Calls the page no longer waits for     *)
(* still arrive; storage may refuse; the page may be reloaded.             *)
(***************************************************************************)
EXTENDS Nothing, Naturals, FiniteSets

CONSTANTS
  Tokens,        \* bearers the server may issue, one per session
  MaxRevision,   \* bound: attempts of one page
  MaxCalls       \* bound: calls in flight

ASSUME ControllerAssumption ==
  /\ MaxRevision \in Nat \ {0} /\ MaxCalls \in Nat \ {0}
  /\ None \notin Tokens \cup {"corrupt"} /\ "corrupt" \notin Tokens

VARIABLES
  page,      \* what the controller holds: state, token, persistence, shown, revision
  flight,    \* restoreFlight, createFlight, signOutFlight: the attempt, or 0
  calls,     \* calls of the services that have not been answered to the page
  storage,   \* the value under PROJECT_TOKEN_SESSION_KEY
  server,    \* sessions: "unused", "live", "ended"
  denied,    \* whether the storage of this browser may throw
  given      \* tokens the page has given up: forgotten, or signed out with an answer

controllerVars == <<page, flight, calls, storage, server, denied, given>>

Kinds == {"restore", "create", "signOut"}

States == {"anonymous", "restoring", "creating-session", "authenticated", "signing-out",
           "unavailable-restore", "unavailable-sign-out", "closed"}

Bearer == Tokens \cup {None}

Stored == Bearer \cup {"corrupt"}

Page == [state : States, token : Bearer, persistence : {"session", "memory"},
         shown : Bearer, revision : 0 .. MaxRevision]

Results == {"waiting", "ok", "invalid", "failed"}

\* "held" and "shown" are what a failed creation puts back.
Call == [kind : Kinds, attempt : 1 .. MaxRevision, token : Bearer, result : Results,
         held : Bearer, heldPersistence : {"session", "memory"}, shown : Bearer]

\* Types of the state; a running state has its call in flight.
ControllerTypeOK ==
  /\ page \in Page
  /\ flight \in [Kinds -> 0 .. MaxRevision]
  /\ calls \subseteq Call
  /\ storage \in Stored
  /\ server \in [Tokens -> {"unused", "live", "ended"}]
  /\ denied \in BOOLEAN
  /\ given \subseteq Tokens
  /\ \A k \in Kinds : flight[k] # 0 =>
       flight[k] = page.revision /\ \E c \in calls : c.kind = k /\ c.attempt = flight[k]
  /\ page.state = "restoring" => flight["restore"] # 0
  /\ page.state = "creating-session" => flight["create"] # 0
  /\ page.state = "signing-out" => flight["signOut"] # 0

FreshPage == [state |-> "anonymous", token |-> None, persistence |-> "session",
              shown |-> None, revision |-> 0]

NoFlight == [k \in Kinds |-> 0]

ControllerInit ==
  /\ page = FreshPage
  /\ flight = NoFlight
  /\ calls = {}
  /\ storage \in Stored
  /\ server = [t \in Tokens |-> IF t = storage THEN "live" ELSE "unused"]
  /\ denied \in BOOLEAN
  /\ given = {}

---------------------------------------------------------------------------
(* Pieces of the controller.                                               *)

\* Fault: an answer is taken whatever was started since.
AnyAttempt(c) == page.state # "closed"

\* current(attempt)
Current(c) == page.state # "closed" /\ page.revision = c.attempt

\* invalidateFlights
Attempt == page.revision + 1

Invalidate == page.revision < MaxRevision /\ flight' = NoFlight

Start(kind, token, state, held) ==
  /\ page.revision < MaxRevision /\ Cardinality(calls) < MaxCalls
  /\ flight' = [NoFlight EXCEPT ![kind] = Attempt]
  /\ calls' = calls \cup
       {[kind |-> kind, attempt |-> Attempt, token |-> token, result |-> "waiting",
         held |-> page.token, heldPersistence |-> page.persistence, shown |-> page.shown]}
  /\ page' = [page EXCEPT !.state = state, !.token = held, !.revision = Attempt]

\* removeStoredToken: a denied removal is swallowed.
RemoveStored ==
  \/ storage' = None
  \/ denied /\ UNCHANGED storage

\* clearAuthority
Clear(p) ==
  /\ page' = [p EXCEPT !.state = "anonymous", !.token = None, !.shown = None,
                       !.persistence = "session"]
  /\ RemoveStored

\* A token whose sign-out was answered is given up, unless the storage would not let it go.
GiveUp(c) ==
  given' = IF c.result = "failed" THEN given ELSE given \cup ({c.token} \ {storage'})

Settle(c) ==
  /\ calls' = calls \ {c}
  /\ flight' = IF flight[c.kind] = c.attempt THEN [flight EXCEPT ![c.kind] = 0] ELSE flight

---------------------------------------------------------------------------
(* What the page asks of it.                                               *)

\* restore, when the provider mounts and from "unavailable".
MayRestore ==
  \/ page.state = "anonymous" /\ page.revision = 0
  \/ page.state = "unavailable-restore"

Restore ==
  /\ MayRestore
  /\ \/ /\ storage \in Tokens
        /\ Start("restore", storage, "restoring", storage)
        /\ UNCHANGED storage
     \/ /\ storage = None \/ denied
        /\ Invalidate
        /\ page' = [page EXCEPT !.state = "anonymous", !.token = None, !.shown = None,
                                !.revision = Attempt]
        /\ UNCHANGED <<storage, calls>>
     \/ /\ storage = "corrupt"
        /\ Invalidate
        /\ Clear([page EXCEPT !.revision = Attempt])
        /\ UNCHANGED calls
  /\ UNCHANGED <<server, given>>

\* createSession keeps the authority it may replace.
CreateSession ==
  /\ page.state # "closed" /\ flight["create"] = 0
  /\ Start("create", None, "creating-session", page.token)
  /\ UNCHANGED <<storage, server, given>>

SignOut ==
  /\ page.state # "closed" /\ flight["signOut"] = 0
  /\ IF page.token # None
       THEN Start("signOut", page.token, "signing-out", page.token)
       ELSE /\ flight["restore"] # 0 \/ flight["create"] # 0
            /\ Invalidate
            /\ page' = [page EXCEPT !.state = "anonymous", !.revision = Attempt]
            /\ UNCHANGED calls
  /\ UNCHANGED <<storage, server, given>>

Unremovable == IF denied THEN {storage} ELSE {}

\* Fault: only the page forgets.
ForgetOnlyPage(p) ==
  /\ page' = [p EXCEPT !.state = "anonymous", !.token = None, !.shown = None]
  /\ UNCHANGED storage

ForgetAuthority(p) == Clear(p)

ForgetBrowser ==
  /\ page.state # "closed"
  /\ Invalidate
  /\ ForgetAuthority([page EXCEPT !.revision = Attempt])
  /\ given' = given \cup (({page.token, storage} \cap Tokens) \ Unremovable)
  /\ UNCHANGED <<calls, server>>

\* Fault: a cancelled attempt leaves its state behind.
CancelledStays == page.state

CancelledState == IF page.shown # None THEN "authenticated" ELSE "anonymous"

\* cancelPending: the sign-in dialog is closed.
CancelPending ==
  /\ page.state # "closed"
  /\ Invalidate
  /\ page' = [page EXCEPT !.state = CancelledState, !.revision = Attempt]
  /\ UNCHANGED <<calls, storage, server, given>>

Close ==
  /\ page.state # "closed"
  /\ flight' = NoFlight
  /\ page' = [page EXCEPT !.state = "closed", !.token = None, !.shown = None]
  /\ UNCHANGED <<calls, storage, server, given>>

\* A reload: a new controller over the storage of the tab.
Reload ==
  /\ page' = FreshPage /\ flight' = NoFlight
  /\ calls' = {}
  /\ UNCHANGED <<storage, server, given>>

---------------------------------------------------------------------------
(* The services.                                                           *)

\* The server does what a call asks, whether or not the page still waits.
Serve(c) ==
  /\ c.result = "waiting"
  /\ \/ /\ c.kind = "create"
        /\ \E t \in {x \in Tokens : server[x] = "unused"} :
             /\ server' = [server EXCEPT ![t] = "live"]
             /\ calls' = (calls \ {c}) \cup {[c EXCEPT !.token = t, !.result = "ok"]}
     \/ /\ c.kind = "restore"
        /\ calls' = (calls \ {c}) \cup
             {[c EXCEPT !.result = IF server[c.token] = "live" THEN "ok" ELSE "invalid"]}
        /\ UNCHANGED server
     \/ /\ c.kind = "signOut"
        /\ server' = [server EXCEPT ![c.token] = "ended"]
        /\ calls' = (calls \ {c}) \cup
             {[c EXCEPT !.result = IF server[c.token] = "live" THEN "ok" ELSE "invalid"]}
  /\ UNCHANGED <<page, flight, storage, given>>

\* An answer is lost, or none comes.
FailCall(c) ==
  /\ c.result # "failed"
  /\ calls' = (calls \ {c}) \cup {[c EXCEPT !.result = "failed"]}
  /\ UNCHANGED <<page, flight, storage, server, given>>

\* A session expires, or is revoked elsewhere.
Expire(t) ==
  /\ server[t] = "live"
  /\ server' = [server EXCEPT ![t] = "ended"]
  /\ UNCHANGED <<page, flight, calls, storage, given>>

---------------------------------------------------------------------------
(* The answers.                                                            *)

Ignored(c) == /\ ~Current(c)
              /\ UNCHANGED <<page, storage, given>>

RestoreTaken(c) ==
  /\ Current(c)
  /\ CASE c.result = "ok" ->
            /\ page' = [page EXCEPT !.state = "authenticated", !.shown = c.token]
            /\ UNCHANGED <<storage, given>>
       [] c.result = "invalid" -> Clear(page) /\ UNCHANGED given
       [] c.result = "failed" ->
            /\ page' = [page EXCEPT !.state = "unavailable-restore"]
            /\ UNCHANGED <<storage, given>>

\* setItem, or memory when it is denied.
SessionHeld(c) ==
  \/ /\ storage' = c.token
     /\ page' = [page EXCEPT !.state = "authenticated", !.token = c.token,
                             !.shown = c.token, !.persistence = "session"]
  \/ /\ denied /\ RemoveStored
     /\ page' = [page EXCEPT !.state = "authenticated", !.token = c.token,
                             !.shown = c.token, !.persistence = "memory"]

CreateTaken(c) ==
  /\ Current(c)
  /\ IF c.result = "ok" THEN SessionHeld(c)
     ELSE /\ page' = [page EXCEPT !.token = c.held, !.persistence = c.heldPersistence,
                        !.shown = c.shown,
                        !.state = IF c.shown # None THEN "authenticated" ELSE "anonymous"]
          /\ UNCHANGED storage
  /\ UNCHANGED given

\* Fault: a sign-out that is not answered clears as well.
ClearsAlways(c) == TRUE

ClearsOn(c) == c.result \in {"ok", "invalid"}

SignOutTaken(c) ==
  /\ Current(c)
  /\ IF ClearsOn(c)
       THEN Clear(page) /\ GiveUp(c)
       ELSE /\ page' = [page EXCEPT !.state = "unavailable-sign-out"]
            /\ UNCHANGED <<storage, given>>

ControllerAnswer(c) ==
  /\ c.result # "waiting"
  /\ \/ Ignored(c)
     \/ c.kind = "restore" /\ RestoreTaken(c)
     \/ c.kind = "create" /\ CreateTaken(c)
     \/ c.kind = "signOut" /\ SignOutTaken(c)
  /\ Settle(c)
  /\ UNCHANGED server

---------------------------------------------------------------------------

ControllerStep ==
  \/ Restore \/ CreateSession \/ SignOut \/ ForgetBrowser \/ CancelPending \/ Close \/ Reload
  \/ \E c \in calls : Serve(c) \/ FailCall(c) \/ ControllerAnswer(c)
  \/ \E t \in Tokens : Expire(t)

ControllerNext == ControllerStep /\ UNCHANGED denied

ControllerSpec == ControllerInit /\ [][ControllerNext]_controllerVars

CallsSettle ==
  /\ \E c \in calls : c.attempt = page.revision /\ (Serve(c) \/ FailCall(c))
  /\ UNCHANGED denied

AnswersArrive ==
  /\ \E c \in calls : c.attempt = page.revision /\ ControllerAnswer(c)
  /\ UNCHANGED denied

\* fetch settles, one way or the other.
ControllerLive ==
  ControllerSpec /\ WF_controllerVars(CallsSettle) /\ WF_controllerVars(AnswersArrive)

---------------------------------------------------------------------------
(* Properties.                                                             *)

\* What the page shows is what it holds, and what it says is kept for the tab is in
\* the storage: no late answer gets one without the other.
ShownIsHeld ==
  page.state = "authenticated" =>
    /\ page.token # None /\ page.shown = page.token
    /\ page.persistence = "session" => storage = page.token

\* A token that was forgotten, or signed out with an answer, never comes back:
\* neither in the page nor in the storage, whatever was in flight.
GivenUpStaysGone == given \cap {page.token, page.shown, storage} = {}

\* Where storage works, a session that is still good leaves it only for a newer one, or when the
\* user gives it up: no failure of the network signs anyone out.
GoodSessionsAreKept ==
  [][(~denied /\ storage \in Tokens /\ storage' # storage /\ server[storage] = "live") =>
       (storage \in given' \/ page'.token \in Tokens \ {storage})]_controllerVars

\* What the page is doing ends, if only in "unavailable".
Busy == page.state \in {"restoring", "creating-session", "signing-out"}

BusyEnds == Busy ~> ~Busy

\* What the controller promises whatever is late, lost, denied or reloaded.
ControllerPromise == []ShownIsHeld /\ []GivenUpStaysGone /\ GoodSessionsAreKept
=============================================================================
