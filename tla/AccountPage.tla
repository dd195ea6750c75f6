----------------------------- MODULE AccountPage -----------------------------
(***************************************************************************)
(* The account page in the browser: AccountSettings.tsx issues and revokes *)
(* credentials through WalletSessionProvider, whose authority marker       *)
(* every transition of the session advances.  Requests that were sent      *)
(* under an earlier authority, or by an earlier page, are answered all the *)
(* same, in any order.                                                     *)
(***************************************************************************)
EXTENDS Nothing, Naturals, FiniteSets

CONSTANTS
  MaxMarker,     \* bound: transitions of the session
  MaxErrands,    \* bound: credentials issued and revoked
  MaxLooks       \* bound: requests for the account

ASSUME AccountPageAssumption ==
  /\ {MaxMarker, MaxErrands, MaxLooks} \subseteq Nat \ {0}
  /\ None \notin [issued : SUBSET (0 .. MaxErrands), revoked : SUBSET (0 .. MaxErrands)]

Markers == 1 .. MaxMarker

Errands == 1 .. MaxErrands

Looks == 1 .. MaxLooks

\* Errand e issues credential e; credential 0 is there from the beginning.
Credentials == 0 .. MaxErrands

VARIABLES
  access,   \* the session: status, the marker of its authority, the bearer
  account,  \* what the snapshot shows: the bearer's credentials and the revoked, or None
  proof,    \* accountEvidence: marker and revoked credentials
  look,     \* requests of getAccount
  looking,  \* accountRefreshFlight: a look, or 0
  errand,   \* createAccountToken and revokeAccountToken calls
  lane,     \* accountMutationFlight: an errand, or 0
  settings, \* the page: its number (0: closed), its errands in flight, what it reveals
  ledger    \* the server's credentials: bearer that issued them, and whether revoked

accountVars == <<access, account, proof, look, looking, errand, lane, settings, ledger>>

AccountErrandStages == {"unused", "asked", "answered", "refreshing", "done", "failed"}

AccountRecord == [issued : SUBSET Credentials, revoked : SUBSET Credentials]

\* Types of the state; a secret is on the screen only of the session that asked for
\* it, and a page that shows none is not left with an errand that is over.
AccountPageTypeOK ==
  /\ access \in [status : {"arriving", "in", "leaving", "stuck", "out"}, marker : Markers,
                 bearer : Markers]
  /\ account \in AccountRecord \cup {None}
  /\ proof \in [marker : Markers, seen : SUBSET Credentials] \cup {None}
  /\ look \in [Looks -> [stage : {"unused", "asked", "read", "done", "failed"}, marker : Markers,
                         bearer : Markers, seen : AccountRecord]]
  /\ looking \in Looks \cup {0}
  /\ errand \in [Errands -> [kind : {"issue", "revoke"}, stage : AccountErrandStages, marker : Markers,
                   bearer : Markers, page : Nat, of : Credentials, look : Looks \cup {0}]]
  /\ lane \in Errands \cup {0}
  /\ settings \in [number : Nat, open : BOOLEAN, issuing : Errands \cup {0},
                   revoking : Errands \cup {0}, reveal : Credentials]
  /\ ledger \in [Credentials -> [by : Markers \cup {0}, revoked : BOOLEAN]]
  /\ lane # 0 => errand[lane].stage \notin {"unused", "done", "failed"}
  /\ settings.issuing # 0 => errand[settings.issuing].stage \notin {"unused", "done", "failed"}

Nowhere == [issued |-> {}, revoked |-> {}]

AccountPageInit ==
  /\ access = [status |-> "in", marker |-> 1, bearer |-> 1]
  /\ account = None /\ proof = None
  /\ look = [l \in Looks |-> [stage |-> "unused", marker |-> 1, bearer |-> 1, seen |-> Nowhere]]
  /\ looking = 0 /\ lane = 0
  /\ errand = [e \in Errands |-> [kind |-> "issue", stage |-> "unused", marker |-> 1,
                 bearer |-> 1, page |-> 0, of |-> 0, look |-> 0]]
  /\ settings = [number |-> 1, open |-> TRUE, issuing |-> 0, revoking |-> 0, reveal |-> 0]
  /\ ledger = [c \in Credentials |-> [by |-> IF c = 0 THEN 1 ELSE 0, revoked |-> FALSE]]

---------------------------------------------------------------------------
(* The session, as far as the provider sees it.                            *)

\* The page without an active session: what it reveals goes.
Unrevealed == [settings EXCEPT !.reveal = 0]

\* advanceAccountAuthority with the controller's transition; the snapshot loses the
\* account.
Transition(from, status, bearer) ==
  /\ access.status \in from /\ access.marker < MaxMarker
  /\ access' = [status |-> status, marker |-> access.marker + 1, bearer |-> bearer]
  /\ account' = None
  /\ settings' = IF status = "in" THEN settings ELSE Unrevealed
  /\ UNCHANGED <<proof, look, looking, errand, lane, ledger>>

\* createSession or restore; the bearer is new.
SignInAgain == Transition({"out"}, "arriving", access.marker + 1)

\* signOut, also its retry.
LeaveAccount == Transition({"in", "stuck"}, "leaving", access.bearer)

ForgetThisBrowser == Transition({"in", "stuck"}, "out", access.bearer)

\* cancelPending when nothing is pending: a new authority over the same session.
CancelNothing == Transition({"in"}, "in", access.bearer)

\* The controller's calls are answered; refreshSnapshot.
TransitionEnds ==
  /\ \/ access.status = "arriving" /\ \E s \in {"in", "out"} : access' = [access EXCEPT !.status = s]
     \/ access.status = "leaving" /\ \E s \in {"out", "stuck"} : access' = [access EXCEPT !.status = s]
  /\ account' = None
  /\ UNCHANGED <<proof, look, looking, errand, lane, settings, ledger>>

---------------------------------------------------------------------------
(* The account.                                                            *)

IsCurrent(marker) == access.marker = marker /\ access.status = "in"

NextLook == CHOOSE l \in Looks : look[l].stage = "unused" /\ \A k \in 1 .. l - 1 : look[k].stage # "unused"

UnderWay == looking # 0 /\ look[looking].marker = access.marker

\* The bound of looks is not reached.
MayLook == UnderWay \/ \E l \in Looks : look[l].stage = "unused"

\* refreshAccount: the look under way for this authority, or a new one.
JoinedLook == IF UnderWay THEN looking ELSE NextLook

Refresh(l) ==
  /\ looking' = l
  /\ look' = IF l = looking THEN look
             ELSE [look EXCEPT ![l] = [stage |-> "asked", marker |-> access.marker,
                                       bearer |-> access.bearer, seen |-> Nowhere]]

\* The page has no account yet.
NeedsAccount ==
  /\ settings.open /\ access.status = "in" /\ account = None /\ MayLook
  /\ Refresh(JoinedLook)
  /\ UNCHANGED <<access, account, proof, errand, lane, settings, ledger>>

IssuedBy(b) == {c \in Credentials : ledger[c].by = b}

\* The server reads the account of the bearer.
ReadAccount(l) ==
  /\ look[l].stage = "asked"
  /\ look' = [look EXCEPT ![l].stage = "read", ![l].seen =
       [issued |-> IssuedBy(look[l].bearer),
        revoked |-> {c \in IssuedBy(look[l].bearer) : ledger[c].revoked}]]
  /\ UNCHANGED <<access, account, proof, looking, errand, lane, settings, ledger>>

\* Fault: an answer is shown whoever is signed in since.
ShownToAnyone(l) == access.status = "in"

LookCounts(l) == IsCurrent(look[l].marker)

\* The answer, or the failure, reaches the page: an answer of an earlier authority
\* is ignored, and is no failure.
LookAnswered(l) ==
  /\ look[l].stage \in {"asked", "read"}
  /\ look' = [look EXCEPT ![l].stage = IF @ = "read" THEN "done" ELSE "failed"]
  /\ looking' = IF looking = l THEN 0 ELSE looking
  /\ IF look[l].stage = "read" /\ LookCounts(l)
       THEN /\ account' = look[l].seen
            /\ proof' = [marker |-> look[l].marker, seen |-> look[l].seen.revoked]
       ELSE UNCHANGED <<account, proof>>
  /\ UNCHANGED <<access, errand, lane, settings, ledger>>

---------------------------------------------------------------------------
(* Credentials.                                                            *)

\* The lane: another errand of the same authority is refused on the spot.
LaneFree == lane = 0 \/ errand[lane].marker # access.marker

Asks(e, kind, c) ==
  /\ errand[e].stage = "unused" /\ \A d \in 1 .. e - 1 : errand[d].stage # "unused"
  /\ settings.open /\ access.status = "in" /\ account # None
  /\ IF LaneFree
       THEN /\ errand' = [errand EXCEPT ![e] = [kind |-> kind, stage |-> "asked",
                 marker |-> access.marker, bearer |-> access.bearer, page |-> settings.number,
                 of |-> c, look |-> 0]]
            /\ lane' = e
       ELSE UNCHANGED <<errand, lane>>
  /\ UNCHANGED <<access, account, proof, look, looking, ledger>>

\* submit, with a key of its own; a refused one shows a failure.
Submit(e) ==
  /\ settings.issuing = 0
  /\ Asks(e, "issue", e)
  /\ settings' = IF LaneFree THEN [settings EXCEPT !.issuing = e] ELSE settings

\* confirmRevoke of a credential the page lists as active.
ConfirmRevoke(e) ==
  /\ settings.revoking = 0
  /\ account # None /\ \E c \in account.issued \ account.revoked : Asks(e, "revoke", c)
  /\ settings' = IF LaneFree THEN [settings EXCEPT !.revoking = e] ELSE settings

\* The server issues or revokes.
ServeErrand(e) ==
  /\ errand[e].stage = "asked"
  /\ ledger' = IF errand[e].kind = "issue"
                 THEN [ledger EXCEPT ![errand[e].of].by = errand[e].bearer]
                 ELSE [ledger EXCEPT ![errand[e].of].revoked = TRUE]
  /\ errand' = [errand EXCEPT ![e].stage = "answered"]
  /\ UNCHANGED <<access, account, proof, look, looking, lane, settings>>

\* The page is told how an errand ended: it ignores errands of an earlier page.
Told(e, success) ==
  IF errand[e].page # settings.number THEN settings
  ELSE IF errand[e].kind = "issue"
    THEN [settings EXCEPT !.issuing = 0,
            !.reveal = IF success /\ settings.open /\ access.status = "in" THEN e ELSE @]
    ELSE [settings EXCEPT !.revoking = IF settings.open THEN 0 ELSE @]

ErrandEnds(e, success) ==
  /\ errand' = [errand EXCEPT ![e].stage = IF success THEN "done" ELSE "failed"]
  /\ lane' = IF lane = e THEN 0 ELSE lane
  /\ settings' = Told(e, success)

\* Fault: whose authority an errand had is forgotten.
CurrentForAnyone(e) == access.status = "in"

ErrandCurrent(e) == IsCurrent(errand[e].marker)

\* A credential is issued, or revoked: the account is read again; an errand of an
\* earlier authority fails.
ErrandAnswered(e) ==
  /\ errand[e].stage = "answered"
  /\ IF ErrandCurrent(e)
       THEN /\ MayLook
            /\ Refresh(JoinedLook)
            /\ errand' = [errand EXCEPT ![e].stage = "refreshing", ![e].look = JoinedLook]
            /\ UNCHANGED <<lane, settings>>
       ELSE ErrandEnds(e, FALSE) /\ UNCHANGED <<look, looking>>
  /\ UNCHANGED <<access, account, proof, ledger>>

\* Fault: the answer of the server is enough.
NoProof(e) == TRUE

\* The account read since shows the revocation.
Proven(e) == proof # None /\ proof.marker = errand[e].marker /\ errand[e].of \in proof.seen

LookOver(e) == look[errand[e].look].stage \in {"done", "failed"}

\* The look of an errand is over: an issued secret is shown even if it failed, a
\* revocation must be seen.
ErrandConcludes(e) ==
  /\ errand[e].stage = "refreshing" /\ LookOver(e)
  /\ ErrandEnds(e, ErrandCurrent(e) /\ (errand[e].kind = "revoke" => Proven(e)))
  /\ UNCHANGED <<access, account, proof, look, looking, ledger>>

\* The request fails, before or after the server has acted.
ErrandFails(e) ==
  /\ errand[e].stage \in {"asked", "answered"}
  /\ ErrandEnds(e, FALSE)
  /\ UNCHANGED <<access, account, proof, look, looking, ledger>>

\* A revocation, or the look after it, is answered 401 or 403: the browser is
\* forgotten, if the authority is still the one that asked.
SessionRefused(e) ==
  /\ errand[e].kind = "revoke"
  /\ \/ errand[e].stage = "asked"
     \/ errand[e].stage = "refreshing" /\ look[errand[e].look].stage = "failed"
  /\ ErrandCurrent(e) /\ access.marker < MaxMarker
  /\ access' = [access EXCEPT !.status = "out", !.marker = @ + 1]
  /\ account' = None
  /\ errand' = [errand EXCEPT ![e].stage = "failed"]
  /\ lane' = IF lane = e THEN 0 ELSE lane
  /\ settings' = [Told(e, FALSE) EXCEPT !.reveal = 0]
  /\ UNCHANGED <<proof, look, looking, ledger>>

---------------------------------------------------------------------------
(* The page.                                                               *)

\* The secret is copied or given up: the dialog closes.
CloseReveal ==
  /\ settings.reveal # 0
  /\ settings' = Unrevealed
  /\ UNCHANGED <<access, account, proof, look, looking, errand, lane, ledger>>

ClosePage ==
  /\ settings.open
  /\ settings' = [settings EXCEPT !.open = FALSE, !.issuing = 0, !.revoking = 0, !.reveal = 0]
  /\ UNCHANGED <<access, account, proof, look, looking, errand, lane, ledger>>

OpenPage ==
  /\ ~settings.open /\ settings.number < 2
  /\ settings' = [settings EXCEPT !.open = TRUE, !.number = @ + 1]
  /\ UNCHANGED <<access, account, proof, look, looking, errand, lane, ledger>>

AccountErrandStep(e) ==
  ServeErrand(e) \/ ErrandAnswered(e) \/ ErrandConcludes(e) \/ ErrandFails(e) \/ SessionRefused(e)

LookStep(l) == ReadAccount(l) \/ LookAnswered(l)

AccountPageNext ==
  \/ SignInAgain \/ LeaveAccount \/ ForgetThisBrowser \/ CancelNothing \/ TransitionEnds
  \/ NeedsAccount
  \/ \E l \in Looks : LookStep(l)
  \/ \E e \in Errands : Submit(e) \/ ConfirmRevoke(e) \/ AccountErrandStep(e)
  \/ CloseReveal \/ ClosePage \/ OpenPage

AccountPageSpec == AccountPageInit /\ [][AccountPageNext]_accountVars

AccountPageLive ==
  /\ AccountPageSpec
  /\ \A l \in Looks : WF_accountVars(LookStep(l))
  /\ \A e \in Errands : WF_accountVars(AccountErrandStep(e))

---------------------------------------------------------------------------
(* Properties.                                                             *)

\* A secret is on the screen only while the session that asked for it is signed in:
\* never before the next user, whenever its answer arrives.
SecretOfItsSession ==
  settings.reveal # 0 =>
    /\ access.status = "in" /\ settings.open
    /\ ledger[settings.reveal].by = access.bearer

\* The account shown is the signed-in session's own.
AccountOfItsSession ==
  account # None => account.issued \subseteq {c \in Credentials : ledger[c].by = access.bearer}

\* When a revocation is reported done, the list on the page shows the credential
\* revoked, although the look it waited for may have begun before the server acted.
RevokedIsShown ==
  [][\A e \in Errands :
       errand[e].kind = "revoke" /\ errand[e].stage # "done" /\ errand'[e].stage = "done"
         => account # None /\ errand[e].of \in account.revoked]_accountVars

\* A credential once shown revoked is not shown active again to the same session.
RevocationStaysShown ==
  [][\A c \in Credentials :
       /\ account # None /\ account' # None /\ access'.bearer = access.bearer
       /\ c \in account.revoked
       => c \in account'.revoked]_accountVars

\* An errand that ends is no reason for a later authority to lose its session.
ErrandsSpareOthers ==
  [][\A e \in Errands :
       errand[e].stage # "failed" /\ errand'[e].stage = "failed" /\ access' # access
         => errand[e].marker = access.marker]_accountVars

\* The page does not wait for an errand for ever.
ErrandsEnd == (settings.issuing # 0) ~> (settings.issuing = 0)

\* What the account page promises.
AccountPromise ==
  /\ []SecretOfItsSession /\ []AccountOfItsSession
  /\ RevokedIsShown /\ RevocationStaysShown /\ ErrandsSpareOthers
=============================================================================
