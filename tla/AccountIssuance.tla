--------------------------- MODULE AccountIssuance ---------------------------
(***************************************************************************)
(* The credentials of an account on the server (account-token-service.ts): *)
(* concurrent and repeated calls of createAccountToken, each a             *)
(* transaction under READ COMMITTED with a unique index on the issuance    *)
(* key, revocations, and the sign-out of the browser session itself.       *)
(***************************************************************************)
EXTENDS Nothing, Naturals, FiniteSets

CONSTANTS
  Issues,        \* calls of createAccountToken in one project
  IssueKeys,     \* idempotency keys
  IssueKeyOf,    \* the key a call sends
  IntentOf,      \* kind, label and days of a call
  Orphans        \* calls in a project without a wallet identity

ASSUME IssuanceAssumption ==
  /\ IssueKeyOf \in [Issues -> IssueKeys]
  /\ Orphans \subseteq Issues
  /\ None \notin Issues

Intents == {IntentOf[i] : i \in Issues}

VARIABLES
  row,       \* api_tokens: the call that committed a row under a key, or None
  inserting, \* the call whose insert under a key is not committed, or None
  issuance,  \* how far a call is
  told,      \* what the caller of a call has been told
  revoked,   \* keys whose token is revoked
  browser    \* the browser session: "live" or "revoked"

issuanceVars == <<row, inserting, issuance, told, revoked, browser>>

IssuePlaces == {"new", "unissued", "inserted", "violated", "done"}

Tellings == {"nothing", "secret", "already", "conflict", "no account", "failure"}

\* Types of the state; who is not done has been told nothing.
IssuanceTypeOK ==
  /\ row \in [IssueKeys -> Issues \cup {None}]
  /\ inserting \in [IssueKeys -> Issues \cup {None}]
  /\ issuance \in [Issues -> IssuePlaces]
  /\ told \in [Issues -> Tellings]
  /\ revoked \subseteq IssueKeys
  /\ browser \in {"live", "revoked"}
  /\ \A i \in Issues : told[i] # "nothing" => issuance[i] = "done"

IssuanceInit ==
  /\ row = [k \in IssueKeys |-> None]
  /\ inserting = [k \in IssueKeys |-> None]
  /\ issuance = [i \in Issues |-> "new"]
  /\ told = [i \in Issues |-> "nothing"]
  /\ revoked = {}
  /\ browser = "live"

---------------------------------------------------------------------------

KeyRow(i) == row[IssueKeyOf[i]]

Moves(i, place) == issuance' = [issuance EXCEPT ![i] = place]

\* The answer, unless the connection is lost before it arrives.
Tells(i, telling) ==
  /\ Moves(i, "done")
  /\ \E t \in {telling, "failure"} : told' = [told EXCEPT ![i] = t]

\* Fault: the fingerprint of the intent is not compared.
AnyOutcome(i) == "already"

\* issuanceOutcome of the row that has the key.
IssuanceOutcome(i) == IF IntentOf[KeyRow(i)] = IntentOf[i] THEN "already" ELSE "conflict"

\* BEGIN and findIssuance, then the identity of the project.
FindIssuance(i) ==
  /\ issuance[i] = "new"
  /\ IF KeyRow(i) # None THEN Tells(i, IssuanceOutcome(i))
     ELSE IF i \in Orphans THEN Tells(i, "no account")
     ELSE Moves(i, "unissued") /\ UNCHANGED told
  /\ UNCHANGED <<row, inserting, revoked, browser>>

\* Fault: the index does not stop a second row.
NeverTaken(i) == FALSE

UniqueIndexRefuses(i) == KeyRow(i) # None

\* The INSERT waits for an uncommitted one of the same key, and is refused by a
\* committed one: ROLLBACK.
InsertToken(i) ==
  /\ issuance[i] = "unissued" /\ inserting[IssueKeyOf[i]] = None
  /\ IF UniqueIndexRefuses(i)
       THEN Moves(i, "violated") /\ UNCHANGED inserting
       ELSE Moves(i, "inserted") /\ inserting' = [inserting EXCEPT ![IssueKeyOf[i]] = i]
  /\ UNCHANGED <<row, told, revoked, browser>>

\* After the violation the row is looked up once more.
FindAfterViolation(i) ==
  /\ issuance[i] = "violated"
  /\ Tells(i, IssuanceOutcome(i))
  /\ UNCHANGED <<row, inserting, revoked, browser>>

CommitIssuance(i) ==
  /\ issuance[i] = "inserted"
  /\ row' = [row EXCEPT ![IssueKeyOf[i]] = i]
  /\ inserting' = [inserting EXCEPT ![IssueKeyOf[i]] = None]
  /\ Tells(i, "secret")
  /\ UNCHANGED <<revoked, browser>>

\* The clock, a statement or the process fails: nothing of the transaction stays.
FailIssuance(i) ==
  /\ issuance[i] \in {"unissued", "inserted", "violated"}
  /\ inserting' = [k \in IssueKeys |-> IF inserting[k] = i THEN None ELSE inserting[k]]
  /\ Moves(i, "done") /\ told' = [told EXCEPT ![i] = "failure"]
  /\ UNCHANGED <<row, revoked, browser>>

\* revokeAccountToken: as often as one likes, of a committed row.
RevokeIssued(k) ==
  /\ row[k] # None
  /\ revoked' = revoked \cup {k}
  /\ UNCHANGED <<row, inserting, issuance, told, browser>>

\* revokeCurrentWalletSession: only once; the tokens it issued stay.
RevokeCurrentWalletSession ==
  /\ browser = "live"
  /\ browser' = "revoked"
  /\ UNCHANGED <<row, inserting, issuance, told, revoked>>

IssueStep(i) ==
  \/ FindIssuance(i) \/ InsertToken(i) \/ FindAfterViolation(i)
  \/ CommitIssuance(i) \/ FailIssuance(i)

IssuanceNext ==
  \/ \E i \in Issues : IssueStep(i)
  \/ \E k \in IssueKeys : RevokeIssued(k)
  \/ RevokeCurrentWalletSession

IssuanceSpec == IssuanceInit /\ [][IssuanceNext]_issuanceVars

IssuanceLive == IssuanceSpec /\ \A i \in Issues : WF_issuanceVars(IssueStep(i))

---------------------------------------------------------------------------
(* Properties.                                                             *)

\* Of the calls with one key at most one is handed a secret, however they overlap
\* and are repeated; and the row is that call's.
OneSecretPerKey ==
  \A i \in Issues : told[i] = "secret" => KeyRow(i) = i

\* Who is told that the secret was already issued, or that its intent conflicts, is
\* told the truth about a committed row, which the same intent, or another, made.
AnswersNameTheRow ==
  \A i \in Issues :
    /\ told[i] = "already" => KeyRow(i) # None /\ IntentOf[KeyRow(i)] = IntentOf[i]
    /\ told[i] = "conflict" => KeyRow(i) # None /\ IntentOf[KeyRow(i)] # IntentOf[i]

\* A credential, once issued, keeps its key for ever, also when it is revoked: the
\* key never issues another.
KeysStayTaken ==
  [][\A k \in IssueKeys : row[k] # None => row'[k] = row[k]]_issuanceVars

\* Issuing ends, also of calls that wait for one another's insert.
IssuingEnds == \A i \in Issues : (issuance[i] \notin {"new", "done"}) ~> (issuance[i] = "done")

\* What the issuance of credentials promises.
IssuancePromise == []OneSecretPerKey /\ []AnswersNameTheRow /\ KeysStayTaken
=============================================================================
