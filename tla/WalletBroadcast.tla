--------------------------- MODULE WalletBroadcast ---------------------------
(***************************************************************************)
(* The browser submits the request of a wallet run: submitWithEip1193 of   *)
(* run-client.ts, the recovery marker it keeps in the tab's storage, and   *)
(* the server that prepares the transaction and is given its hash.  A tab  *)
(* may be reloaded while the wallet asks its user, any answer may be lost, *)
(* and a second tab may submit the same run.                               *)
(***************************************************************************)
EXTENDS Nothing, Naturals, FiniteSets

CONSTANTS
  Tabs,          \* browser tabs with the same run open, each with its storage
  MaxTries       \* bound: confirmations and reloads in a tab

ASSUME BroadcastAssumption ==
  MaxTries \in Nat \ {0} /\ None \notin Tabs \cup {"pending", "sent"}

VARIABLES
  step,     \* how far the flight of a tab is
  marker,   \* the tab's recovery storage: None, "pending", or the hash ("sent")
  asking,   \* tabs whose wallet asks the user to confirm the transaction
  sent,     \* transactions a tab's wallet has broadcast
  attached, \* the tab whose transaction the server has, or None
  shown,    \* REQUEST_SUBMITTED is in the journal
  tries     \* confirmations and reloads so far

broadcastVars == <<step, marker, asking, sent, attached, shown, tries>>

BroadcastSteps == {"idle", "preparing", "connecting", "sending", "returned", "attaching"}

\* Types of the state; a tab whose wallet asks for a transaction has its marker.
BroadcastTypeOK ==
  /\ step \in [Tabs -> BroadcastSteps]
  /\ marker \in [Tabs -> {None, "pending", "sent"}]
  /\ asking \subseteq Tabs
  /\ sent \in [Tabs -> Nat]
  /\ attached \in Tabs \cup {None}
  /\ shown \in BOOLEAN
  /\ tries \in [Tabs -> 0 .. MaxTries]
  /\ \A b \in asking : marker[b] = "pending"

BroadcastInit ==
  /\ step = [b \in Tabs |-> "idle"]
  /\ marker = [b \in Tabs |-> None]
  /\ asking = {}
  /\ sent = [b \in Tabs |-> 0]
  /\ attached = None
  /\ shown = FALSE
  /\ tries = [b \in Tabs |-> 0]

Goes(b, place) == step' = [step EXCEPT ![b] = place]

Marks(b, mark) == marker' = [marker EXCEPT ![b] = mark]

\* clearPendingWalletMarker: a hash stays.
ClearedMarker(b) == IF marker[b] = "pending" THEN None ELSE marker[b]

\* A stored hash is attached again; a pending marker refuses the flight.
StoredHash(b) == marker[b] = "sent"

\* Fault: what the marker says is not looked at.
NeverAmbiguous(b) == FALSE

Ambiguous(b) == marker[b] = "pending"

\* SubmissionDecision.confirm; a second confirmation joins the flight there is.
ConfirmSubmission(b) ==
  /\ step[b] = "idle" /\ tries[b] < MaxTries
  /\ tries' = [tries EXCEPT ![b] = @ + 1]
  /\ Goes(b, IF StoredHash(b) THEN "attaching" ELSE IF Ambiguous(b) THEN "idle" ELSE "preparing")
  /\ UNCHANGED <<marker, asking, sent, attached, shown>>

\* The server prepares the transaction while the request is not submitted, and the
\* marker is written before the wallet is asked for anything.
PrepareSubmission(b) ==
  /\ step[b] = "preparing" /\ ~shown
  /\ Goes(b, "connecting") /\ Marks(b, "pending")
  /\ UNCHANGED <<asking, sent, attached, shown, tries>>

\* The preparation fails, is refused, or the storage does not keep the marker.
NotPrepared(b) ==
  /\ step[b] = "preparing"
  /\ Goes(b, "idle")
  /\ UNCHANGED <<marker, asking, sent, attached, shown, tries>>

\* wallet_switchEthereumChain and eth_requestAccounts.
WalletConnected(b) ==
  /\ step[b] = "connecting"
  /\ Goes(b, "sending") /\ asking' = asking \cup {b}
  /\ UNCHANGED <<marker, sent, attached, shown, tries>>

ConnectionRefused(b) ==
  /\ step[b] = "connecting"
  /\ Goes(b, "idle") /\ marker' = [marker EXCEPT ![b] = ClearedMarker(b)]
  /\ UNCHANGED <<asking, sent, attached, shown, tries>>

\* The user confirms: the wallet broadcasts, whether or not the page is still there;
\* its answer may be a failure all the same.
WalletSends(b) ==
  /\ b \in asking
  /\ asking' = asking \ {b}
  /\ sent' = [sent EXCEPT ![b] = @ + 1]
  /\ step' = [step EXCEPT ![b] = IF @ = "sending" THEN "returned" ELSE @]
  /\ UNCHANGED <<marker, attached, shown, tries>>

\* The user rejects (code 4001), or the wallet fails without having sent.
WalletRejects(b) ==
  /\ b \in asking
  /\ asking' = asking \ {b}
  /\ IF step[b] = "sending"
       THEN /\ Goes(b, "idle")
            /\ \E mark \in {ClearedMarker(b), marker[b]} : Marks(b, mark)
       ELSE UNCHANGED <<step, marker>>
  /\ UNCHANGED <<sent, attached, shown, tries>>

\* The hash is stored, then attached.
HashReturned(b) ==
  /\ step[b] = "returned"
  /\ Goes(b, "attaching") /\ Marks(b, "sent")
  /\ UNCHANGED <<asking, sent, attached, shown, tries>>

\* Fault: any failure of eth_sendTransaction clears the marker.
FailureClears(b) == None

FailureKeeps(b) == marker[b]

\* The wallet has sent and answers with an error or without a hash, or the hash
\* cannot be stored: the marker stays as it is.
HashLost(b) ==
  /\ step[b] = "returned"
  /\ Goes(b, "idle") /\ Marks(b, FailureKeeps(b))
  /\ UNCHANGED <<asking, sent, attached, shown, tries>>

\* POST /transactions: the first hash is taken, its repetition accepted, another
\* refused; the answer may be lost.
AttachTransaction(b) ==
  /\ step[b] = "attaching"
  /\ attached' = IF attached = None THEN b ELSE attached
  /\ Goes(b, "idle")
  /\ UNCHANGED <<marker, asking, sent, shown, tries>>

AttachFails(b) ==
  /\ step[b] = "attaching"
  /\ Goes(b, "idle")
  /\ UNCHANGED <<marker, asking, sent, attached, shown, tries>>

\* The worker finds the transaction: REQUEST_SUBMITTED.
SubmissionObserved ==
  /\ attached # None /\ ~shown
  /\ shown' = TRUE
  /\ UNCHANGED <<step, marker, asking, sent, attached, tries>>

\* Fault: any transaction of the run will do.
SomeSubmission(b) == TRUE

\* The event names the hash that is stored.
NamesStoredHash(b) == attached = b

\* reconcileWalletSubmission, with every hydration of the run.
ReconcileMarker(b) ==
  /\ shown /\ marker[b] = "sent" /\ NamesStoredHash(b)
  /\ Marks(b, None)
  /\ UNCHANGED <<step, asking, sent, attached, shown, tries>>

\* The tab is reloaded: its flight is forgotten, its storage and its wallet are not.
ReloadTab(b) ==
  /\ step[b] # "idle" /\ tries[b] < MaxTries
  /\ tries' = [tries EXCEPT ![b] = @ + 1]
  /\ Goes(b, "idle")
  /\ UNCHANGED <<marker, asking, sent, attached, shown>>

BroadcastNext ==
  \/ SubmissionObserved
  \/ \E b \in Tabs :
       \/ ConfirmSubmission(b) \/ PrepareSubmission(b) \/ NotPrepared(b) \/ WalletConnected(b)
       \/ ConnectionRefused(b) \/ WalletSends(b) \/ WalletRejects(b) \/ HashReturned(b)
       \/ HashLost(b) \/ AttachTransaction(b) \/ AttachFails(b) \/ ReconcileMarker(b)
       \/ ReloadTab(b)

BroadcastSpec == BroadcastInit /\ [][BroadcastNext]_broadcastVars

---------------------------------------------------------------------------
(* Properties.                                                             *)

\* A tab has one transaction broadcast at most, however often its user confirms,
\* rejects, reloads and tries again, and whatever answers are lost.
OneBroadcastPerTab == \A b \in Tabs : sent[b] <= 1

\* What has been broadcast is remembered until the journal shows it.
BroadcastIsRemembered ==
  \A b \in Tabs : sent[b] > 0 => marker[b] # None \/ (shown /\ attached = b)

\* A hash, once stored, is neither lost nor turned back into an open question while
\* the journal does not show it.
HashIsKept ==
  [][\A b \in Tabs : marker[b] = "sent" /\ ~(shown /\ attached = b) => marker'[b] = "sent"]_broadcastVars

\* What a submission by wallet promises.
BroadcastPromise == []OneBroadcastPerTab /\ []BroadcastIsRemembered /\ HashIsKept
=============================================================================
