---------------------------- MODULE WalletSignIn ----------------------------
(***************************************************************************)
(* Signing in: the dialog (WalletSignInDialog.tsx), the adapter it creates *)
(* for each start (wallet-provider-adapter.ts), the wallet behind it and   *)
(* the server's challenge and session.  Each start and each choice of a    *)
(* wallet is a journey of awaits that the next one, or the closing of the  *)
(* dialog, leaves behind; what a journey awaits is answered all the same.  *)
(***************************************************************************)
EXTENDS Nothing, Naturals, FiniteSets

CONSTANTS
  Wallets,
  Contracts,     \* addresses with code
  MaxAttempts    \* bound: journeys of one dialog

ASSUME SignInAssumption ==
  /\ Contracts \subseteq Wallets
  /\ MaxAttempts \in Nat \ {0}
  /\ None \notin Wallets
  /\ None \notin [attempt : 1 .. MaxAttempts, address : Wallets, challenge : Wallets, signer : Wallets]

Attempts == 1 .. MaxAttempts

VARIABLES
  dialog,   \* stage, attempt, whether it is closed
  adapter,  \* adapterRef: the start that made it (0: none), generation, connection
  journey,  \* what each attempt awaits, and what it has learnt
  wallet,   \* the wallet's account and chain, and whether it knows Coston2
  waiting,  \* the journey whose session the controller waits for, or 0
  holding      \* the session the controller holds

signInVars == <<dialog, adapter, journey, wallet, waiting, holding>>

Stages == {"idle", "discovering", "choosing-provider", "connecting", "creating-challenge",
           "awaiting-signature", "creating-session", "authenticated", "failed"}

\* What a journey awaits; the requests of the wallet prompt its user, or do not.
Prompts == {"accounts", "switch", "add", "sign"}

WalletRequests == Prompts \cup {"chain", "rechain", "code"}

Awaits == {"none", "load", "discover", "challenge", "session"} \cup WalletRequests

\* The stage in which a journey may await something.
StageOf(await) ==
  CASE await \in {"load", "discover"} -> "discovering"
    [] await \in WalletRequests \ {"sign"} -> "connecting"
    [] await = "challenge" -> "creating-challenge"
    [] await = "sign" -> "awaiting-signature"
    [] await = "session" -> "creating-session"

Running == dialog.stage \in {StageOf(w) : w \in Awaits \ {"none"}}

SignedSession == [attempt : Attempts, address : Wallets, challenge : Wallets, signer : Wallets]

\* Types of the state; a spinner turns only while the journey it is for awaits
\* something in that stage.
SignInTypeOK ==
  /\ dialog \in [stage : Stages, attempt : 0 .. MaxAttempts + 2, closed : BOOLEAN]
  /\ adapter \in [start : 0 .. MaxAttempts, generation : Nat, address : Wallets \cup {None}]
  /\ journey \in [Attempts -> [await : Awaits, start : 0 .. MaxAttempts, generation : Nat,
                     address : Wallets \cup {None}, challenge : Wallets \cup {None},
                     signer : Wallets \cup {None}]]
  /\ waiting \in 0 .. MaxAttempts
  /\ holding \in SignedSession \cup {None}
  /\ ~dialog.closed /\ Running =>
       /\ dialog.attempt \in Attempts
       /\ journey[dialog.attempt].await # "none"
       /\ StageOf(journey[dialog.attempt].await) = dialog.stage

NoAdapter == [start |-> 0, generation |-> 0, address |-> None]

NewJourney(await, start, generation) ==
  [await |-> await, start |-> start, generation |-> generation, address |-> None,
   challenge |-> None, signer |-> None]

SignInInit ==
  /\ dialog = [stage |-> "idle", attempt |-> 0, closed |-> FALSE]
  /\ adapter = NoAdapter
  /\ journey = [a \in Attempts |-> NewJourney("none", 0, 0)]
  /\ wallet \in [account : Wallets, chain : {"coston2", "other"}, knows : BOOLEAN]
  /\ waiting = 0
  /\ holding = None

---------------------------------------------------------------------------
(* The dialog.                                                             *)

\* Fault: an answer counts as long as the dialog is open.
CurrentWhileOpen(a) == ~dialog.closed

\* Neither closed nor a newer attempt.
CurrentAttempt(a) == ~dialog.closed /\ dialog.attempt = a

\* current(attempt) of the adapter: not closed, same generation.
AdapterCurrent(a) ==
  journey[a].start = adapter.start /\ journey[a].generation = adapter.generation

Ends(a) == journey' = [journey EXCEPT ![a].await = "none"]

GoesOn(a, await) == journey' = [journey EXCEPT ![a].await = await]

\* Fault: the failure is not shown.
KeepStage == dialog.stage

FailureStage == "failed"

\* fail: nothing when the attempt is over.
Fails(a) ==
  /\ Ends(a)
  /\ IF CurrentAttempt(a)
       THEN /\ dialog' = [dialog EXCEPT !.stage = FailureStage, !.attempt = @ + 1]
            /\ adapter' = NoAdapter
       ELSE UNCHANGED <<dialog, adapter>>

\* startSignIn, from the first screen and from a failure.
StartSignIn ==
  LET a == dialog.attempt + 1 IN
  /\ ~dialog.closed /\ dialog.stage \in {"idle", "failed"}
  /\ a \in Attempts
  /\ adapter' = NoAdapter
  /\ dialog' = [dialog EXCEPT !.stage = "discovering", !.attempt = a]
  /\ journey' = [journey EXCEPT ![a] = NewJourney("load", 0, 0)]
  /\ UNCHANGED <<wallet, waiting, holding>>

\* The adapter's module has come, if still wanted.
LoadAdapter(a) ==
  /\ journey[a].await = "load"
  /\ \/ /\ CurrentAttempt(a)
        /\ adapter' = [start |-> a, generation |-> 1, address |-> None]
        /\ journey' = [journey EXCEPT ![a] = NewJourney("discover", a, 1)]
        /\ UNCHANGED dialog
     \/ Fails(a)
  /\ UNCHANGED <<wallet, waiting, holding>>

\* Wallets were announced and the network is enabled, or one of the two is not.
Discover(a) ==
  /\ journey[a].await = "discover"
  /\ \/ /\ AdapterCurrent(a) /\ CurrentAttempt(a)
        /\ dialog' = [dialog EXCEPT !.stage = "choosing-provider"]
        /\ Ends(a) /\ UNCHANGED adapter
     \/ Fails(a)
  /\ UNCHANGED <<wallet, waiting, holding>>

\* selectProvider: connect drops the adapter's connection.
SelectProvider ==
  LET a == dialog.attempt + 1 IN
  /\ ~dialog.closed /\ dialog.stage = "choosing-provider" /\ adapter.start # 0
  /\ a \in Attempts
  /\ adapter' = [adapter EXCEPT !.generation = @ + 1, !.address = None]
  /\ journey' = [journey EXCEPT ![a] = NewJourney("accounts", adapter.start, adapter.generation + 1)]
  /\ dialog' = [dialog EXCEPT !.stage = "connecting", !.attempt = a]
  /\ UNCHANGED <<wallet, waiting, holding>>

\* Fault: closing the dialog leaves the adapter at work.
KeepAdapter == adapter

DisposedAdapter == NoAdapter

\* closeDialog, or the dialog is unmounted: the journey and the session are cancelled.
CloseDialog ==
  /\ ~dialog.closed
  /\ dialog' = [dialog EXCEPT !.closed = TRUE, !.attempt = @ + 1]
  /\ adapter' = DisposedAdapter
  /\ waiting' = 0
  /\ UNCHANGED <<journey, wallet, holding>>

\* It is opened again: a new dialog, while old journeys may still be answered.
OpenDialog ==
  /\ dialog.closed /\ dialog.attempt < MaxAttempts
  /\ dialog' = [dialog EXCEPT !.closed = FALSE, !.stage = "idle"]
  /\ UNCHANGED <<adapter, journey, wallet, waiting, holding>>

---------------------------------------------------------------------------
(* The adapter and the wallet.                                             *)

\* A request is rejected by the user or fails, or its answer comes too late.
RequestFails(a) ==
  /\ journey[a].await \in WalletRequests
  /\ Fails(a)
  /\ UNCHANGED <<wallet, waiting, holding>>

Answered(a, await) == journey[a].await = await /\ AdapterCurrent(a)

Accounts(a) ==
  /\ Answered(a, "accounts")
  /\ journey' = [journey EXCEPT ![a].await = "chain", ![a].address = wallet.account]
  /\ UNCHANGED <<dialog, adapter, wallet, waiting, holding>>

ChainId(a) ==
  /\ Answered(a, "chain")
  /\ GoesOn(a, IF wallet.chain = "coston2" THEN "code" ELSE "switch")
  /\ UNCHANGED <<dialog, adapter, wallet, waiting, holding>>

\* wallet_switchEthereumChain; a wallet that does not know the chain says so (4902).
SwitchChain(a) ==
  /\ Answered(a, "switch")
  /\ IF wallet.knows
       THEN wallet' = [wallet EXCEPT !.chain = "coston2"] /\ GoesOn(a, "rechain")
       ELSE GoesOn(a, "add") /\ UNCHANGED wallet
  /\ UNCHANGED <<dialog, adapter, waiting, holding>>

\* wallet_addEthereumChain may or may not switch as well.
AddChain(a) ==
  /\ Answered(a, "add")
  /\ \E c \in {"coston2", wallet.chain} : wallet' = [wallet EXCEPT !.knows = TRUE, !.chain = c]
  /\ GoesOn(a, "rechain")
  /\ UNCHANGED <<dialog, adapter, waiting, holding>>

ResultingChain(a) ==
  /\ Answered(a, "rechain")
  /\ IF wallet.chain = "coston2" THEN GoesOn(a, "code") /\ UNCHANGED <<dialog, adapter>>
                                 ELSE Fails(a)
  /\ UNCHANGED <<wallet, waiting, holding>>

\* Fault: code is not looked at.
AnyAccount(a) == FALSE

IsContract(a) == journey[a].address \in Contracts

\* eth_getCode: an account without code is connected, and its challenge asked for.
Code(a) ==
  /\ Answered(a, "code")
  /\ IF IsContract(a) \/ ~CurrentAttempt(a)
       THEN Fails(a)
       ELSE /\ adapter' = [adapter EXCEPT !.address = journey[a].address]
            /\ dialog' = [dialog EXCEPT !.stage = "creating-challenge"]
            /\ GoesOn(a, "challenge")
  /\ UNCHANGED <<wallet, waiting, holding>>

ChallengeMatches(a, address) == address = journey[a].address

\* The challenge comes, for some address; signMessage begins a generation.
ChallengeAnswer(a) ==
  /\ journey[a].await = "challenge"
  /\ \/ Fails(a)
     \/ \E address \in Wallets :
          /\ CurrentAttempt(a) /\ ChallengeMatches(a, address)
          /\ adapter' = [adapter EXCEPT !.generation = @ + 1]
          /\ journey' = [journey EXCEPT ![a].await = "sign", ![a].challenge = address,
                            ![a].generation = adapter.generation + 1]
          /\ dialog' = [dialog EXCEPT !.stage = "awaiting-signature"]
  /\ UNCHANGED <<wallet, waiting, holding>>

\* personal_sign with the adapter's verified address; createSession is called.
Sign(a) ==
  /\ Answered(a, "sign")
  /\ CurrentAttempt(a)
  /\ journey' = [journey EXCEPT ![a].await = "session", ![a].signer = adapter.address]
  /\ dialog' = [dialog EXCEPT !.stage = "creating-session"]
  /\ waiting' = a
  /\ UNCHANGED <<adapter, wallet, holding>>

\* Fault: a session is taken although its creation was cancelled.
TakenAlways(a) == TRUE

Awaited(a) == waiting = a

\* The server's answer; the controller takes the session only if it still waits, and
\* the call returns all the same.
SessionAnswer(a) ==
  LET j == journey[a] IN
  /\ j.await = "session"
  /\ \/ /\ j.signer = j.challenge
        /\ holding' = IF Awaited(a)
                     THEN [attempt |-> a, address |-> j.address, challenge |-> j.challenge,
                           signer |-> j.signer]
                     ELSE holding
        /\ IF CurrentAttempt(a)
             THEN /\ dialog' = [dialog EXCEPT !.stage = "authenticated"]
                  /\ adapter' = NoAdapter
             ELSE UNCHANGED <<dialog, adapter>>
        /\ Ends(a)
     \/ Fails(a) /\ UNCHANGED holding
  /\ waiting' = IF waiting = a THEN 0 ELSE waiting
  /\ UNCHANGED wallet

\* The user changes account or chain in the wallet.
WalletChanges ==
  /\ \E account \in Wallets, chain \in {"coston2", "other"} :
       wallet' = [wallet EXCEPT !.account = account, !.chain = chain]
  /\ UNCHANGED <<dialog, adapter, journey, waiting, holding>>

---------------------------------------------------------------------------

JourneyStep(a) ==
  \/ LoadAdapter(a) \/ Discover(a) \/ RequestFails(a) \/ Accounts(a) \/ ChainId(a)
  \/ SwitchChain(a) \/ AddChain(a) \/ ResultingChain(a) \/ Code(a)
  \/ ChallengeAnswer(a) \/ Sign(a) \/ SessionAnswer(a)

SignInNext ==
  \/ StartSignIn \/ SelectProvider \/ CloseDialog \/ OpenDialog \/ WalletChanges
  \/ \E a \in Attempts : JourneyStep(a)

SignInSpec == SignInInit /\ [][SignInNext]_signInVars

\* Wallet and server answer what they are asked.
SignInLive == SignInSpec /\ \A a \in Attempts : WF_signInVars(JourneyStep(a))

---------------------------------------------------------------------------
(* Properties.                                                             *)

\* The address of a session was connected, challenged and signed for in one journey,
\* and has no code: whatever accounts the wallet changed to, and whatever was
\* cancelled and started again in between.
SessionIsOneJourney ==
  holding # None => /\ holding.address = holding.challenge /\ holding.signer = holding.address
                 /\ holding.address \notin Contracts

\* A session comes to be held only while the open dialog shows its creation.
NoLateSession ==
  [][holding' # holding => /\ ~dialog.closed /\ dialog.stage = "creating-session"
                     /\ holding'.attempt = dialog.attempt]_signInVars

\* A closed dialog raises no prompt in the wallet and asks the server for nothing:
\* what its journeys awaited is the last they do.
ClosedAsksNothing ==
  [][dialog.closed => \A a \in Attempts :
       journey'[a].await \in {journey[a].await, "none"}]_signInVars

\* The dialog says it is signed in only when the session is held.
SignedInIsHeld == ~dialog.closed /\ dialog.stage = "authenticated" => holding # None

\* A spinner does not turn for ever.
SpinnerEnds == (~dialog.closed /\ Running) ~> (dialog.closed \/ ~Running)

\* What the dialog promises whatever the wallet does in between.
SignInPromise ==
  []SessionIsOneJourney /\ []SignedInIsHeld /\ NoLateSession /\ ClosedAsksNothing
=============================================================================
