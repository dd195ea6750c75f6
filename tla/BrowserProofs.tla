---------------------------- MODULE BrowserProofs ----------------------------
(***************************************************************************)
(* What the browser's parts for the wallet promise, for every set of       *)
(* wallets, tokens, attempts, calls and tabs: the sign-in dialog with its  *)
(* adapter, the session controller, and the submission of a run by wallet. *)
(***************************************************************************)
EXTENDS SessionController, WalletSignIn, WalletBroadcast, TLAPS

---------------------------------------------------------------------------
(* The sign-in dialog.                                                     *)

Dialog == [stage : Stages, attempt : Nat, closed : BOOLEAN]

Adapter == [start : 0 .. MaxAttempts, generation : Nat, address : Wallets \cup {None}]

Journey == [await : Awaits, start : 0 .. MaxAttempts, generation : Nat,
            address : Wallets \cup {None}, challenge : Wallets \cup {None},
            signer : Wallets \cup {None}]

SignInTyped ==
  /\ dialog \in Dialog
  /\ adapter \in Adapter
  /\ journey \in [Attempts -> Journey]
  /\ waiting \in 0 .. MaxAttempts
  /\ holding \in SignedSession \cup {None}

\* What a journey has learnt by what it awaits.
Learnt(j) ==
  /\ j.await \in {"challenge", "sign", "session"} => j.address \notin Contracts
  /\ j.await \in {"sign", "session"} => j.challenge = j.address /\ j.address \in Wallets
  /\ j.await \in WalletRequests \cup {"challenge"} => j.start # 0

\* An attempt not begun yet awaits nothing, and that of a closed dialog has no number yet; the
\* session of the current one is the one the controller waits for.
JourneyHolds(a) ==
  /\ Learnt(journey[a])
  /\ (a > dialog.attempt \/ (dialog.closed /\ a = dialog.attempt)) => journey[a].await = "none"
  /\ (CurrentAttempt(a) /\ journey[a].await = "session") => waiting = a

\* The controller waits only for the current attempt of an open dialog that shows it.
WaitingHolds ==
  waiting # 0 =>
    /\ waiting \in Attempts /\ ~dialog.closed /\ dialog.attempt = waiting
    /\ dialog.stage = "creating-session" /\ journey[waiting].await = "session"

\* The inductive invariant: a closed dialog has no adapter either.
SignInInv ==
  /\ SignInTyped
  /\ \A a \in Attempts : JourneyHolds(a)
  /\ WaitingHolds
  /\ dialog.closed => adapter.start = 0
  /\ SessionIsOneJourney
  /\ SignedInIsHeld

\* It holds at first.
LEMMA SignInInitInv == SignInInit => SignInInv
<1> SUFFICES ASSUME SignInInit PROVE SignInInv
  OBVIOUS
<1>1. PICK j : j = NewJourney("none", 0, 0)
  OBVIOUS
<1>2. j \in Journey /\ j.await = "none"
  BY <1>1, SignInAssumption DEF Journey, NewJourney, Awaits
<1>3. \A a \in Attempts : journey[a] = j
  BY <1>1 DEF SignInInit
<1>4. journey \in [Attempts -> Journey]
  BY <1>1, <1>2 DEF SignInInit
<1>5. dialog \in Dialog /\ adapter \in Adapter /\ adapter.start = 0 /\ dialog.stage = "idle"
      /\ waiting = 0 /\ holding = None
  BY SignInAssumption DEF SignInInit, Dialog, Adapter, NoAdapter, Stages
<1>6. SignInTyped
  BY <1>4, <1>5, SignInAssumption DEF SignInTyped
<1>7. \A a \in Attempts : JourneyHolds(a)
  BY <1>2, <1>3 DEF JourneyHolds, Learnt, WalletRequests, Prompts
<1> QED
  BY <1>5, <1>6, <1>7 DEF SignInInv, WaitingHolds, SessionIsOneJourney, SignedInIsHeld

\* A step of one journey that neither asks for a session nor is answered with one.
LEMMA QuietMove ==
  ASSUME SignInInv, NEW a \in Attempts, NEW e \in Journey,
         journey' = [journey EXCEPT ![a] = e],
         journey[a].await # "session", e.await # "session", Learnt(e),
         UNCHANGED <<waiting, holding>>,
         adapter' \in Adapter, dialog'.closed => adapter'.start = 0,
         \/ /\ dialog' = dialog
            /\ e.await = "none" \/ journey[a].await # "none"
         \/ /\ waiting = 0 /\ dialog' \in Dialog /\ ~dialog'.closed
            /\ dialog'.stage # "authenticated" /\ dialog'.attempt >= dialog.attempt
            /\ e.await = "none" \/ a <= dialog'.attempt
  PROVE  SignInInv'
<1>1. dialog' \in Dialog
  BY DEF SignInInv, SignInTyped
<1>2. journey' \in [Attempts -> Journey]
  BY DEF SignInInv, SignInTyped
<1>3. SignInTyped'
  BY <1>1, <1>2 DEF SignInInv, SignInTyped
<1>4. journey'[a] = e /\ \A b \in Attempts \ {a} : journey'[b] = journey[b]
  BY DEF SignInInv, SignInTyped
<1>n. dialog.attempt \in Nat /\ dialog'.attempt \in Nat /\ dialog.closed \in BOOLEAN
      /\ dialog'.closed \in BOOLEAN
  BY <1>1 DEF SignInInv, SignInTyped, Dialog
<1>5. ASSUME NEW b \in Attempts PROVE JourneyHolds(b)'
  <2>1. JourneyHolds(b) /\ b \in Nat
    BY DEF SignInInv, Attempts
  <2>2. CASE b = a
    BY <2>1, <2>2, <1>4, <1>n DEF JourneyHolds, CurrentAttempt
  <2>3. CASE b # a
    <3>1. journey'[b] = journey[b]
      BY <1>4, <2>3
    <3> QED
      BY <3>1, <2>1, <1>n DEF JourneyHolds, CurrentAttempt
  <2> QED
    BY <2>2, <2>3
<1>6. WaitingHolds'
  BY <1>4 DEF SignInInv, WaitingHolds
<1>7. SessionIsOneJourney' /\ SignedInIsHeld'
  BY DEF SignInInv, SessionIsOneJourney, SignedInIsHeld
<1> QED
  BY <1>3, <1>5, <1>6, <1>7 DEF SignInInv

\* The controller waits for no journey but one that awaits a session.
LEMMA NotWaited ==
  ASSUME SignInInv, NEW a \in Attempts, journey[a].await # "session"
  PROVE  CurrentAttempt(a) => waiting = 0
BY DEF SignInInv, WaitingHolds, CurrentAttempt

\* What is known of a journey and the adapter.
LEMMA JourneyKnown ==
  ASSUME SignInInv, NEW a \in Attempts
  PROVE  /\ journey[a] \in Journey /\ JourneyHolds(a) /\ Learnt(journey[a])
         /\ adapter \in Adapter /\ dialog \in Dialog
         /\ a \in Nat \ {0} /\ a <= MaxAttempts
BY SignInAssumption DEF SignInInv, SignInTyped, JourneyHolds, Attempts

\* A journey that goes on awaiting something else, as the record it becomes.
LEMMA GoesOnTo ==
  ASSUME SignInInv, NEW a \in Attempts, NEW await \in Awaits, GoesOn(a, await)
  PROVE  \E e \in Journey :
           /\ journey' = [journey EXCEPT ![a] = e]
           /\ e.await = await /\ e.start = journey[a].start /\ e.address = journey[a].address
           /\ e.challenge = journey[a].challenge
<1>1. journey[a] \in Journey
  BY JourneyKnown
<1>2. PICK e : e = [journey[a] EXCEPT !.await = await]
  OBVIOUS
<1>3. /\ e \in Journey /\ e.await = await /\ e.start = journey[a].start
      /\ e.address = journey[a].address /\ e.challenge = journey[a].challenge
  BY <1>1, <1>2 DEF Journey
<1>4. journey' = [journey EXCEPT ![a] = e]
  BY <1>2 DEF GoesOn, SignInInv, SignInTyped
<1> QED
  BY <1>3, <1>4

\* A journey that ends, the same.
LEMMA EndsTo ==
  ASSUME SignInInv, NEW a \in Attempts, Ends(a)
  PROVE  \E e \in Journey : journey' = [journey EXCEPT ![a] = e] /\ e.await = "none" /\ Learnt(e)
<1>1. GoesOn(a, "none")
  BY DEF GoesOn, Ends
<1>2. PICK e \in Journey : journey' = [journey EXCEPT ![a] = e] /\ e.await = "none"
  BY <1>1, GoesOnTo DEF Awaits
<1>3. Learnt(e)
  BY <1>2 DEF Learnt, WalletRequests, Prompts
<1> QED
  BY <1>2, <1>3

\* The dialog after the failure of its current attempt.
LEMMA FailedDialog ==
  ASSUME SignInInv, NEW a \in Attempts, Fails(a), CurrentAttempt(a)
  PROVE  /\ dialog' \in Dialog /\ dialog'.stage = "failed" /\ ~dialog'.closed
         /\ dialog'.attempt = a + 1 /\ adapter' = NoAdapter /\ NoAdapter \in Adapter
<1>1. dialog \in Dialog /\ a \in Nat
  BY JourneyKnown
<1>n. PICK n \in Nat : n = dialog.attempt + 1
  BY <1>1 DEF Dialog
<1>2. dialog' = [dialog EXCEPT !.stage = "failed", !.attempt = n] /\ adapter' = NoAdapter
  BY <1>n DEF Fails, FailureStage
<1>3. NoAdapter \in Adapter
  BY SignInAssumption DEF NoAdapter, Adapter
<1>4. /\ dialog' \in Dialog /\ dialog'.stage = "failed" /\ dialog'.closed = dialog.closed
      /\ dialog'.attempt = dialog.attempt + 1
  BY <1>1, <1>2, <1>n DEF Dialog, Stages
<1> QED
  BY <1>1, <1>2, <1>3, <1>4 DEF CurrentAttempt

\* A journey that fails, unless it awaited a session.
LEMMA FailsMove ==
  ASSUME SignInInv, NEW a \in Attempts, journey[a].await # "session", Fails(a),
         UNCHANGED <<waiting, holding>>
  PROVE  SignInInv'
<1>1. PICK e \in Journey : journey' = [journey EXCEPT ![a] = e] /\ e.await = "none" /\ Learnt(e)
  BY EndsTo DEF Fails
<1>2. dialog.attempt \in Nat /\ a \in Nat
  BY JourneyKnown DEF Dialog
<1>3. CASE CurrentAttempt(a)
  <2>1. /\ dialog' \in Dialog /\ dialog'.stage = "failed" /\ ~dialog'.closed
        /\ dialog'.attempt = a + 1 /\ adapter' = NoAdapter /\ NoAdapter \in Adapter
    BY <1>3, FailedDialog
  <2>2. waiting = 0
    BY <1>3, NotWaited
  <2>3. dialog'.attempt >= dialog.attempt /\ dialog'.stage # "authenticated"
    BY <1>2, <1>3, <2>1 DEF CurrentAttempt
  <2> QED
    BY <1>1, <2>1, <2>2, <2>3, QuietMove
<1>4. CASE ~CurrentAttempt(a)
  <2>1. UNCHANGED <<dialog, adapter>>
    BY <1>4 DEF Fails
  <2>2. adapter' \in Adapter /\ (dialog'.closed => adapter'.start = 0)
    BY <2>1 DEF SignInInv, SignInTyped
  <2> QED
    BY <1>1, <2>1, <2>2, QuietMove
<1> QED
  BY <1>3, <1>4

\* A journey that goes on, or learns something, with the dialog and the adapter as they are.
LEMMA PlainMove ==
  ASSUME SignInInv, NEW a \in Attempts, NEW e \in Journey,
         journey' = [journey EXCEPT ![a] = e],
         journey[a].await \notin {"session", "none"}, e.await # "session", Learnt(e),
         UNCHANGED <<dialog, adapter, waiting, holding>>
  PROVE  SignInInv'
<1>1. adapter' \in Adapter /\ (dialog'.closed => adapter'.start = 0)
  BY DEF SignInInv, SignInTyped
<1> QED
  BY <1>1, QuietMove

---------------------------------------------------------------------------
(* Its steps.                                                              *)

\* A new journey's record.
LEMMA NewJourneyIs ==
  ASSUME NEW await \in {"load", "discover", "accounts"}, NEW start \in 0 .. MaxAttempts,
         NEW generation \in Nat, await = "accounts" => start # 0
  PROVE  /\ NewJourney(await, start, generation) \in Journey
         /\ NewJourney(await, start, generation).await = await
         /\ Learnt(NewJourney(await, start, generation))
<1>1. PICK e : e = NewJourney(await, start, generation)
  OBVIOUS
<1>2. e \in Journey /\ e.await = await /\ e.start = start
  BY <1>1 DEF NewJourney, Journey, Awaits, WalletRequests, Prompts
<1>3. Learnt(e)
  BY <1>2 DEF Learnt, WalletRequests, Prompts
<1> QED
  BY <1>1, <1>2, <1>3

\* The journey that begins is one that awaited nothing.
LEMMA StartMove ==
  ASSUME SignInInv, StartSignIn
  PROVE  SignInInv'
<1> DEFINE a == dialog.attempt + 1
<1>1. a \in Attempts
  BY DEF StartSignIn
<1>2. JourneyHolds(a) /\ dialog \in Dialog /\ a \in Nat
  BY <1>1, JourneyKnown
<1>3. journey[a].await = "none"
  BY <1>2 DEF JourneyHolds, Dialog
<1>4. PICK e : e = NewJourney("load", 0, 0)
  OBVIOUS
<1>5. e \in Journey /\ e.await = "load" /\ Learnt(e)
  BY <1>4, NewJourneyIs, SignInAssumption
<1>6. journey' = [journey EXCEPT ![a] = e]
  BY <1>4 DEF StartSignIn
<1>7. waiting = 0
  BY DEF StartSignIn, SignInInv, WaitingHolds
<1>8. dialog' = [dialog EXCEPT !.stage = "discovering", !.attempt = a]
  BY DEF StartSignIn
<1>9. dialog' \in Dialog /\ ~dialog'.closed /\ dialog'.stage = "discovering" /\ dialog'.attempt = a
  BY <1>2, <1>8 DEF Dialog, Stages, StartSignIn
<1>10. adapter' \in Adapter /\ adapter'.start = 0
  BY SignInAssumption DEF StartSignIn, NoAdapter, Adapter
<1>11. UNCHANGED <<waiting, holding>>
  BY DEF StartSignIn
<1>12. a >= dialog.attempt /\ a <= dialog'.attempt
  BY <1>2, <1>9 DEF Dialog
<1> HIDE DEF a
<1> QED
  BY <1>1, <1>3, <1>5, <1>6, <1>7, <1>9, <1>10, <1>11, <1>12, QuietMove

LEMMA SelectMove ==
  ASSUME SignInInv, SelectProvider
  PROVE  SignInInv'
<1> DEFINE a == dialog.attempt + 1
<1>1. a \in Attempts
  BY DEF SelectProvider
<1>2. JourneyHolds(a) /\ dialog \in Dialog /\ a \in Nat /\ adapter \in Adapter
  BY <1>1, JourneyKnown
<1>3. journey[a].await = "none"
  BY <1>2 DEF JourneyHolds, Dialog
<1>4. PICK e : e = NewJourney("accounts", adapter.start, adapter.generation + 1)
  OBVIOUS
<1>g. adapter.start \in 0 .. MaxAttempts /\ adapter.generation + 1 \in Nat /\ adapter.start # 0
  BY <1>2 DEF Adapter, SelectProvider
<1>5. e \in Journey /\ e.await = "accounts" /\ Learnt(e)
  BY <1>4, <1>g, NewJourneyIs
<1>6. journey' = [journey EXCEPT ![a] = e]
  BY <1>4 DEF SelectProvider
<1>7. waiting = 0
  BY DEF SelectProvider, SignInInv, WaitingHolds
<1>8. dialog' = [dialog EXCEPT !.stage = "connecting", !.attempt = a]
  BY DEF SelectProvider
<1>9. dialog' \in Dialog /\ ~dialog'.closed /\ dialog'.stage = "connecting" /\ dialog'.attempt = a
  BY <1>2, <1>8 DEF Dialog, Stages, SelectProvider
<1>10. adapter' \in Adapter
  <2>1. PICK n \in Nat : n = adapter.generation + 1
    BY <1>g
  <2>2. adapter' = [adapter EXCEPT !.generation = n, !.address = None]
    BY <2>1 DEF SelectProvider
  <2> QED
    BY <1>2, <2>1, <2>2 DEF Adapter
<1>11. UNCHANGED <<waiting, holding>>
  BY DEF SelectProvider
<1>12. a >= dialog.attempt /\ a <= dialog'.attempt
  BY <1>2, <1>9 DEF Dialog
<1> HIDE DEF a
<1> QED
  BY <1>1, <1>3, <1>5, <1>6, <1>7, <1>9, <1>10, <1>11, <1>12, QuietMove

LEMMA LoadMove ==
  ASSUME SignInInv, NEW a \in Attempts, LoadAdapter(a)
  PROVE  SignInInv'
<1>1. journey[a].await = "load" /\ UNCHANGED <<waiting, holding>>
  BY DEF LoadAdapter
<1>2. a \in Nat \ {0} /\ a <= MaxAttempts /\ dialog \in Dialog
  BY JourneyKnown
<1>3. ASSUME CurrentAttempt(a), adapter' = [start |-> a, generation |-> 1, address |-> None],
             journey' = [journey EXCEPT ![a] = NewJourney("discover", a, 1)], UNCHANGED dialog
      PROVE  SignInInv'
  <2>1. PICK e : e = NewJourney("discover", a, 1)
    OBVIOUS
  <2>2. e \in Journey /\ e.await = "discover" /\ Learnt(e)
    BY <2>1, <1>2, NewJourneyIs, SignInAssumption
  <2>3. journey' = [journey EXCEPT ![a] = e]
    BY <1>3, <2>1
  <2>4. adapter' \in Adapter /\ ~dialog'.closed
    BY <1>2, <1>3, SignInAssumption DEF Adapter, CurrentAttempt
  <2> QED
    BY <1>1, <1>3, <2>2, <2>3, <2>4, QuietMove
<1> QED
  BY <1>1, <1>3, FailsMove DEF LoadAdapter

LEMMA DiscoverMove ==
  ASSUME SignInInv, NEW a \in Attempts, Discover(a)
  PROVE  SignInInv'
<1>1. journey[a].await = "discover" /\ UNCHANGED <<waiting, holding>>
  BY DEF Discover
<1>2. a \in Nat \ {0} /\ dialog \in Dialog /\ adapter \in Adapter
  BY JourneyKnown
<1>3. ASSUME CurrentAttempt(a), dialog' = [dialog EXCEPT !.stage = "choosing-provider"],
             Ends(a), UNCHANGED adapter
      PROVE  SignInInv'
  <2>1. PICK e \in Journey : journey' = [journey EXCEPT ![a] = e] /\ e.await = "none" /\ Learnt(e)
    BY <1>3, EndsTo
  <2>2. /\ dialog' \in Dialog /\ dialog'.stage = "choosing-provider"
        /\ dialog'.closed = dialog.closed /\ dialog'.attempt = dialog.attempt
    BY <1>2, <1>3 DEF Dialog, Stages
  <2>3. waiting = 0 /\ ~dialog'.closed
    BY <1>1, <1>3, <2>2, NotWaited DEF CurrentAttempt
  <2>4. dialog'.attempt >= dialog.attempt
    BY <1>2, <2>2 DEF Dialog
  <2> QED
    BY <1>1, <1>2, <1>3, <2>1, <2>2, <2>3, <2>4, QuietMove
<1> QED
  BY <1>1, <1>3, FailsMove DEF Discover

\* A request that is answered changes its journey alone.
LEMMA AccountsMove ==
  ASSUME SignInInv, NEW a \in Attempts, Accounts(a), wallet.account \in Wallets
  PROVE  SignInInv'
<1>1. journey[a] \in Journey /\ Learnt(journey[a])
  BY JourneyKnown
<1>2. journey[a].await = "accounts" /\ UNCHANGED <<dialog, adapter, waiting, holding>>
  BY DEF Accounts, Answered
<1>3. PICK e : e = [[journey[a] EXCEPT !.await = "chain"] EXCEPT !.address = wallet.account]
  OBVIOUS
<1>4. e \in Journey /\ e.await = "chain" /\ e.start = journey[a].start
  BY <1>1, <1>3 DEF Journey, Awaits, WalletRequests, Prompts
<1>5. journey' = [journey EXCEPT ![a] = e]
  BY <1>3 DEF Accounts, SignInInv, SignInTyped
<1>6. Learnt(e)
  BY <1>1, <1>2, <1>4 DEF Learnt, WalletRequests, Prompts
<1> QED
  BY <1>2, <1>4, <1>5, <1>6, PlainMove

LEMMA RequestGoesOn ==
  ASSUME SignInInv, NEW a \in Attempts, NEW await \in WalletRequests \ {"sign"}, GoesOn(a, await),
         journey[a].await \in WalletRequests, UNCHANGED <<dialog, adapter, waiting, holding>>
  PROVE  SignInInv'
<1>1. Learnt(journey[a])
  BY JourneyKnown
<1>2. PICK e \in Journey :
           /\ journey' = [journey EXCEPT ![a] = e]
           /\ e.await = await /\ e.start = journey[a].start /\ e.address = journey[a].address
           /\ e.challenge = journey[a].challenge
  <2>1. await \in Awaits
    BY DEF Awaits
  <2> QED
    BY <2>1, GoesOnTo
<1>3. Learnt(e) /\ e.await # "session" /\ journey[a].await \notin {"session", "none"}
  BY <1>1, <1>2 DEF Learnt, WalletRequests, Prompts
<1> QED
  BY <1>2, <1>3, PlainMove

LEMMA ChainMoves ==
  ASSUME SignInInv, NEW a \in Attempts,
         ChainId(a) \/ SwitchChain(a) \/ AddChain(a) \/ ResultingChain(a)
  PROVE  SignInInv'
<1>1. journey[a].await \in WalletRequests /\ journey[a].await # "session"
  BY DEF ChainId, SwitchChain, AddChain, ResultingChain, Answered, WalletRequests, Prompts
<1>2. UNCHANGED <<waiting, holding>>
  BY DEF ChainId, SwitchChain, AddChain, ResultingChain
<1>3. {"code", "switch", "rechain", "add"} \subseteq WalletRequests \ {"sign"}
  BY DEF WalletRequests, Prompts
<1>4. ASSUME NEW await \in {"code", "switch", "rechain", "add"}, GoesOn(a, await),
             UNCHANGED <<dialog, adapter>>
      PROVE  SignInInv'
  BY <1>1, <1>2, <1>3, <1>4, RequestGoesOn
<1>5. CASE ChainId(a)
  <2>1. /\ GoesOn(a, "code") \/ GoesOn(a, "switch")
        /\ UNCHANGED <<dialog, adapter>>
    BY <1>5 DEF ChainId
  <2> QED
    BY <2>1, <1>4
<1>6. CASE SwitchChain(a)
  BY <1>6, <1>4 DEF SwitchChain
<1>7. CASE AddChain(a)
  BY <1>7, <1>4 DEF AddChain
<1>8. CASE ResultingChain(a)
  BY <1>8, <1>1, <1>2, <1>4, FailsMove DEF ResultingChain
<1> QED
  BY <1>5, <1>6, <1>7, <1>8

\* An account without code is connected while its journey is the current one.
LEMMA CodeMove ==
  ASSUME SignInInv, NEW a \in Attempts, Code(a)
  PROVE  SignInInv'
<1>1. journey[a].await = "code" /\ UNCHANGED <<waiting, holding>>
  BY DEF Code, Answered
<1>2. /\ journey[a] \in Journey /\ JourneyHolds(a) /\ Learnt(journey[a])
      /\ adapter \in Adapter /\ dialog \in Dialog /\ a \in Nat \ {0}
  BY JourneyKnown
<1>3. CASE IsContract(a) \/ ~CurrentAttempt(a)
  BY <1>1, <1>3, FailsMove DEF Code
<1>4. CASE ~(IsContract(a) \/ ~CurrentAttempt(a))
  <2>1. /\ adapter' = [adapter EXCEPT !.address = journey[a].address]
        /\ dialog' = [dialog EXCEPT !.stage = "creating-challenge"]
        /\ GoesOn(a, "challenge")
    BY <1>4 DEF Code
  <2>2. PICK e \in Journey :
           /\ journey' = [journey EXCEPT ![a] = e]
           /\ e.await = "challenge" /\ e.start = journey[a].start /\ e.address = journey[a].address
           /\ e.challenge = journey[a].challenge
    BY <2>1, GoesOnTo DEF Awaits
  <2>3. Learnt(e)
    BY <1>1, <1>2, <1>4, <2>2 DEF Learnt, IsContract, WalletRequests, Prompts
  <2>4. adapter' \in Adapter
    BY <1>2, <2>1 DEF Adapter, Journey
  <2>5. /\ dialog' \in Dialog /\ dialog'.stage = "creating-challenge"
        /\ dialog'.closed = dialog.closed /\ dialog'.attempt = dialog.attempt
    BY <1>2, <2>1 DEF Dialog, Stages
  <2>6. waiting = 0 /\ ~dialog'.closed
    BY <1>1, <1>4, <2>5, NotWaited DEF CurrentAttempt
  <2>7. dialog'.attempt >= dialog.attempt /\ a <= dialog'.attempt
    BY <1>2, <1>4, <2>5 DEF Dialog, CurrentAttempt
  <2> QED
    BY <1>1, <2>2, <2>3, <2>4, <2>5, <2>6, <2>7, QuietMove
<1> QED
  BY <1>3, <1>4

\* The challenge is the one asked for.
LEMMA ChallengeMove ==
  ASSUME SignInInv, NEW a \in Attempts, ChallengeAnswer(a)
  PROVE  SignInInv'
<1>1. journey[a].await = "challenge" /\ UNCHANGED <<waiting, holding>>
  BY DEF ChallengeAnswer
<1>2. /\ journey[a] \in Journey /\ JourneyHolds(a) /\ Learnt(journey[a])
      /\ adapter \in Adapter /\ dialog \in Dialog /\ a \in Nat \ {0}
  BY JourneyKnown
<1>3. ASSUME NEW address \in Wallets, CurrentAttempt(a), ChallengeMatches(a, address),
             adapter' = [adapter EXCEPT !.generation = @ + 1],
             journey' = [journey EXCEPT ![a].await = "sign", ![a].challenge = address,
                            ![a].generation = adapter.generation + 1],
             dialog' = [dialog EXCEPT !.stage = "awaiting-signature"]
      PROVE  SignInInv'
  <2>1. PICK n \in Nat : n = adapter.generation + 1
    BY <1>2 DEF Adapter
  <2>2. PICK e : e = [[[journey[a] EXCEPT !.await = "sign"] EXCEPT !.challenge = address]
                        EXCEPT !.generation = n]
    OBVIOUS
  <2>3. /\ e \in Journey /\ e.await = "sign" /\ e.start = journey[a].start
        /\ e.address = journey[a].address /\ e.challenge = address
    BY <1>2, <2>2 DEF Journey, Awaits, WalletRequests, Prompts
  <2>4. journey' = [journey EXCEPT ![a] = e]
    BY <1>3, <2>1, <2>2 DEF SignInInv, SignInTyped
  <2>5. Learnt(e)
    BY <1>1, <1>2, <1>3, <2>3 DEF Learnt, WalletRequests, Prompts, ChallengeMatches
  <2>6. adapter' = [adapter EXCEPT !.generation = n]
    BY <1>3, <2>1
  <2>7. adapter' \in Adapter
    BY <1>2, <2>1, <2>6 DEF Adapter
  <2>8. /\ dialog' \in Dialog /\ dialog'.stage = "awaiting-signature"
        /\ dialog'.closed = dialog.closed /\ dialog'.attempt = dialog.attempt
    BY <1>2, <1>3 DEF Dialog, Stages
  <2>9. waiting = 0 /\ ~dialog'.closed
    BY <1>1, <1>3, <2>8, NotWaited DEF CurrentAttempt
  <2>10. dialog'.attempt >= dialog.attempt /\ a <= dialog'.attempt
    BY <1>2, <1>3, <2>8 DEF Dialog, CurrentAttempt
  <2> QED
    BY <1>1, <2>3, <2>4, <2>5, <2>7, <2>8, <2>9, <2>10, QuietMove
<1> QED
  BY <1>1, <1>3, FailsMove DEF ChallengeAnswer

\* The signature: the controller waits for the journey that was signed for.
LEMMA SignMove ==
  ASSUME SignInInv, NEW a \in Attempts, Sign(a)
  PROVE  SignInInv'
<1>1. /\ journey[a] \in Journey /\ JourneyHolds(a) /\ Learnt(journey[a])
      /\ adapter \in Adapter /\ dialog \in Dialog /\ a \in Nat \ {0} /\ a <= MaxAttempts
  BY JourneyKnown
<1>2. /\ journey[a].await = "sign" /\ CurrentAttempt(a)
      /\ dialog' = [dialog EXCEPT !.stage = "creating-session"]
      /\ waiting' = a /\ UNCHANGED <<adapter, wallet, holding>>
  BY DEF Sign, Answered
<1>3. PICK e : e = [[journey[a] EXCEPT !.await = "session"] EXCEPT !.signer = adapter.address]
  OBVIOUS
<1>4. /\ e \in Journey /\ e.await = "session" /\ e.start = journey[a].start
      /\ e.address = journey[a].address /\ e.challenge = journey[a].challenge
  BY <1>1, <1>3 DEF Journey, Awaits, Adapter
<1>5. journey' = [journey EXCEPT ![a] = e]
  BY <1>3 DEF Sign, SignInInv, SignInTyped
<1>6. Learnt(e)
  BY <1>1, <1>2, <1>4 DEF Learnt, WalletRequests, Prompts
<1>7. /\ dialog' \in Dialog /\ dialog'.stage = "creating-session"
      /\ dialog'.closed = dialog.closed /\ dialog'.attempt = dialog.attempt
  BY <1>1, <1>2 DEF Dialog, Stages
<1>8. journey' \in [Attempts -> Journey]
  BY <1>4, <1>5 DEF SignInInv, SignInTyped
<1>9. journey'[a] = e /\ \A b \in Attempts \ {a} : journey'[b] = journey[b]
  BY <1>5 DEF SignInInv, SignInTyped
<1>10. SignInTyped'
  BY <1>1, <1>2, <1>7, <1>8 DEF SignInInv, SignInTyped
<1>11. ASSUME NEW b \in Attempts PROVE JourneyHolds(b)'
  <2>1. JourneyHolds(b) /\ b \in Nat
    BY DEF SignInInv, Attempts
  <2>2. CASE b = a
    BY <1>1, <1>2, <1>4, <1>6, <1>7, <1>9, <2>2 DEF JourneyHolds, CurrentAttempt
  <2>3. CASE b # a
    BY <1>1, <1>2, <1>7, <1>9, <2>1, <2>3 DEF JourneyHolds, CurrentAttempt
  <2> QED
    BY <2>2, <2>3
<1>12. WaitingHolds'
  BY <1>2, <1>4, <1>7, <1>9 DEF WaitingHolds, CurrentAttempt
<1>13. (dialog.closed => adapter.start = 0)' /\ SessionIsOneJourney' /\ SignedInIsHeld'
  BY <1>2, <1>7 DEF SignInInv, SessionIsOneJourney, SignedInIsHeld, CurrentAttempt
<1> QED
  BY <1>10, <1>11, <1>12, <1>13 DEF SignInInv

\* The answer about a session ends its journey, and the controller's waiting for it.
LEMMA SessionMove ==
  ASSUME SignInInv, NEW a \in Attempts, SessionAnswer(a)
  PROVE  SignInInv'
<1>1. /\ journey[a] \in Journey /\ JourneyHolds(a) /\ Learnt(journey[a])
      /\ adapter \in Adapter /\ dialog \in Dialog /\ a \in Nat \ {0} /\ a <= MaxAttempts
  BY JourneyKnown
<1>2. journey[a].await = "session" /\ waiting' = IF waiting = a THEN 0 ELSE waiting
  BY DEF SessionAnswer
<1>3. Ends(a)
  BY DEF SessionAnswer, Fails
<1>4. PICK e \in Journey : journey' = [journey EXCEPT ![a] = e] /\ e.await = "none" /\ Learnt(e)
  BY <1>3, EndsTo
<1>5. journey' \in [Attempts -> Journey]
  BY <1>4 DEF SignInInv, SignInTyped
<1>6. journey'[a] = e /\ \A b \in Attempts \ {a} : journey'[b] = journey[b]
  BY <1>4 DEF SignInInv, SignInTyped
<1>7. CurrentAttempt(a) => waiting = a
  BY <1>1, <1>2 DEF JourneyHolds
<1>8. /\ dialog' \in Dialog /\ adapter' \in Adapter
      /\ dialog'.closed = dialog.closed /\ dialog'.attempt >= dialog.attempt
      /\ ~CurrentAttempt(a) => UNCHANGED <<dialog, adapter>>
      /\ CurrentAttempt(a) => adapter'.start = 0
      /\ CurrentAttempt(a) =>
           dialog'.stage = "failed" \/ (dialog'.stage = "authenticated" /\ ~Fails(a))
  <2>1. CASE Fails(a)
    <3>1. CASE CurrentAttempt(a)
      <4>1. /\ dialog' \in Dialog /\ dialog'.stage = "failed" /\ ~dialog'.closed
            /\ dialog'.attempt = a + 1 /\ adapter' = NoAdapter /\ NoAdapter \in Adapter
        BY <2>1, <3>1, FailedDialog
      <4> QED
        BY <1>1, <3>1, <4>1 DEF CurrentAttempt, NoAdapter, Dialog
    <3>2. CASE ~CurrentAttempt(a)
      BY <1>1, <2>1, <3>2 DEF Fails, Dialog
    <3> QED
      BY <3>1, <3>2
  <2>2. CASE ~Fails(a)
    <3>1. CASE CurrentAttempt(a)
      <4>1. dialog' = [dialog EXCEPT !.stage = "authenticated"] /\ adapter' = NoAdapter
        BY <2>2, <3>1 DEF SessionAnswer
      <4>2. /\ dialog' \in Dialog /\ dialog'.stage = "authenticated"
            /\ dialog'.closed = dialog.closed /\ dialog'.attempt = dialog.attempt
        BY <1>1, <4>1 DEF Dialog, Stages
      <4>3. NoAdapter \in Adapter /\ NoAdapter.start = 0
        BY SignInAssumption DEF NoAdapter, Adapter
      <4> QED
        BY <1>1, <2>2, <3>1, <4>1, <4>2, <4>3 DEF Dialog
    <3>2. CASE ~CurrentAttempt(a)
      BY <1>1, <2>2, <3>2 DEF SessionAnswer, Dialog
    <3> QED
      BY <3>1, <3>2
  <2> QED
    BY <2>1, <2>2
<1>9. /\ holding' \in SignedSession \cup {None} /\ SessionIsOneJourney'
      /\ (CurrentAttempt(a) /\ ~Fails(a)) => holding' # None
      /\ ~CurrentAttempt(a) => holding' = holding \/ holding' # None
  <2>1. CASE holding' = holding /\ (CurrentAttempt(a) => Fails(a))
    BY <2>1 DEF SignInInv, SignInTyped, SessionIsOneJourney
  <2>2. CASE ~(holding' = holding /\ (CurrentAttempt(a) => Fails(a)))
    <3>1. /\ journey[a].signer = journey[a].challenge
          /\ holding' = [attempt |-> a, address |-> journey[a].address,
                         challenge |-> journey[a].challenge, signer |-> journey[a].signer]
      BY <1>7, <2>2 DEF SessionAnswer, Awaited
    <3>2. /\ journey[a].address \in Wallets /\ journey[a].challenge = journey[a].address
          /\ journey[a].address \notin Contracts
      BY <1>1, <1>2 DEF Learnt
    <3>3. holding' \in SignedSession
      BY <3>1, <3>2 DEF SignedSession
    <3>4. holding' # None
      BY <3>3, SignInAssumption DEF SignedSession, Attempts
    <3>5. SessionIsOneJourney'
      BY <3>1, <3>2 DEF SessionIsOneJourney
    <3> QED
      BY <3>3, <3>4, <3>5
  <2> QED
    BY <2>1, <2>2
<1>10. SignInTyped'
  BY <1>2, <1>5, <1>8, <1>9, SignInAssumption DEF SignInInv, SignInTyped
<1>11. ASSUME NEW b \in Attempts PROVE JourneyHolds(b)'
  <2>1. JourneyHolds(b) /\ b \in Nat
    BY DEF SignInInv, Attempts
  <2>n. dialog.attempt \in Nat /\ dialog'.attempt \in Nat /\ dialog.closed \in BOOLEAN
    BY <1>1, <1>8 DEF Dialog
  <2>2. CASE b = a
    <3>1. journey'[b].await = "none" /\ Learnt(journey'[b])
      BY <1>4, <1>6, <2>2
    <3> QED
      BY <3>1 DEF JourneyHolds
  <2>3. CASE b # a
    <3>1. journey'[b] = journey[b]
      BY <1>6, <2>3
    <3>2. Learnt(journey'[b])
      BY <2>1, <3>1 DEF JourneyHolds
    <3>3. (b > dialog'.attempt \/ (dialog'.closed /\ b = dialog'.attempt)) =>
             journey'[b].await = "none"
      BY <2>1, <2>n, <3>1, <1>8 DEF JourneyHolds
    <3>4. (CurrentAttempt(b)' /\ journey'[b].await = "session") => waiting' = b
      BY <2>1, <2>3, <2>n, <3>1, <1>2, <1>8 DEF JourneyHolds, CurrentAttempt
    <3> QED
      BY <3>2, <3>3, <3>4 DEF JourneyHolds
  <2> QED
    BY <2>2, <2>3
<1>12. WaitingHolds'
  <2>1. waiting' # 0 => waiting' = waiting /\ waiting # a /\ ~CurrentAttempt(a)
    BY <1>2, <1>7
  <2> QED
    BY <2>1, <1>6, <1>8 DEF SignInInv, WaitingHolds
<1>13. dialog'.closed => adapter'.start = 0
  BY <1>8 DEF SignInInv
<1>14. SignedInIsHeld'
  BY <1>8, <1>9 DEF SignInInv, SignedInIsHeld
<1> QED
  BY <1>9, <1>10, <1>11, <1>12, <1>13, <1>14 DEF SignInInv

\* Closing leaves the numbers of all journeys behind, opening begins none.
LEMMA DialogMoves ==
  ASSUME SignInInv, CloseDialog \/ OpenDialog
  PROVE  SignInInv'
<1>1. adapter \in Adapter /\ dialog \in Dialog /\ NoAdapter \in Adapter /\ NoAdapter.start = 0
  BY SignInAssumption DEF SignInInv, SignInTyped, NoAdapter, Adapter
<1>2. UNCHANGED <<journey, holding>> /\ (waiting' = waiting \/ waiting' = 0)
  BY DEF CloseDialog, OpenDialog
<1>n. PICK n \in Nat : n = dialog.attempt + 1
  BY <1>1 DEF Dialog
<1>3. \/ /\ dialog' \in Dialog /\ dialog'.closed /\ dialog'.attempt = n /\ ~dialog.closed
         /\ waiting' = 0 /\ adapter' = NoAdapter
      \/ /\ dialog' \in Dialog /\ ~dialog'.closed /\ dialog'.attempt = dialog.attempt
         /\ dialog.closed /\ dialog'.stage = "idle" /\ UNCHANGED <<adapter, waiting>>
  <2>1. CASE CloseDialog
    <3>1. dialog' = [dialog EXCEPT !.closed = TRUE, !.attempt = n]
      BY <1>n, <2>1 DEF CloseDialog
    <3>2. dialog' \in Dialog /\ dialog'.closed /\ dialog'.attempt = n
      BY <1>1, <3>1 DEF Dialog
    <3> QED
      BY <2>1, <3>2 DEF CloseDialog, DisposedAdapter
  <2>2. CASE OpenDialog
    <3>1. dialog' = [dialog EXCEPT !.closed = FALSE, !.stage = "idle"]
      BY <2>2 DEF OpenDialog
    <3>2. dialog' \in Dialog /\ ~dialog'.closed /\ dialog'.attempt = dialog.attempt
          /\ dialog'.stage = "idle"
      BY <1>1, <3>1 DEF Dialog, Stages
    <3> QED
      BY <2>2, <3>2 DEF OpenDialog
  <2> QED
    BY <2>1, <2>2
<1>4. SignInTyped'
  BY <1>1, <1>2, <1>3, SignInAssumption DEF SignInInv, SignInTyped
<1>5. ASSUME NEW b \in Attempts PROVE JourneyHolds(b)'
  <2>1. JourneyHolds(b) /\ b \in Nat /\ journey'[b] = journey[b]
    BY <1>2 DEF SignInInv, Attempts
  <2> QED
    BY <1>1, <1>3, <1>n, <2>1 DEF JourneyHolds, CurrentAttempt, Dialog
<1>6. WaitingHolds'
  BY <1>2, <1>3 DEF SignInInv, WaitingHolds
<1>7. SessionIsOneJourney' /\ SignedInIsHeld'
  BY <1>2, <1>3 DEF SignInInv, SessionIsOneJourney, SignedInIsHeld
<1>8. dialog'.closed => adapter'.start = 0
  BY <1>1, <1>3
<1> QED
  BY <1>4, <1>5, <1>6, <1>7, <1>8 DEF SignInInv

\* The wallet's account is one of the wallets.
WalletTyped == wallet \in [account : Wallets, chain : {"coston2", "other"}, knows : BOOLEAN]

LEMMA WalletTypedStep ==
  ASSUME WalletTyped, [SignInNext]_signInVars
  PROVE  WalletTyped'
<1>1. CASE UNCHANGED wallet
  BY <1>1 DEF WalletTyped
<1>2. ASSUME NEW a \in Attempts, SwitchChain(a) \/ AddChain(a) PROVE WalletTyped'
  BY <1>2 DEF SwitchChain, AddChain, WalletTyped
<1>3. CASE WalletChanges
  BY <1>3 DEF WalletChanges, WalletTyped
<1> QED
  BY <1>1, <1>2, <1>3 DEF SignInNext, signInVars, JourneyStep, StartSignIn, SelectProvider,
     CloseDialog, OpenDialog, LoadAdapter, Discover, RequestFails, Accounts, ChainId,
     ResultingChain, Code, ChallengeAnswer, Sign, SessionAnswer

\* Every step keeps the invariant.
LEMMA SignInStepInv == SignInInv /\ WalletTyped /\ [SignInNext]_signInVars => SignInInv'
<1> SUFFICES ASSUME SignInInv, WalletTyped, [SignInNext]_signInVars PROVE SignInInv'
  OBVIOUS
<1>1. CASE StartSignIn
  BY <1>1, StartMove
<1>2. CASE SelectProvider
  BY <1>2, SelectMove
<1>3. CASE CloseDialog \/ OpenDialog
  BY <1>3, DialogMoves
<1>4. ASSUME UNCHANGED <<dialog, adapter, journey, waiting, holding>> PROVE SignInInv'
  BY <1>4 DEF SignInInv, SignInTyped, JourneyHolds, WaitingHolds, CurrentAttempt,
     SessionIsOneJourney, SignedInIsHeld
<1>5. ASSUME NEW a \in Attempts, JourneyStep(a) PROVE SignInInv'
  <2>1. CASE RequestFails(a)
    <3>1. journey[a].await # "session"
      BY <2>1 DEF RequestFails, WalletRequests, Prompts
    <3> QED
      BY <2>1, <3>1, FailsMove DEF RequestFails
  <2>2. wallet.account \in Wallets
    BY DEF WalletTyped
  <2> QED
    BY <1>5, <2>1, <2>2, LoadMove, DiscoverMove, AccountsMove, ChainMoves, CodeMove,
       ChallengeMove, SignMove, SessionMove DEF JourneyStep
<1> QED
  BY <1>1, <1>2, <1>3, <1>4, <1>5 DEF SignInNext, signInVars, WalletChanges

\* A session comes to be held only by the answer the controller waits for.
LEMMA LateSessionsAreDropped ==
  ASSUME SignInInv, [SignInNext]_signInVars, holding' # holding
  PROVE  /\ ~dialog.closed /\ dialog.stage = "creating-session"
         /\ holding'.attempt = dialog.attempt
<1>1. PICK a \in Attempts : SessionAnswer(a)
  BY DEF SignInNext, signInVars, JourneyStep, StartSignIn, SelectProvider, WalletChanges,
     CloseDialog, OpenDialog, LoadAdapter, Discover, RequestFails, Accounts, ChainId,
     SwitchChain, AddChain, ResultingChain, Code, ChallengeAnswer, Sign
<1>2. waiting = a /\ holding'.attempt = a
  BY <1>1 DEF SessionAnswer, Awaited
<1> QED
  BY <1>2, SignInAssumption DEF SignInInv, WaitingHolds, Attempts

\* Nothing that a journey may still do needs less than an open dialog, or than its adapter.
LEMMA ClosedIsQuiet ==
  ASSUME SignInInv, [SignInNext]_signInVars, dialog.closed, NEW a \in Attempts
  PROVE  journey'[a].await \in {journey[a].await, "none"}
<1>1. CASE UNCHANGED journey
  BY <1>1
<1>2. ASSUME NEW b \in Attempts, Ends(b) PROVE journey'[a].await \in {journey[a].await, "none"}
  <2>1. PICK e \in Journey : journey' = [journey EXCEPT ![b] = e] /\ e.await = "none"
    BY <1>2, EndsTo
  <2> QED
    BY <2>1 DEF SignInInv, SignInTyped
<1>3. \A b \in Attempts : ~CurrentAttempt(b)
  BY DEF CurrentAttempt
<1>4. ASSUME NEW b \in Attempts, NEW w \in WalletRequests PROVE ~Answered(b, w)
  <2>1. Learnt(journey[b])
    BY JourneyKnown
  <2> QED
    BY <2>1 DEF Answered, AdapterCurrent, Learnt, SignInInv
<1>5. {"accounts", "chain", "switch", "add", "rechain", "code", "sign"} \subseteq WalletRequests
  BY DEF WalletRequests, Prompts
<1>6. ASSUME NEW b \in Attempts, JourneyStep(b) PROVE Ends(b)
  BY <1>3, <1>4, <1>5, <1>6 DEF JourneyStep, LoadAdapter, Discover, RequestFails, Accounts,
     ChainId, SwitchChain, AddChain, ResultingChain, Code, ChallengeAnswer, Sign, SessionAnswer, Fails
<1> QED
  BY <1>1, <1>2, <1>6 DEF SignInNext, signInVars, StartSignIn, SelectProvider, CloseDialog,
     OpenDialog, WalletChanges

\* Whatever the wallet does and however often the dialog is closed, reopened and started again: a
\* session that is held was connected, challenged and signed for with one address that is no
\* contract, it comes only while the open dialog waits for it, a dialog that says so has one, and
\* a closed dialog asks neither the wallet nor the server for anything more.
THEOREM SignInKeepsItsPromise == SignInSpec => SignInPromise
<1>1. SignInInit => WalletTyped
  BY DEF SignInInit, WalletTyped
<1>2. SignInInv => SessionIsOneJourney /\ SignedInIsHeld
  BY DEF SignInInv
<1>3. ASSUME SignInInv, [SignInNext]_signInVars
      PROVE  holding' # holding => /\ ~dialog.closed /\ dialog.stage = "creating-session"
                                   /\ holding'.attempt = dialog.attempt
  BY <1>3, LateSessionsAreDropped
<1>4. ASSUME SignInInv, [SignInNext]_signInVars
      PROVE  dialog.closed => \A a \in Attempts : journey'[a].await \in {journey[a].await, "none"}
  BY <1>4, ClosedIsQuiet
<1> QED
  BY <1>1, <1>2, <1>3, <1>4, SignInInitInv, SignInStepInv, WalletTypedStep, PTL
     DEF SignInSpec, SignInPromise, NoLateSession, ClosedAsksNothing

---------------------------------------------------------------------------
(* The session controller.                                                 *)

ControllerTyped ==
  /\ page \in Page /\ calls \subseteq Call /\ storage \in Stored
  /\ server \in [Tokens -> {"unused", "live", "ended"}]
  /\ denied \in BOOLEAN /\ given \subseteq Tokens

\* The page shows what it holds; what it holds is in the storage, unless the storage refused it.
PageAgrees ==
  /\ page.shown # None =>
       page.token = page.shown /\ (page.persistence = "session" => storage = page.token)
  /\ page.state = "authenticated" => page.shown # None
  /\ page.state \in {"anonymous", "restoring", "unavailable-restore"} => page.shown = None
  /\ (~denied /\ page.token # None) => storage = page.token

\* No two calls are of one attempt, and none is of an attempt to come.
AttemptsDiffer ==
  /\ \A c \in calls : c.attempt <= page.revision
  /\ \A c, d \in calls : c.attempt = d.attempt => c = d

\* What the page still is as the call that is awaited left it.
AwaitedHolds(c) ==
  /\ c.kind = "restore" => page.state = "restoring" /\ page.token = c.token /\ storage = c.token
  /\ c.kind = "create" =>
       c.held = page.token /\ c.heldPersistence = page.persistence /\ c.shown = page.shown
  /\ c.kind = "signOut" => c.token = page.token

\* The values the page has, may read, or had.
Reach == {page.token, storage} \cup given

\* A restoration is refused only for a session that has ended; the session a creation made is
\* known to nobody but its call.
AnswerHolds(c) ==
  /\ Current(c) => AwaitedHolds(c)
  /\ c.kind \in {"restore", "signOut"} => c.token \in Tokens /\ server[c.token] # "unused"
  /\ (c.kind = "restore" /\ c.result = "invalid") => server[c.token] = "ended"
  /\ (c.kind = "create" /\ c.result = "ok") => c.token \in Tokens
  /\ (c.kind = "create" /\ c.token # None) =>
       /\ server[c.token] # "unused" /\ c.token \notin Reach
       /\ \A d \in calls : (d.kind = "create" /\ d.token = c.token) => d = c

\* The inductive invariant.
ControllerInv ==
  /\ ControllerTyped
  /\ PageAgrees
  /\ AttemptsDiffer
  /\ GivenUpStaysGone
  /\ \A c \in calls : AnswerHolds(c)
  /\ \A t \in Reach \cap Tokens : server[t] # "unused"

\* It holds at first.
LEMMA ControllerInitInv == ControllerInit => ControllerInv
<1> SUFFICES ASSUME ControllerInit PROVE ControllerInv
  OBVIOUS
<1>1. page \in Page /\ page.state = "anonymous" /\ page.token = None /\ page.shown = None
  BY ControllerAssumption DEF ControllerInit, FreshPage, Page, States, Bearer
<1>2. ControllerTyped
  BY <1>1 DEF ControllerInit, ControllerTyped
<1>3. \A t \in Reach \cap Tokens : server[t] # "unused"
  BY <1>1, ControllerAssumption DEF ControllerInit, Reach
<1> QED
  BY <1>1, <1>2, <1>3 DEF ControllerInit, ControllerInv, PageAgrees, AttemptsDiffer, GivenUpStaysGone

\* A call that begins.
Begun(c) ==
  /\ c.result = "waiting"
  /\ c.kind \in {"restore", "signOut"} => c.token \in Tokens /\ server[c.token] # "unused"
  /\ c.kind = "create" => c.token = None

\* A step of the page: the calls that were awaited are so no more, unless nothing changed, and
\* what the page newly has is a session of which no other call knows.
LEMMA PageMoves ==
  ASSUME ControllerInv, UNCHANGED <<server, denied>>,
         page' \in Page, calls' \subseteq Call, storage' \in Stored, given' \subseteq Tokens,
         NEW gone \in Bearer,
         gone # None => /\ server[gone] # "unused"
                        /\ \A d \in calls' : d.kind = "create" => d.token # gone,
         Reach' \subseteq Reach \cup {None, gone},
         \A c \in calls' :
           \/ c \in calls /\ (~Current(c)' \/ UNCHANGED <<page, storage>>)
           \/ Begun(c) /\ AwaitedHolds(c)',
         PageAgrees', AttemptsDiffer', GivenUpStaysGone'
  PROVE  ControllerInv'
<1>1. ControllerTyped'
  BY DEF ControllerInv, ControllerTyped
<1>2. ASSUME NEW c \in calls' PROVE AnswerHolds(c)'
  <2>1. CASE c \in calls /\ (~Current(c)' \/ UNCHANGED <<page, storage>>)
    <3>1. AnswerHolds(c)
      BY <2>1 DEF ControllerInv
    <3>2. (Current(c) => AwaitedHolds(c))'
      BY <2>1, <3>1 DEF AnswerHolds, AwaitedHolds, Current
    <3>3. ASSUME c.kind = "create", c.token # None
          PROVE  /\ server[c.token] # "unused" /\ c.token \notin Reach'
                 /\ \A d \in calls' : (d.kind = "create" /\ d.token = c.token) => d = c
      <4>1. /\ server[c.token] # "unused" /\ c.token \notin Reach
            /\ \A d \in calls : (d.kind = "create" /\ d.token = c.token) => d = c
        BY <3>1, <3>3 DEF AnswerHolds
      <4>2. c.token # gone
        BY <3>3
      <4> QED
        BY <3>3, <4>1, <4>2 DEF Begun
    <3> QED
      BY <3>1, <3>2, <3>3 DEF AnswerHolds
  <2>2. CASE Begun(c) /\ AwaitedHolds(c)'
    BY <2>2 DEF AnswerHolds, Begun
  <2> QED
    BY <2>1, <2>2
<1>3. ASSUME NEW t \in Reach' \cap Tokens PROVE server'[t] # "unused"
  BY <1>3, ControllerAssumption DEF ControllerInv
<1> QED
  BY <1>1, <1>2, <1>3 DEF ControllerInv

\* An attempt begins: no call is awaited but the one it makes.
LEMMA AttemptMoves ==
  ASSUME ControllerInv, UNCHANGED <<server, denied>>, UNCHANGED calls,
         page' \in Page, page'.revision = page.revision + 1,
         storage' \in {storage, None}, given' \subseteq Tokens,
         Reach' \subseteq Reach \cup {None},
         PageAgrees', GivenUpStaysGone'
  PROVE  ControllerInv'
<1>1. calls \subseteq Call /\ page \in Page /\ storage' \in Stored
  BY DEF ControllerInv, ControllerTyped, Stored, Bearer
<1>2. \A c \in calls : c.attempt \in Nat /\ page.revision \in Nat /\ c.attempt <= page.revision
  BY <1>1, ControllerAssumption DEF ControllerInv, AttemptsDiffer, Call, Page
<1>3. \A c \in calls : ~Current(c)'
  BY <1>2 DEF Current
<1>4. AttemptsDiffer'
  BY <1>2 DEF ControllerInv, AttemptsDiffer
<1>5. None \in Bearer
  BY DEF Bearer
<1> QED
  BY <1>1, <1>3, <1>4, <1>5, PageMoves

\* An attempt that calls a service.
LEMMA StartMoves ==
  ASSUME ControllerInv, UNCHANGED <<storage, server, given, denied>>,
         NEW kind \in Kinds, NEW token \in Bearer, NEW state \in States, NEW held \in Bearer,
         Start(kind, token, state, held),
         state \notin {"authenticated", "anonymous", "unavailable-restore"},
         kind \in {"restore", "signOut"} => token \in Tokens \cap Reach,
         kind = "create" => token = None /\ held = page.token /\ state # "restoring",
         kind = "signOut" => held = page.token /\ token = held /\ state # "restoring",
         kind = "restore" =>
           held = storage /\ token = storage /\ page.shown = None /\ state = "restoring"
  PROVE  ControllerInv'
<1>1. calls \subseteq Call /\ page \in Page /\ storage \in Stored /\ given \subseteq Tokens
  BY DEF ControllerInv, ControllerTyped
<1>n. PICK n \in 1 .. MaxRevision : n = page.revision + 1
  BY <1>1, ControllerAssumption DEF Start, Page
<1>2. PICK c : c = [kind |-> kind, attempt |-> n, token |-> token, result |-> "waiting",
                    held |-> page.token, heldPersistence |-> page.persistence,
                    shown |-> page.shown]
  OBVIOUS
<1>3. /\ c \in Call /\ c.kind = kind /\ c.attempt = n /\ c.token = token /\ c.result = "waiting"
      /\ c.held = page.token /\ c.heldPersistence = page.persistence /\ c.shown = page.shown
  BY <1>1, <1>2 DEF Call, Page, Results
<1>4. calls' = calls \cup {c}
  BY <1>n, <1>2 DEF Start, Attempt
<1>5. page' = [page EXCEPT !.state = state, !.token = held, !.revision = n]
  BY <1>n DEF Start, Attempt
<1>6. /\ page' \in Page /\ page'.state = state /\ page'.token = held /\ page'.revision = n
      /\ page'.shown = page.shown /\ page'.persistence = page.persistence
  <2>1. n \in 0 .. MaxRevision
    BY ControllerAssumption
  <2> QED
    BY <1>1, <1>5, <2>1 DEF Page
<1>7. \A d \in calls : d.attempt \in Nat /\ d.attempt < n /\ page.revision \in Nat
  BY <1>1, <1>n, ControllerAssumption DEF ControllerInv, AttemptsDiffer, Call, Page
<1>8. AttemptsDiffer'
  <2>1. \A d, e \in calls : d.attempt = e.attempt => d = e
    BY DEF ControllerInv, AttemptsDiffer
  <2>2. \A d \in calls' : d.attempt <= n
    BY <1>3, <1>4, <1>7
  <2>3. \A d, e \in calls' : d.attempt = e.attempt => d = e
    BY <1>3, <1>4, <1>7, <2>1
  <2> QED
    BY <1>6, <2>2, <2>3 DEF AttemptsDiffer
<1>9. held \in {page.token, storage}
  BY DEF Kinds
<1>10. Reach' \subseteq Reach
  BY <1>6, <1>9 DEF Reach
<1>11. PageAgrees'
  BY <1>6 DEF Kinds, ControllerInv, PageAgrees
<1>12. GivenUpStaysGone'
  BY <1>6, <1>9 DEF ControllerInv, GivenUpStaysGone
<1>13. \A d \in calls : ~Current(d)'
  BY <1>6, <1>7 DEF Current
<1>14. Begun(c)
  BY <1>3 DEF Begun, ControllerInv
<1>15. AwaitedHolds(c)'
  BY <1>3, <1>6 DEF AwaitedHolds
<1>16. None \in Bearer /\ calls' \subseteq Call /\ storage' \in Stored /\ given' \subseteq Tokens
  BY <1>1, <1>3, <1>4 DEF Bearer
<1> QED
  BY <1>4, <1>6, <1>8, <1>10, <1>11, <1>12, <1>13, <1>14, <1>15, <1>16, PageMoves

---------------------------------------------------------------------------
(* Its steps.                                                              *)

\* The new attempt's revision is one of the page's.
LEMMA RevisionBounded ==
  ASSUME ControllerInv, page.revision < MaxRevision
  PROVE  \E n \in 0 .. MaxRevision : n = page.revision + 1 /\ n = Attempt
BY ControllerAssumption DEF ControllerInv, ControllerTyped, Page, Attempt

\* What clearing leaves of a page.
LEMMA ClearLeaves ==
  ASSUME ControllerInv, NEW p \in Page, Clear(p)
  PROVE  /\ page' \in Page /\ page'.state = "anonymous" /\ page'.token = None
         /\ page'.shown = None /\ page'.revision = p.revision
         /\ storage' = None \/ (denied /\ storage' = storage)
         /\ storage' \in {storage, None}
<1>1. page' = [p EXCEPT !.state = "anonymous", !.token = None, !.shown = None,
                        !.persistence = "session"]
  BY DEF Clear
<1>2. None \in Bearer /\ "anonymous" \in States
  BY DEF Bearer, States
<1>3. /\ page' \in Page /\ page'.state = "anonymous" /\ page'.token = None
      /\ page'.shown = None /\ page'.revision = p.revision
  BY <1>1, <1>2 DEF Page
<1> QED
  BY <1>3 DEF Clear, RemoveStored

LEMMA RestoreMove ==
  ASSUME ControllerInv, UNCHANGED denied, Restore
  PROVE  ControllerInv'
<1>1. page \in Page /\ storage \in Stored /\ given \subseteq Tokens
  BY DEF ControllerInv, ControllerTyped
<1>2. page.shown = None /\ UNCHANGED <<server, given>>
  BY DEF Restore, MayRestore, ControllerInv, PageAgrees
<1>3. ASSUME storage \in Tokens, Start("restore", storage, "restoring", storage),
             UNCHANGED storage
      PROVE  ControllerInv'
  <2>1. storage \in Bearer /\ storage \in Tokens \cap Reach
    BY <1>3 DEF Bearer, Reach
  <2>2. "restore" \in Kinds /\ "restoring" \in States
    BY DEF Kinds, States
  <2> QED
    BY <1>2, <1>3, <2>1, <2>2, StartMoves
<1>4. ASSUME Invalidate,
             page' = [page EXCEPT !.state = "anonymous", !.token = None, !.shown = None,
                                  !.revision = Attempt],
             UNCHANGED <<storage, calls>>
      PROVE  ControllerInv'
  <2>1. PICK n \in 0 .. MaxRevision : n = page.revision + 1 /\ n = Attempt
    BY <1>4, RevisionBounded DEF Invalidate
  <2>2. page' = [page EXCEPT !.state = "anonymous", !.token = None, !.shown = None,
                             !.revision = n]
    BY <1>4, <2>1
  <2>3. None \in Bearer /\ "anonymous" \in States
    BY DEF Bearer, States
  <2>4. /\ page' \in Page /\ page'.state = "anonymous" /\ page'.token = None
        /\ page'.shown = None /\ page'.revision = n
    BY <1>1, <2>2, <2>3 DEF Page
  <2>5. PageAgrees' /\ Reach' \subseteq Reach \cup {None}
    BY <1>2, <1>4, <2>4 DEF PageAgrees, Reach
  <2>6. GivenUpStaysGone'
    BY <1>1, <1>2, <1>4, <2>4, ControllerAssumption DEF ControllerInv, GivenUpStaysGone
  <2> QED
    BY <1>1, <1>2, <1>4, <2>1, <2>4, <2>5, <2>6, AttemptMoves
<1>5. ASSUME Invalidate, Clear([page EXCEPT !.revision = Attempt]), UNCHANGED calls
      PROVE  ControllerInv'
  <2>1. PICK n \in 0 .. MaxRevision : n = page.revision + 1 /\ n = Attempt
    BY <1>5, RevisionBounded DEF Invalidate
  <2>2. PICK p : p = [page EXCEPT !.revision = n]
    OBVIOUS
  <2>3. p \in Page /\ p.revision = n /\ Clear(p)
    BY <1>1, <1>5, <2>1, <2>2 DEF Page
  <2>4. /\ page' \in Page /\ page'.state = "anonymous" /\ page'.token = None
        /\ page'.shown = None /\ page'.revision = n /\ storage' \in {storage, None}
    BY <2>3, ClearLeaves
  <2>5. PageAgrees' /\ Reach' \subseteq Reach \cup {None}
    BY <1>2, <2>4 DEF PageAgrees, Reach
  <2>6. GivenUpStaysGone'
    BY <1>1, <1>2, <2>4, ControllerAssumption DEF ControllerInv, GivenUpStaysGone
  <2> QED
    BY <1>1, <1>2, <1>5, <2>1, <2>4, <2>5, <2>6, AttemptMoves
<1> QED
  BY <1>3, <1>4, <1>5 DEF Restore

LEMMA CreateSessionMove ==
  ASSUME ControllerInv, UNCHANGED denied, CreateSession
  PROVE  ControllerInv'
<1>1. page.token \in Bearer /\ None \in Bearer /\ "create" \in Kinds /\ "creating-session" \in States
  BY DEF ControllerInv, ControllerTyped, Page, Bearer, Kinds, States
<1>2. Start("create", None, "creating-session", page.token) /\ UNCHANGED <<storage, server, given>>
  BY DEF CreateSession
<1> QED
  BY <1>1, <1>2, StartMoves

LEMMA SignOutMove ==
  ASSUME ControllerInv, UNCHANGED denied, SignOut
  PROVE  ControllerInv'
<1>1. page \in Page /\ storage \in Stored /\ given \subseteq Tokens
      /\ UNCHANGED <<storage, server, given>>
  BY DEF ControllerInv, ControllerTyped, SignOut
<1>2. CASE page.token # None
  <2>1. page.token \in Bearer /\ "signOut" \in Kinds /\ "signing-out" \in States
    BY <1>1 DEF Page, Kinds, States
  <2>2. page.token \in Tokens \cap Reach
    BY <1>2, <2>1 DEF Bearer, Reach
  <2>3. Start("signOut", page.token, "signing-out", page.token)
    BY <1>2 DEF SignOut
  <2> QED
    BY <1>1, <2>1, <2>2, <2>3, StartMoves
<1>3. CASE page.token = None
  <2>1. PICK n \in 0 .. MaxRevision : n = page.revision + 1 /\ n = Attempt
    BY <1>3, RevisionBounded DEF SignOut, Invalidate
  <2>2. page' = [page EXCEPT !.state = "anonymous", !.revision = n] /\ UNCHANGED calls
    BY <1>3, <2>1 DEF SignOut
  <2>3. /\ page' \in Page /\ page'.state = "anonymous" /\ page'.token = page.token
        /\ page'.shown = page.shown /\ page'.revision = n
    BY <1>1, <2>2 DEF Page, States
  <2>4. page.shown = None
    BY <1>3 DEF ControllerInv, PageAgrees
  <2>5. PageAgrees' /\ Reach' \subseteq Reach \cup {None} /\ GivenUpStaysGone'
    BY <1>1, <1>3, <2>3, <2>4 DEF ControllerInv, PageAgrees, Reach, GivenUpStaysGone
  <2> QED
    BY <1>1, <2>1, <2>2, <2>3, <2>5, AttemptMoves
<1> QED
  BY <1>2, <1>3

LEMMA ForgetMove ==
  ASSUME ControllerInv, UNCHANGED denied, ForgetBrowser
  PROVE  ControllerInv'
<1>1. page \in Page /\ storage \in Stored /\ given \subseteq Tokens
  BY DEF ControllerInv, ControllerTyped
<1>2. PICK n \in 0 .. MaxRevision : n = page.revision + 1 /\ n = Attempt
  BY RevisionBounded DEF ForgetBrowser, Invalidate
<1>3. PICK p : p = [page EXCEPT !.revision = n]
  OBVIOUS
<1>4. p \in Page /\ p.revision = n /\ Clear(p)
  BY <1>1, <1>2, <1>3 DEF Page, ForgetBrowser, ForgetAuthority
<1>5. /\ page' \in Page /\ page'.state = "anonymous" /\ page'.token = None
      /\ page'.shown = None /\ page'.revision = n /\ storage' \in {storage, None}
      /\ storage' = None \/ (denied /\ storage' = storage)
  BY <1>4, ClearLeaves
<1>6. /\ given' = given \cup (({page.token, storage} \cap Tokens) \ Unremovable)
      /\ UNCHANGED <<calls, server>>
  BY DEF ForgetBrowser
<1>7. PageAgrees'
  BY <1>5 DEF PageAgrees
<1>8. Reach' \subseteq Reach \cup {None} /\ given' \subseteq Tokens
  BY <1>1, <1>5, <1>6 DEF Reach
<1>9. GivenUpStaysGone'
  BY <1>1, <1>5, <1>6, ControllerAssumption DEF ControllerInv, GivenUpStaysGone, Unremovable
<1> QED
  BY <1>2, <1>5, <1>6, <1>7, <1>8, <1>9, AttemptMoves

LEMMA CancelMove ==
  ASSUME ControllerInv, UNCHANGED denied, CancelPending
  PROVE  ControllerInv'
<1>1. page \in Page /\ given \subseteq Tokens /\ UNCHANGED <<calls, storage, server, given>>
  BY DEF ControllerInv, ControllerTyped, CancelPending
<1>2. PICK n \in 0 .. MaxRevision : n = page.revision + 1 /\ n = Attempt
  BY RevisionBounded DEF CancelPending, Invalidate
<1>3. PICK s \in {"authenticated", "anonymous"} : s = CancelledState
  BY DEF CancelledState
<1>4. page' = [page EXCEPT !.state = s, !.revision = n]
  BY <1>2, <1>3 DEF CancelPending
<1>5. /\ page' \in Page /\ page'.state = s /\ page'.token = page.token
      /\ page'.shown = page.shown /\ page'.revision = n /\ page'.persistence = page.persistence
  BY <1>1, <1>4 DEF Page, States
<1>6. s = IF page.shown # None THEN "authenticated" ELSE "anonymous"
  BY <1>3 DEF CancelledState
<1>7. PageAgrees'
  BY <1>1, <1>5, <1>6 DEF ControllerInv, PageAgrees
<1>8. Reach' \subseteq Reach \cup {None} /\ GivenUpStaysGone'
  BY <1>1, <1>5 DEF ControllerInv, Reach, GivenUpStaysGone
<1> QED
  BY <1>1, <1>2, <1>5, <1>7, <1>8, AttemptMoves

\* A page that is closed awaits nothing, one that is reloaded has called nothing.
LEMMA LeavingMoves ==
  ASSUME ControllerInv, UNCHANGED denied, Close \/ Reload
  PROVE  ControllerInv'
<1>1. page \in Page /\ given \subseteq Tokens /\ UNCHANGED <<storage, server, given>>
      /\ calls \subseteq Call /\ storage \in Stored /\ None \in Bearer
  BY DEF ControllerInv, ControllerTyped, Close, Reload, Bearer
<1>2. CASE Close
  <2>1. page' = [page EXCEPT !.state = "closed", !.token = None, !.shown = None]
        /\ UNCHANGED calls
    BY <1>2 DEF Close
  <2>2. /\ page' \in Page /\ page'.state = "closed" /\ page'.token = None
        /\ page'.shown = None /\ page'.revision = page.revision
    BY <1>1, <2>1 DEF Page, States
  <2>3. PageAgrees' /\ Reach' \subseteq Reach \cup {None}
    BY <1>1, <2>2 DEF PageAgrees, Reach
  <2>4. AttemptsDiffer' /\ \A c \in calls' : ~Current(c)'
    BY <2>1, <2>2 DEF ControllerInv, AttemptsDiffer, Current
  <2>5. GivenUpStaysGone'
    BY <1>1, <2>2, ControllerAssumption DEF ControllerInv, GivenUpStaysGone
  <2> QED
    BY <1>1, <2>1, <2>2, <2>3, <2>4, <2>5, PageMoves
<1>3. CASE Reload
  <2>1. page' = FreshPage /\ calls' = {}
    BY <1>3 DEF Reload
  <2>2. /\ page' \in Page /\ page'.state = "anonymous" /\ page'.token = None
        /\ page'.shown = None
    BY <1>1, <2>1, ControllerAssumption DEF Page, States, FreshPage
  <2>3. PageAgrees' /\ Reach' \subseteq Reach \cup {None} /\ AttemptsDiffer'
    BY <1>1, <2>1, <2>2 DEF PageAgrees, Reach, AttemptsDiffer
  <2>5. GivenUpStaysGone'
    BY <1>1, <2>2, ControllerAssumption DEF ControllerInv, GivenUpStaysGone
  <2> QED
    BY <1>1, <2>1, <2>2, <2>3, <2>5, PageMoves
<1> QED
  BY <1>2, <1>3

\* A step of a service: it answers a call, or loses the answer; a session it makes is a new one.
LEMMA ServiceMoves ==
  ASSUME ControllerInv, UNCHANGED <<page, storage, given, denied>>,
         NEW c \in calls, NEW e \in Call, calls' = (calls \ {c}) \cup {e},
         e.kind = c.kind, e.attempt = c.attempt, e.held = c.held,
         e.heldPersistence = c.heldPersistence, e.shown = c.shown,
         server' \in [Tokens -> {"unused", "live", "ended"}],
         \A t \in Tokens : /\ server[t] # "unused" => server'[t] # "unused"
                           /\ server[t] = "ended" => server'[t] = "ended",
         e.kind # "create" => e.token = c.token,
         (e.kind = "restore" /\ e.result = "invalid") => server'[e.token] = "ended",
         e.kind = "create" =>
           \/ e.token = c.token /\ (e.result = "ok" => e.token \in Tokens)
           \/ e.token \in Tokens /\ server[e.token] = "unused" /\ server'[e.token] # "unused"
  PROVE  ControllerInv'
<1>1. ControllerTyped'
  BY DEF ControllerInv, ControllerTyped
<1>2. AttemptsDiffer'
  BY DEF ControllerInv, AttemptsDiffer
<1>3. PageAgrees' /\ GivenUpStaysGone' /\ Reach' = Reach
  BY DEF ControllerInv, PageAgrees, GivenUpStaysGone, Reach
<1>4. AnswerHolds(c) /\ c \in Call
  BY DEF ControllerInv, ControllerTyped
<1>5. \A t \in Reach \cap Tokens : server'[t] # "unused"
  BY DEF ControllerInv
<1>6. ASSUME NEW d \in calls \ {c} PROVE d.kind = "create" /\ d.token # None /\ e.kind = "create" => d.token # e.token
  <2>1. AnswerHolds(d) /\ d \in Call
    BY DEF ControllerInv, ControllerTyped
  <2> QED
    BY <1>4, <2>1 DEF AnswerHolds
<1>7. ASSUME NEW d \in calls \ {c} PROVE AnswerHolds(d)'
  <2>1. AnswerHolds(d) /\ d \in Call
    BY DEF ControllerInv, ControllerTyped
  <2>2. (Current(d) => AwaitedHolds(d))'
    BY <2>1 DEF AnswerHolds, AwaitedHolds, Current
  <2>3. (d.kind = "create" /\ d.token # None) =>
           /\ server'[d.token] # "unused" /\ d.token \notin Reach'
           /\ \A f \in calls' : (f.kind = "create" /\ f.token = d.token) => f = d
    BY <1>3, <1>6, <2>1 DEF AnswerHolds, Call, Bearer
  <2> QED
    BY <2>1, <2>2, <2>3 DEF AnswerHolds, Call, Bearer
<1>8. AnswerHolds(e)'
  <2>1. (Current(e) => AwaitedHolds(e))'
    BY <1>4 DEF AnswerHolds, AwaitedHolds, Current
  <2>2. (e.kind = "create" /\ e.token # None) =>
           /\ server'[e.token] # "unused" /\ e.token \notin Reach'
           /\ \A f \in calls' : (f.kind = "create" /\ f.token = e.token) => f = e
    <3> SUFFICES ASSUME e.kind = "create", e.token # None
                 PROVE  /\ server'[e.token] # "unused" /\ e.token \notin Reach'
                        /\ \A f \in calls' : (f.kind = "create" /\ f.token = e.token) => f = e
      OBVIOUS
    <3>1. e.token \in Tokens
      BY DEF Call, Bearer
    <3>2. server'[e.token] # "unused" /\ e.token \notin Reach
      BY <1>4, <3>1 DEF AnswerHolds, ControllerInv
    <3> QED
      BY <1>3, <1>6, <3>2
  <2>3. e.kind \in {"restore", "signOut"} => e.token \in Tokens /\ server'[e.token] # "unused"
    BY <1>4 DEF AnswerHolds
  <2> QED
    BY <2>1, <2>2, <2>3 DEF AnswerHolds
<1> QED
  BY <1>1, <1>2, <1>3, <1>5, <1>7, <1>8 DEF ControllerInv

LEMMA ServeMove ==
  ASSUME ControllerInv, UNCHANGED denied, NEW c \in calls, Serve(c)
  PROVE  ControllerInv'
<1>1. AnswerHolds(c) /\ c \in Call /\ server \in [Tokens -> {"unused", "live", "ended"}]
  BY DEF ControllerInv, ControllerTyped
<1>2. UNCHANGED <<page, storage, given>>
  BY DEF Serve
<1>3. ASSUME c.kind = "create", NEW t \in Tokens, server[t] = "unused",
             server' = [server EXCEPT ![t] = "live"],
             calls' = (calls \ {c}) \cup {[c EXCEPT !.token = t, !.result = "ok"]}
      PROVE  ControllerInv'
  <2>1. PICK e : e = [c EXCEPT !.token = t, !.result = "ok"]
    OBVIOUS
  <2>2. /\ e \in Call /\ e.kind = c.kind /\ e.attempt = c.attempt /\ e.held = c.held
        /\ e.heldPersistence = c.heldPersistence /\ e.shown = c.shown
        /\ e.token = t /\ e.result = "ok"
    BY <1>1, <2>1 DEF Call, Bearer, Results
  <2>3. calls' = (calls \ {c}) \cup {e}
    BY <1>3, <2>1
  <2>4. /\ server' \in [Tokens -> {"unused", "live", "ended"}] /\ server'[t] # "unused"
        /\ \A x \in Tokens : /\ server[x] # "unused" => server'[x] # "unused"
                             /\ server[x] = "ended" => server'[x] = "ended"
    BY <1>1, <1>3
  <2> QED
    BY <1>2, <1>3, <2>2, <2>3, <2>4, ServiceMoves
<1>4. PICK r \in Results : r = IF server[c.token] = "live" THEN "ok" ELSE "invalid"
  BY DEF Results
<1>5. PICK e : e = [c EXCEPT !.result = r]
  OBVIOUS
<1>6. /\ e \in Call /\ e.kind = c.kind /\ e.attempt = c.attempt /\ e.held = c.held
      /\ e.heldPersistence = c.heldPersistence /\ e.shown = c.shown
      /\ e.token = c.token /\ e.result = r
  BY <1>1, <1>5 DEF Call
<1>7. ASSUME c.kind = "restore", UNCHANGED server,
             calls' = (calls \ {c}) \cup {[c EXCEPT !.result = r]}
      PROVE  ControllerInv'
  <2>1. calls' = (calls \ {c}) \cup {e}
    BY <1>5, <1>7
  <2>2. e.result = "invalid" => server'[e.token] = "ended"
    BY <1>1, <1>4, <1>6, <1>7 DEF AnswerHolds
  <2> QED
    BY <1>1, <1>2, <1>6, <1>7, <2>1, <2>2, ServiceMoves
<1>8. ASSUME c.kind = "signOut", server' = [server EXCEPT ![c.token] = "ended"],
             calls' = (calls \ {c}) \cup {[c EXCEPT !.result = r]}
      PROVE  ControllerInv'
  <2>1. calls' = (calls \ {c}) \cup {e}
    BY <1>5, <1>8
  <2>2. /\ server' \in [Tokens -> {"unused", "live", "ended"}]
        /\ \A x \in Tokens : /\ server[x] # "unused" => server'[x] # "unused"
                             /\ server[x] = "ended" => server'[x] = "ended"
    BY <1>1, <1>8
  <2> QED
    BY <1>2, <1>6, <1>8, <2>1, <2>2, ServiceMoves
<1>9. CASE c.kind = "create"
  BY <1>3, <1>9 DEF Serve
<1>10. CASE c.kind = "restore"
  BY <1>4, <1>7, <1>10 DEF Serve
<1>11. CASE c.kind = "signOut"
  BY <1>4, <1>8, <1>11 DEF Serve
<1> QED
  BY <1>1, <1>9, <1>10, <1>11 DEF Call, Kinds

LEMMA FailMove ==
  ASSUME ControllerInv, UNCHANGED denied, NEW c \in calls, FailCall(c)
  PROVE  ControllerInv'
<1>1. AnswerHolds(c) /\ c \in Call /\ server \in [Tokens -> {"unused", "live", "ended"}]
  BY DEF ControllerInv, ControllerTyped
<1>2. PICK e : e = [c EXCEPT !.result = "failed"]
  OBVIOUS
<1>3. /\ e \in Call /\ e.kind = c.kind /\ e.attempt = c.attempt /\ e.held = c.held
      /\ e.heldPersistence = c.heldPersistence /\ e.shown = c.shown
      /\ e.token = c.token /\ e.result = "failed"
  BY <1>1, <1>2 DEF Call, Results
<1>4. calls' = (calls \ {c}) \cup {e} /\ UNCHANGED <<page, storage, server, given>>
  BY <1>2 DEF FailCall
<1> QED
  BY <1>1, <1>3, <1>4, ServiceMoves

LEMMA ExpireMove ==
  ASSUME ControllerInv, UNCHANGED denied, NEW t \in Tokens, Expire(t)
  PROVE  ControllerInv'
<1>1. /\ server[t] = "live" /\ server' = [server EXCEPT ![t] = "ended"]
      /\ UNCHANGED <<page, calls, storage, given>>
      /\ server \in [Tokens -> {"unused", "live", "ended"}] /\ calls \subseteq Call
  BY DEF Expire, ControllerInv, ControllerTyped
<1>2. /\ server' \in [Tokens -> {"unused", "live", "ended"}]
      /\ \A x \in Tokens : /\ server[x] # "unused" => server'[x] # "unused"
                           /\ server[x] = "ended" => server'[x] = "ended"
  BY <1>1
<1>3. ASSUME NEW c \in calls PROVE AnswerHolds(c)'
  <2>1. AnswerHolds(c) /\ c.token \in Bearer
    BY <1>1 DEF ControllerInv, Call
  <2>2. Reach' = Reach /\ (Current(c)' = Current(c)) /\ (AwaitedHolds(c)' = AwaitedHolds(c))
    BY <1>1 DEF Reach, Current, AwaitedHolds
  <2> QED
    BY <1>1, <1>2, <2>1, <2>2 DEF AnswerHolds, Bearer
<1>4. ControllerTyped' /\ PageAgrees' /\ AttemptsDiffer' /\ GivenUpStaysGone' /\ Reach' = Reach
  BY <1>1, <1>2 DEF ControllerInv, ControllerTyped, PageAgrees, AttemptsDiffer, GivenUpStaysGone,
     Reach
<1> QED
  BY <1>1, <1>2, <1>3, <1>4 DEF ControllerInv

\* An answer that is taken: the other calls are not the one awaited.
LEMMA AnswerMoves ==
  ASSUME ControllerInv, UNCHANGED <<server, denied>>, NEW c \in calls, Current(c),
         calls' = calls \ {c}, page' \in Page, page'.revision = page.revision,
         storage' \in Stored, given' \subseteq Tokens, NEW gone \in Bearer,
         gone # None => c.kind = "create" /\ c.token = gone,
         Reach' \subseteq Reach \cup {None, gone},
         PageAgrees', GivenUpStaysGone'
  PROVE  ControllerInv'
<1>1. calls \subseteq Call /\ AnswerHolds(c)
  BY DEF ControllerInv, ControllerTyped
<1>2. \A d \in calls' : d \in calls /\ d # c /\ d.attempt # c.attempt
  BY DEF ControllerInv, AttemptsDiffer
<1>3. \A d \in calls' : ~Current(d)'
  BY <1>2 DEF Current
<1>4. AttemptsDiffer'
  BY DEF ControllerInv, AttemptsDiffer
<1>5. gone # None => server[gone] # "unused" /\ \A d \in calls' : d.kind = "create" => d.token # gone
  BY <1>1, <1>2 DEF AnswerHolds
<1>6. calls' \subseteq Call
  BY <1>1
<1> QED
  BY <1>2, <1>3, <1>4, <1>5, <1>6, PageMoves

LEMMA IgnoredMove ==
  ASSUME ControllerInv, UNCHANGED <<server, denied>>, NEW c \in calls, calls' = calls \ {c},
         UNCHANGED <<page, storage, given>>
  PROVE  ControllerInv'
<1>1. /\ page' \in Page /\ calls' \subseteq Call /\ storage' \in Stored /\ given' \subseteq Tokens
      /\ None \in Bearer
  BY DEF ControllerInv, ControllerTyped, Bearer
<1>2. AttemptsDiffer' /\ PageAgrees' /\ GivenUpStaysGone' /\ Reach' = Reach
  BY DEF ControllerInv, AttemptsDiffer, PageAgrees, GivenUpStaysGone, Reach
<1> QED
  BY <1>1, <1>2, PageMoves

LEMMA RestoreTakenMove ==
  ASSUME ControllerInv, UNCHANGED <<server, denied>>, NEW c \in calls, calls' = calls \ {c},
         c.kind = "restore", c.result # "waiting", RestoreTaken(c)
  PROVE  ControllerInv'
<1>1. /\ page \in Page /\ storage \in Stored /\ given \subseteq Tokens /\ c \in Call
      /\ None \in Bearer /\ Current(c)
  BY DEF ControllerInv, ControllerTyped, RestoreTaken, Bearer
<1>2. AnswerHolds(c)
  BY DEF ControllerInv
<1>3. page.state = "restoring" /\ page.token = c.token /\ storage = c.token /\ page.shown = None
      /\ c.token \in Tokens
  BY <1>1, <1>2 DEF AnswerHolds, AwaitedHolds, ControllerInv, PageAgrees
<1>4. CASE c.result = "ok"
  <2>1. page' = [page EXCEPT !.state = "authenticated", !.shown = c.token]
        /\ UNCHANGED <<storage, given>>
    BY <1>4 DEF RestoreTaken
  <2>2. /\ page' \in Page /\ page'.state = "authenticated" /\ page'.token = page.token
        /\ page'.shown = c.token /\ page'.revision = page.revision
    BY <1>1, <1>3, <2>1 DEF Page, States, Bearer
  <2>3. PageAgrees' /\ Reach' \subseteq Reach /\ GivenUpStaysGone'
    BY <1>1, <1>3, <2>1, <2>2, ControllerAssumption
       DEF ControllerInv, PageAgrees, Reach, GivenUpStaysGone
  <2> QED
    BY <1>1, <2>1, <2>2, <2>3, AnswerMoves
<1>5. CASE c.result = "invalid"
  <2>1. Clear(page) /\ UNCHANGED given
    BY <1>5 DEF RestoreTaken
  <2>2. /\ page' \in Page /\ page'.state = "anonymous" /\ page'.token = None
        /\ page'.shown = None /\ page'.revision = page.revision
        /\ storage' \in {storage, None}
    BY <1>1, <2>1, ClearLeaves
  <2>3. PageAgrees' /\ Reach' \subseteq Reach \cup {None}
    BY <2>1, <2>2 DEF PageAgrees, Reach
  <2>4. GivenUpStaysGone' /\ storage' \in Stored
    BY <1>1, <2>1, <2>2, ControllerAssumption DEF ControllerInv, GivenUpStaysGone, Stored
  <2> QED
    BY <1>1, <2>1, <2>2, <2>3, <2>4, AnswerMoves
<1>6. CASE c.result = "failed"
  <2>1. page' = [page EXCEPT !.state = "unavailable-restore"] /\ UNCHANGED <<storage, given>>
    BY <1>6 DEF RestoreTaken
  <2>2. /\ page' \in Page /\ page'.state = "unavailable-restore" /\ page'.token = page.token
        /\ page'.shown = page.shown /\ page'.revision = page.revision
    BY <1>1, <2>1 DEF Page, States
  <2>3. PageAgrees' /\ Reach' \subseteq Reach /\ GivenUpStaysGone'
    BY <1>3, <2>1, <2>2 DEF ControllerInv, PageAgrees, Reach, GivenUpStaysGone
  <2> QED
    BY <1>1, <2>1, <2>2, <2>3, AnswerMoves
<1> QED
  BY <1>1, <1>4, <1>5, <1>6 DEF Call, Results

LEMMA CreateTakenMove ==
  ASSUME ControllerInv, UNCHANGED <<server, denied>>, NEW c \in calls, calls' = calls \ {c},
         c.kind = "create", CreateTaken(c)
  PROVE  ControllerInv'
<1>1. /\ page \in Page /\ storage \in Stored /\ given \subseteq Tokens /\ c \in Call
      /\ None \in Bearer /\ Current(c) /\ UNCHANGED given
  BY DEF ControllerInv, ControllerTyped, CreateTaken, Bearer
<1>2. AnswerHolds(c)
  BY DEF ControllerInv
<1>3. CASE c.result = "ok"
  <2>1. c.token \in Tokens /\ c.token \in Bearer /\ c.token # None /\ c.token \notin Reach
    BY <1>2, <1>3, ControllerAssumption DEF AnswerHolds, Bearer
  <2>2. PICK kept \in {"session", "memory"} :
          /\ page' = [page EXCEPT !.state = "authenticated", !.token = c.token,
                                  !.shown = c.token, !.persistence = kept]
          /\ \/ kept = "session" /\ storage' = c.token
             \/ kept = "memory" /\ denied /\ storage' \in {storage, None}
    BY <1>3 DEF CreateTaken, SessionHeld, RemoveStored
  <2>3. /\ page' \in Page /\ page'.state = "authenticated" /\ page'.token = c.token
        /\ page'.shown = c.token /\ page'.persistence = kept /\ page'.revision = page.revision
    BY <1>1, <2>1, <2>2 DEF Page, States
  <2>4. storage' \in Stored /\ PageAgrees'
    BY <1>1, <2>1, <2>2, <2>3 DEF PageAgrees, Stored
  <2>5. Reach' \subseteq Reach \cup {None, c.token}
    BY <1>1, <2>2, <2>3 DEF Reach
  <2>6. GivenUpStaysGone'
    BY <1>1, <2>1, <2>2, <2>3, ControllerAssumption DEF ControllerInv, GivenUpStaysGone, Reach
  <2> QED
    BY <1>1, <2>1, <2>3, <2>4, <2>5, <2>6, AnswerMoves
<1>4. CASE c.result # "ok"
  <2>1. c.held = page.token /\ c.heldPersistence = page.persistence /\ c.shown = page.shown
    BY <1>1, <1>2 DEF AnswerHolds, AwaitedHolds
  <2>2. PICK s \in {"authenticated", "anonymous"} :
          /\ s = IF c.shown # None THEN "authenticated" ELSE "anonymous"
          /\ page' = [page EXCEPT !.token = page.token, !.persistence = page.persistence,
                        !.shown = page.shown, !.state = s]
          /\ UNCHANGED storage
    BY <1>4, <2>1 DEF CreateTaken
  <2>3. /\ page' \in Page /\ page'.state = s /\ page'.token = page.token
        /\ page'.shown = page.shown /\ page'.persistence = page.persistence
        /\ page'.revision = page.revision
    BY <1>1, <2>2 DEF Page, States
  <2>4. PageAgrees' /\ Reach' \subseteq Reach /\ GivenUpStaysGone'
    BY <1>1, <2>1, <2>2, <2>3 DEF ControllerInv, PageAgrees, Reach, GivenUpStaysGone
  <2> QED
    BY <1>1, <2>2, <2>3, <2>4, AnswerMoves
<1> QED
  BY <1>3, <1>4

LEMMA SignOutTakenMove ==
  ASSUME ControllerInv, UNCHANGED <<server, denied>>, NEW c \in calls, calls' = calls \ {c},
         c.kind = "signOut", SignOutTaken(c)
  PROVE  ControllerInv'
<1>1. /\ page \in Page /\ storage \in Stored /\ given \subseteq Tokens /\ c \in Call
      /\ None \in Bearer /\ Current(c)
  BY DEF ControllerInv, ControllerTyped, SignOutTaken, Bearer
<1>2. AnswerHolds(c)
  BY DEF ControllerInv
<1>3. c.token = page.token /\ c.token \in Tokens
  BY <1>1, <1>2 DEF AnswerHolds, AwaitedHolds
<1>4. CASE ClearsOn(c)
  <2>1. Clear(page) /\ GiveUp(c)
    BY <1>4 DEF SignOutTaken
  <2>2. /\ page' \in Page /\ page'.state = "anonymous" /\ page'.token = None
        /\ page'.shown = None /\ page'.revision = page.revision
        /\ storage' \in {storage, None}
    BY <1>1, <2>1, ClearLeaves
  <2>3. given' = given \cup ({c.token} \ {storage'})
    BY <1>4, <2>1 DEF GiveUp, ClearsOn
  <2>4. PageAgrees' /\ Reach' \subseteq Reach \cup {None}
    BY <1>3, <2>2, <2>3 DEF PageAgrees, Reach
  <2>5. GivenUpStaysGone' /\ storage' \in Stored /\ given' \subseteq Tokens
    BY <1>1, <1>3, <2>2, <2>3, ControllerAssumption DEF ControllerInv, GivenUpStaysGone, Stored
  <2> QED
    BY <1>1, <2>2, <2>4, <2>5, AnswerMoves
<1>5. CASE ~ClearsOn(c)
  <2>1. page' = [page EXCEPT !.state = "unavailable-sign-out"] /\ UNCHANGED <<storage, given>>
    BY <1>5 DEF SignOutTaken
  <2>2. /\ page' \in Page /\ page'.state = "unavailable-sign-out" /\ page'.token = page.token
        /\ page'.shown = page.shown /\ page'.revision = page.revision
        /\ page'.persistence = page.persistence
    BY <1>1, <2>1 DEF Page, States
  <2>3. PageAgrees' /\ Reach' \subseteq Reach /\ GivenUpStaysGone'
    BY <2>1, <2>2 DEF ControllerInv, PageAgrees, Reach, GivenUpStaysGone
  <2> QED
    BY <1>1, <2>1, <2>2, <2>3, AnswerMoves
<1> QED
  BY <1>4, <1>5

\* Every step keeps the invariant.
LEMMA ControllerStepInv == ControllerInv /\ [ControllerNext]_controllerVars => ControllerInv'
<1> SUFFICES ASSUME ControllerInv, [ControllerNext]_controllerVars PROVE ControllerInv'
  OBVIOUS
<1>1. ASSUME UNCHANGED denied, NEW c \in calls, ControllerAnswer(c) PROVE ControllerInv'
  <2>1. c.result # "waiting" /\ calls' = calls \ {c} /\ UNCHANGED <<server, denied>>
    BY <1>1 DEF ControllerAnswer, Settle
  <2>2. CASE Ignored(c)
    BY <2>1, <2>2, IgnoredMove DEF Ignored
  <2> QED
    BY <1>1, <2>1, <2>2, RestoreTakenMove, CreateTakenMove, SignOutTakenMove DEF ControllerAnswer
<1>2. CASE UNCHANGED controllerVars
  BY <1>2 DEF controllerVars, ControllerInv, ControllerTyped, PageAgrees, AttemptsDiffer,
     GivenUpStaysGone, AnswerHolds, AwaitedHolds, Current, Reach
<1>3. CASE ControllerNext
  BY <1>1, <1>3, RestoreMove, CreateSessionMove, SignOutMove, ForgetMove, CancelMove, LeavingMoves,
     ServeMove, FailMove, ExpireMove DEF ControllerNext, ControllerStep
<1> QED
  BY <1>2, <1>3

\* The storage changes only when a token that is no session's, or an ended one's, is found in it,
\* when the user forgets or signs out, or for a newer session.
LEMMA GoodSessionsStay ==
  ASSUME ControllerInv, [ControllerNext]_controllerVars,
         ~denied, storage \in Tokens, storage' # storage, server[storage] = "live"
  PROVE  storage \in given' \/ page'.token \in Tokens \ {storage}
<1>1. CASE ForgetBrowser
  BY <1>1 DEF ForgetBrowser, Unremovable
<1>2. ASSUME NEW c \in calls, c.kind = "restore", RestoreTaken(c), c.result # "waiting"
      PROVE  FALSE
  <2>1. AnswerHolds(c) /\ c.result \in Results
    BY DEF ControllerInv, ControllerTyped, Call
  <2> QED
    BY <1>2, <2>1 DEF RestoreTaken, AnswerHolds, AwaitedHolds, Results
<1>3. ASSUME NEW c \in calls, c.kind = "create", CreateTaken(c)
      PROVE  page'.token \in Tokens \ {storage}
  <2>1. AnswerHolds(c) /\ page \in Page
    BY DEF ControllerInv, ControllerTyped
  <2>2. c.result = "ok" /\ SessionHeld(c)
    BY <1>3 DEF CreateTaken
  <2>3. c.token \in Tokens /\ c.token \notin Reach
    BY <1>3, <2>1, <2>2, ControllerAssumption DEF AnswerHolds
  <2>4. page' = [page EXCEPT !.state = "authenticated", !.token = c.token,
                             !.shown = c.token, !.persistence = "session"]
    BY <2>2 DEF SessionHeld
  <2> QED
    BY <2>1, <2>3, <2>4 DEF Reach, Page
<1>4. ASSUME NEW c \in calls, c.kind = "signOut", SignOutTaken(c) PROVE storage \in given'
  <2>1. AnswerHolds(c) /\ ClearsOn(c) /\ Current(c) /\ GiveUp(c)
    BY <1>4 DEF ControllerInv, SignOutTaken
  <2>2. c.token = page.token /\ c.token \in Tokens
    BY <1>4, <2>1 DEF AnswerHolds, AwaitedHolds
  <2>3. storage = c.token
    BY <2>2, ControllerAssumption DEF ControllerInv, PageAgrees
  <2> QED
    BY <2>1, <2>3 DEF GiveUp, ClearsOn
<1>5. ASSUME Restore PROVE FALSE
  BY <1>5, ControllerAssumption DEF Restore, Start
<1> QED
  BY <1>1, <1>2, <1>3, <1>4, <1>5 DEF ControllerNext, ControllerStep, controllerVars, CreateSession,
     SignOut, CancelPending, Close, Reload, Serve, FailCall, Expire, ControllerAnswer, Ignored

\* However calls are answered, late, out of order or not at all, and whatever the storage refuses:
\* a page that says it is signed in holds the session it shows, and has it in the storage where it
\* says so; a token that was given up does not come back; and a good session leaves a storage that
\* works only for a newer one, or when the user gives it up.
THEOREM ControllerKeepsItsPromise == ControllerSpec => ControllerPromise
<1>1. ControllerInv => ShownIsHeld
  BY DEF ControllerInv, PageAgrees, ShownIsHeld
<1>2. ControllerInv => GivenUpStaysGone
  BY DEF ControllerInv
<1>3. ASSUME ControllerInv, [ControllerNext]_controllerVars
      PROVE  (~denied /\ storage \in Tokens /\ storage' # storage /\ server[storage] = "live") =>
               (storage \in given' \/ page'.token \in Tokens \ {storage})
  BY <1>3, GoodSessionsStay
<1> QED
  BY <1>1, <1>2, <1>3, ControllerInitInv, ControllerStepInv, PTL
     DEF ControllerSpec, ControllerPromise, GoodSessionsAreKept

---------------------------------------------------------------------------
(* The submission by wallet.                                               *)

BroadcastTyped ==
  /\ step \in [Tabs -> BroadcastSteps]
  /\ marker \in [Tabs -> {None, "pending", "sent"}]
  /\ sent \in [Tabs -> Nat]

\* From before the wallet is asked until the hash is stored, a tab has the mark of a pending
\* submission, also when it was reloaded; it asks the wallet only when nothing was sent.
TabHolds(b) ==
  /\ b \in asking => marker[b] = "pending" /\ sent[b] = 0 /\ step[b] \in {"sending", "idle"}
  /\ step[b] = "preparing" => marker[b] = None
  /\ step[b] = "connecting" => marker[b] = "pending" /\ sent[b] = 0
  /\ step[b] = "sending" => b \in asking
  /\ step[b] = "returned" => marker[b] = "pending" /\ sent[b] = 1
  /\ sent[b] <= 1
  /\ sent[b] > 0 => marker[b] # None \/ (shown /\ attached = b)

\* The inductive invariant.
BroadcastInv == BroadcastTyped /\ \A b \in Tabs : TabHolds(b)

\* It holds at first.
LEMMA BroadcastInitInv == BroadcastInit => BroadcastInv
BY DEF BroadcastInit, BroadcastInv, BroadcastTyped, BroadcastSteps, TabHolds

\* What one tab's step is to another tab, and what it does to its own values.
TabMoves(b, place, mark, count) ==
  /\ step' = [step EXCEPT ![b] = place]
  /\ marker' = [marker EXCEPT ![b] = mark]
  /\ sent' = [sent EXCEPT ![b] = count]

\* A step of one tab keeps the others' invariants, and the types.
LEMMA TabMovesAlone ==
  ASSUME BroadcastInv, NEW b \in Tabs, NEW place \in BroadcastSteps,
         NEW mark \in {None, "pending", "sent"}, NEW count \in Nat,
         TabMoves(b, place, mark, count), asking \ {b} = asking' \ {b},
         UNCHANGED shown, attached' = attached \/ attached \notin Tabs,
         /\ b \in asking' => mark = "pending" /\ count = 0 /\ place \in {"sending", "idle"}
         /\ place = "preparing" => mark = None
         /\ place = "connecting" => mark = "pending" /\ count = 0
         /\ place = "sending" => b \in asking'
         /\ place = "returned" => mark = "pending" /\ count = 1
         /\ count <= 1
         /\ count > 0 => mark # None \/ (shown /\ attached = b)
  PROVE  BroadcastInv'
<1>1. BroadcastTyped'
  BY DEF BroadcastInv, BroadcastTyped, TabMoves
<1>2. step'[b] = place /\ marker'[b] = mark /\ sent'[b] = count
  BY DEF BroadcastInv, BroadcastTyped, TabMoves
<1>3. TabHolds(b)'
  BY <1>2 DEF TabHolds
<1>4. ASSUME NEW d \in Tabs, d # b PROVE TabHolds(d)'
  <2>1. TabHolds(d) /\ (d \in asking' <=> d \in asking)
    BY <1>4 DEF BroadcastInv
  <2>2. step'[d] = step[d] /\ marker'[d] = marker[d] /\ sent'[d] = sent[d]
    BY <1>4 DEF BroadcastInv, BroadcastTyped, TabMoves
  <2> QED
    BY <2>1, <2>2 DEF TabHolds
<1> QED
  BY <1>1, <1>3, <1>4 DEF BroadcastInv

\* Every step of a tab keeps the invariant, and a stored hash that is not shown yet.
LEMMA TabStep ==
  ASSUME BroadcastInv, NEW b \in Tabs,
         \/ ConfirmSubmission(b) \/ PrepareSubmission(b) \/ NotPrepared(b) \/ WalletConnected(b)
         \/ ConnectionRefused(b) \/ WalletSends(b) \/ WalletRejects(b) \/ HashReturned(b)
         \/ HashLost(b) \/ AttachTransaction(b) \/ AttachFails(b) \/ ReconcileMarker(b)
         \/ ReloadTab(b)
  PROVE  /\ BroadcastInv'
         /\ marker[b] = "sent" /\ ~(shown /\ attached = b) => marker'[b] = "sent"
         /\ \A d \in Tabs \ {b} : marker'[d] = marker[d]
<1> DEFINE s == step[b]
           m == marker[b]
           n == sent[b]
<1>1. /\ TabHolds(b) /\ s \in BroadcastSteps /\ m \in {None, "pending", "sent"} /\ n \in Nat
      /\ None \notin {"pending", "sent"} /\ None \notin Tabs
  BY BroadcastAssumption DEF BroadcastInv, BroadcastTyped
<1>2. /\ step = [step EXCEPT ![b] = s] /\ marker = [marker EXCEPT ![b] = m]
      /\ sent = [sent EXCEPT ![b] = n]
  BY DEF BroadcastInv, BroadcastTyped
<1>3. \E place \in BroadcastSteps, mark \in {None, "pending", "sent"}, count \in Nat :
        /\ TabMoves(b, place, mark, count)
        /\ asking \ {b} = asking' \ {b}
        /\ UNCHANGED shown /\ (attached' = attached \/ attached \notin Tabs)
        /\ b \in asking' => mark = "pending" /\ count = 0 /\ place \in {"sending", "idle"}
        /\ place = "preparing" => mark = None
        /\ place = "connecting" => mark = "pending" /\ count = 0
        /\ place = "sending" => b \in asking'
        /\ place = "returned" => mark = "pending" /\ count = 1
        /\ count <= 1
        /\ count > 0 => mark # None \/ (shown /\ attached = b)
        /\ m = "sent" /\ ~(shown /\ attached = b) => mark = "sent"
  <2>1. CASE ConfirmSubmission(b)
    <3>1. PICK place \in {"attaching", "idle", "preparing"} :
            /\ place = IF StoredHash(b) THEN "attaching"
                       ELSE IF Ambiguous(b) THEN "idle" ELSE "preparing"
            /\ step' = [step EXCEPT ![b] = place]
      BY <2>1 DEF ConfirmSubmission, Goes
    <3>2. TabMoves(b, place, m, n) /\ UNCHANGED <<asking, attached, shown>>
      BY <1>2, <2>1, <3>1 DEF ConfirmSubmission, TabMoves
    <3>3. place = "preparing" => m = None
      BY <1>1, <3>1 DEF StoredHash, Ambiguous
    <3>4. place \in BroadcastSteps /\ s = "idle"
      BY <2>1, <3>1 DEF BroadcastSteps, ConfirmSubmission
    <3>5. b \in asking => place = "idle"
      BY <1>1, <3>1 DEF TabHolds, StoredHash, Ambiguous
    <3> QED
      BY <1>1, <3>1, <3>2, <3>3, <3>4, <3>5 DEF TabHolds
  <2>2. CASE PrepareSubmission(b)
    <3>1. TabMoves(b, "connecting", "pending", n) /\ UNCHANGED <<asking, attached, shown>>
          /\ s = "preparing" /\ ~shown /\ "connecting" \in BroadcastSteps
      BY <1>2, <2>2 DEF PrepareSubmission, TabMoves, Goes, Marks, BroadcastSteps
    <3> QED
      BY <1>1, <3>1 DEF TabHolds
  <2>3. CASE NotPrepared(b) \/ AttachFails(b) \/ ReloadTab(b) \/ AttachTransaction(b)
    <3>1. TabMoves(b, "idle", m, n) /\ UNCHANGED <<asking, shown>> /\ "idle" \in BroadcastSteps
          /\ (attached' = attached \/ attached = None)
      BY <1>2, <2>3 DEF NotPrepared, AttachFails, ReloadTab, AttachTransaction, TabMoves, Goes,
         BroadcastSteps
    <3> QED
      BY <1>1, <3>1 DEF TabHolds
  <2>4. CASE WalletConnected(b)
    <3>1. TabMoves(b, "sending", m, n) /\ UNCHANGED <<attached, shown>>
          /\ asking' = asking \cup {b} /\ s = "connecting" /\ "sending" \in BroadcastSteps
      BY <1>2, <2>4 DEF WalletConnected, TabMoves, Goes, BroadcastSteps
    <3> QED
      BY <1>1, <3>1 DEF TabHolds
  <2>5. CASE ConnectionRefused(b)
    <3>1. TabMoves(b, "idle", ClearedMarker(b), n) /\ UNCHANGED <<asking, attached, shown>>
          /\ s = "connecting" /\ "idle" \in BroadcastSteps
      BY <1>2, <2>5 DEF ConnectionRefused, TabMoves, Goes, BroadcastSteps
    <3> QED
      BY <1>1, <3>1 DEF TabHolds, ClearedMarker
  <2>6. CASE WalletSends(b)
    <3>1. PICK place \in BroadcastSteps :
            place = (IF s = "sending" THEN "returned" ELSE s)
      BY <1>1 DEF BroadcastSteps
    <3>2. TabMoves(b, place, m, n + 1) /\ asking' = asking \ {b} /\ UNCHANGED <<attached, shown>>
          /\ b \in asking
      BY <1>2, <2>6, <3>1 DEF WalletSends, TabMoves, BroadcastInv, BroadcastTyped
    <3>3. n + 1 = 1 /\ m = "pending" /\ n + 1 \in Nat /\ place \in {"returned", "idle"}
      BY <1>1, <3>1, <3>2 DEF TabHolds
    <3> QED
      BY <1>1, <3>1, <3>2, <3>3 DEF TabHolds
  <2>7. CASE WalletRejects(b)
    <3>1. PICK mark \in {ClearedMarker(b), m} :
               TabMoves(b, IF s = "sending" THEN "idle" ELSE s, mark, n)
      BY <1>2, <2>7 DEF WalletRejects, TabMoves, Goes, Marks
    <3>2. asking' = asking \ {b} /\ UNCHANGED <<attached, shown>> /\ b \in asking
          /\ "idle" \in BroadcastSteps
      BY <2>7 DEF WalletRejects, BroadcastSteps
    <3> QED
      BY <1>1, <3>1, <3>2 DEF TabHolds, ClearedMarker
  <2>8. CASE HashReturned(b)
    <3>1. TabMoves(b, "attaching", "sent", n) /\ UNCHANGED <<asking, attached, shown>>
          /\ s = "returned" /\ "attaching" \in BroadcastSteps
      BY <1>2, <2>8 DEF HashReturned, TabMoves, Goes, Marks, BroadcastSteps
    <3> QED
      BY <1>1, <3>1 DEF TabHolds
  <2>9. CASE HashLost(b)
    <3>1. TabMoves(b, "idle", m, n) /\ UNCHANGED <<asking, attached, shown>>
          /\ "idle" \in BroadcastSteps
      BY <1>2, <2>9 DEF HashLost, TabMoves, Goes, Marks, FailureKeeps, BroadcastSteps
    <3> QED
      BY <1>1, <3>1 DEF TabHolds
  <2>10. CASE ReconcileMarker(b)
    <3>1. TabMoves(b, s, None, n) /\ UNCHANGED <<asking, attached, shown>>
          /\ shown /\ attached = b /\ m = "sent"
      BY <1>2, <2>10 DEF ReconcileMarker, TabMoves, Marks, NamesStoredHash
    <3> QED
      BY <1>1, <3>1 DEF TabHolds
  <2> QED
    BY <2>1, <2>2, <2>3, <2>4, <2>5, <2>6, <2>7, <2>8, <2>9, <2>10
<1> HIDE DEF s, n
<1>4. BroadcastInv'
  BY <1>3, TabMovesAlone
<1>5. m = "sent" /\ ~(shown /\ attached = b) => marker'[b] = "sent"
  BY <1>3 DEF TabMoves, BroadcastInv, BroadcastTyped
<1>6. \A d \in Tabs \ {b} : marker'[d] = marker[d]
  BY <1>3 DEF TabMoves, BroadcastInv, BroadcastTyped
<1> QED
  BY <1>4, <1>5, <1>6

\* Every step keeps it.
LEMMA BroadcastStepInv ==
  ASSUME BroadcastInv, [BroadcastNext]_broadcastVars
  PROVE  /\ BroadcastInv'
         /\ \A b \in Tabs : marker[b] = "sent" /\ ~(shown /\ attached = b) => marker'[b] = "sent"
<1>1. CASE SubmissionObserved \/ UNCHANGED broadcastVars
  BY <1>1 DEF SubmissionObserved, broadcastVars, BroadcastInv, BroadcastTyped, TabHolds
<1>2. ASSUME NEW b \in Tabs,
             \/ ConfirmSubmission(b) \/ PrepareSubmission(b) \/ NotPrepared(b)
             \/ WalletConnected(b) \/ ConnectionRefused(b) \/ WalletSends(b) \/ WalletRejects(b)
             \/ HashReturned(b) \/ HashLost(b) \/ AttachTransaction(b) \/ AttachFails(b)
             \/ ReconcileMarker(b) \/ ReloadTab(b)
      PROVE  /\ BroadcastInv'
             /\ \A d \in Tabs : marker[d] = "sent" /\ ~(shown /\ attached = d) => marker'[d] = "sent"
  BY <1>2, TabStep
<1> QED
  BY <1>1, <1>2 DEF BroadcastNext

\* However often a user confirms, rejects and reloads, in however many tabs, and whatever answers
\* are lost: a tab has one transaction broadcast at most, does not forget it until the journal
\* shows it, and keeps its hash till then.
THEOREM BroadcastKeepsItsPromise == BroadcastSpec => BroadcastPromise
<1>1. BroadcastInv => OneBroadcastPerTab /\ BroadcastIsRemembered
  BY DEF BroadcastInv, TabHolds, OneBroadcastPerTab, BroadcastIsRemembered
<1>2. BroadcastInv /\ [BroadcastNext]_broadcastVars => BroadcastInv'
  BY BroadcastStepInv
<1>3. ASSUME BroadcastInv, [BroadcastNext]_broadcastVars
      PROVE  \A b \in Tabs : marker[b] = "sent" /\ ~(shown /\ attached = b) => marker'[b] = "sent"
  BY <1>3, BroadcastStepInv
<1> QED
  BY <1>1, <1>2, <1>3, BroadcastInitInv, PTL DEF BroadcastSpec, BroadcastPromise, HashIsKept

---------------------------------------------------------------------------
(***************************************************************************)
(* Every part keeps the types of its state, within its bounds.             *)
(***************************************************************************)

\* What the promise does not need of the submission's state: who is attached, and the bound on
\* confirmations.
BroadcastBounded ==
  asking \subseteq Tabs /\ attached \in Tabs \cup {None} /\ shown \in BOOLEAN /\ tries \in [Tabs -> 0 .. MaxTries]

LEMMA BroadcastBoundedStep ==
  ASSUME BroadcastBounded, [BroadcastNext]_broadcastVars
  PROVE  BroadcastBounded'
<1> USE DEF BroadcastBounded
<1>1. CASE SubmissionObserved \/ UNCHANGED broadcastVars
  BY <1>1 DEF SubmissionObserved, broadcastVars
<1>2. ASSUME NEW b \in Tabs, ConfirmSubmission(b) \/ ReloadTab(b)
      PROVE  BroadcastBounded'
  <2>1. tries[b] + 1 \in 0 .. MaxTries /\ tries' = [tries EXCEPT ![b] = tries[b] + 1]
    BY <1>2, BroadcastAssumption DEF ConfirmSubmission, ReloadTab
  <2> QED
    BY <1>2, <2>1 DEF ConfirmSubmission, ReloadTab
<1>3. ASSUME NEW b \in Tabs,
             \/ PrepareSubmission(b) \/ NotPrepared(b) \/ WalletConnected(b) \/ ConnectionRefused(b)
             \/ WalletSends(b) \/ WalletRejects(b) \/ HashReturned(b) \/ HashLost(b)
             \/ AttachTransaction(b) \/ AttachFails(b) \/ ReconcileMarker(b)
      PROVE  BroadcastBounded'
  BY <1>3 DEF PrepareSubmission, NotPrepared, WalletConnected, ConnectionRefused, WalletSends,
     WalletRejects, HashReturned, HashLost, AttachTransaction, AttachFails, ReconcileMarker
<1> QED
  BY <1>1, <1>2, <1>3 DEF BroadcastNext

\* The submission's state keeps its types, and a tab whose wallet asks for a transaction has
\* its marker.
THEOREM BroadcastTypesHold == BroadcastSpec => []BroadcastTypeOK
<1>1. BroadcastInit => BroadcastBounded
  <2>1. 0 \in 0 .. MaxTries
    BY BroadcastAssumption
  <2> QED
    BY <2>1 DEF BroadcastInit, BroadcastBounded
<1>2. BroadcastInv /\ BroadcastBounded => BroadcastTypeOK
  BY DEF BroadcastInv, BroadcastTyped, TabHolds, BroadcastBounded, BroadcastTypeOK
<1>3. BroadcastInv /\ [BroadcastNext]_broadcastVars => BroadcastInv'
  BY BroadcastStepInv
<1> QED
  BY <1>1, <1>2, <1>3, BroadcastInitInv, BroadcastBoundedStep, PTL DEF BroadcastSpec

---------------------------------------------------------------------------
\* The stages with a spinner.
Spinning ==
  {"discovering", "connecting", "creating-challenge", "awaiting-signature", "creating-session"}

LEMMA RunningStages ==
  /\ {StageOf(w) : w \in Awaits \ {"none"}} = Spinning
  /\ StageOf("load") = "discovering" /\ StageOf("discover") = "discovering"
  /\ StageOf("challenge") = "creating-challenge" /\ StageOf("sign") = "awaiting-signature"
  /\ StageOf("session") = "creating-session"
  /\ \A w \in WalletRequests \ {"sign"} : StageOf(w) = "connecting"
<1>1. /\ StageOf("load") = "discovering" /\ StageOf("discover") = "discovering"
      /\ StageOf("challenge") = "creating-challenge" /\ StageOf("sign") = "awaiting-signature"
      /\ StageOf("session") = "creating-session"
      /\ \A w \in WalletRequests \ {"sign"} : StageOf(w) = "connecting"
  BY DEF StageOf, WalletRequests, Prompts
<1>2. Awaits \ {"none"} = {"load", "discover", "challenge", "session", "sign"} \cup (WalletRequests \ {"sign"})
  BY DEF Awaits, WalletRequests, Prompts
<1>3. "chain" \in WalletRequests \ {"sign"}
  BY DEF WalletRequests, Prompts
<1> QED
  BY <1>1, <1>2, <1>3 DEF Spinning

\* The number of attempts is bounded, and what spins is awaited.
DialogKept ==
  /\ dialog.attempt <= MaxAttempts + (IF dialog.closed THEN 2 ELSE 1)
  /\ ~dialog.closed /\ Running =>
       /\ dialog.attempt \in Attempts
       /\ journey[dialog.attempt].await # "none"
       /\ StageOf(journey[dialog.attempt].await) = dialog.stage

\* A journey that ends with its attempt, or without, leaves no spinner behind.
LEMMA FailingStopsSpinning ==
  ASSUME SignInInv, DialogKept, NEW a \in Attempts, Fails(a)
  PROVE  DialogKept'
<1>1. dialog \in Dialog /\ journey \in [Attempts -> Journey] /\ MaxAttempts \in Nat /\ a \in 1 .. MaxAttempts
  BY SignInAssumption DEF SignInInv, SignInTyped, Attempts
<1>2. \A b \in Attempts : b # a => journey'[b] = journey[b]
  BY <1>1 DEF Fails, Ends
<1>3. CASE CurrentAttempt(a)
  <2>1. dialog' = [dialog EXCEPT !.stage = "failed", !.attempt = dialog.attempt + 1]
    BY <1>3 DEF Fails, FailureStage
  <2>2. dialog'.stage = "failed" /\ dialog'.attempt = a + 1 /\ ~dialog'.closed
    BY <1>1, <1>3, <2>1 DEF Dialog, CurrentAttempt
  <2>3. ~Running'
    BY <2>2, RunningStages DEF Running, Spinning
  <2> QED
    BY <1>1, <2>2, <2>3 DEF DialogKept
<1>4. CASE ~CurrentAttempt(a)
  <2>1. dialog' = dialog
    BY <1>4 DEF Fails
  <2> QED
    BY <1>2, <1>4, <2>1 DEF DialogKept, CurrentAttempt, Running
<1> QED
  BY <1>3, <1>4

LEMMA AttemptsAndBounds ==
  /\ MaxAttempts \in Nat /\ MaxAttempts > 0
  /\ \A a \in Attempts : a \in Nat /\ a <= MaxAttempts
  /\ Spinning \cap {"idle", "choosing-provider", "authenticated", "failed"} = {}
  BY SignInAssumption DEF Attempts, Spinning

\* A journey that goes on within its stage, or is not that of the dialog.
LEMMA SameStageSpins ==
  ASSUME SignInInv, DialogKept, NEW a \in Attempts, dialog' = dialog, NEW w \in Awaits,
         journey'[a].await = w, \A b \in Attempts : b # a => journey'[b] = journey[b],
         journey[a].await # "none" => w # "none" /\ StageOf(w) = StageOf(journey[a].await)
  PROVE  DialogKept'
  BY DEF DialogKept, Running

\* One that takes the dialog on to another stage.
LEMMA NextStageSpins ==
  ASSUME SignInInv, DialogKept, NEW a \in Attempts, CurrentAttempt(a), NEW w \in Awaits \ {"none"},
         journey'[a].await = w, dialog' = [dialog EXCEPT !.stage = StageOf(w)]
  PROVE  DialogKept'
<1>1. dialog \in Dialog
  BY DEF SignInInv, SignInTyped
<1>2. dialog'.attempt = a /\ ~dialog'.closed /\ dialog'.stage = StageOf(w)
  BY <1>1 DEF Dialog, CurrentAttempt
<1> QED
  BY <1>2, AttemptsAndBounds DEF DialogKept

\* Or to one without a spinner.
LEMMA StageIsReached ==
  ASSUME SignInInv, DialogKept, NEW s \in {"idle", "choosing-provider", "authenticated", "failed"},
         dialog' = [dialog EXCEPT !.stage = s]
  PROVE  DialogKept'
<1>1. dialog \in Dialog
  BY DEF SignInInv, SignInTyped
<1>2. dialog'.attempt = dialog.attempt /\ dialog'.closed = dialog.closed /\ dialog'.stage = s
  BY <1>1 DEF Dialog
<1> QED
  BY <1>2, AttemptsAndBounds, RunningStages DEF DialogKept, Running

\* An answer to the journey of an attempt.
LEMMA JourneySpins ==
  ASSUME SignInInv, DialogKept, NEW a \in Attempts, JourneyStep(a)
  PROVE  DialogKept'
<1>1. /\ dialog \in Dialog /\ journey \in [Attempts -> Journey]
      /\ journey[a] \in Journey /\ journey[a].await \in Awaits
  BY DEF SignInInv, SignInTyped, Journey
<1>2. CASE Fails(a)
  BY <1>2, FailingStopsSpinning
<1>3. CASE LoadAdapter(a) /\ ~Fails(a)
  <2>1. /\ journey[a].await = "load" /\ UNCHANGED dialog
        /\ journey' = [journey EXCEPT ![a] = NewJourney("discover", a, 1)]
    BY <1>3 DEF LoadAdapter
  <2>2. journey'[a].await = "discover" /\ \A b \in Attempts : b # a => journey'[b] = journey[b]
    BY <1>1, <2>1 DEF NewJourney
  <2> QED
    BY <2>1, <2>2, RunningStages, SameStageSpins DEF Awaits
<1>4. CASE Discover(a) /\ ~Fails(a)
  BY <1>4, StageIsReached DEF Discover
<1>5. CASE (Accounts(a) \/ ChainId(a) \/ SwitchChain(a) \/ AddChain(a) \/ ResultingChain(a)) /\ ~Fails(a)
  <2>1. /\ journey[a].await \in WalletRequests \ {"sign"} /\ UNCHANGED dialog
        /\ \E w \in {"chain", "code", "switch", "rechain", "add"} :
             \/ journey' = [journey EXCEPT ![a].await = w]
             \/ journey' = [journey EXCEPT ![a].await = w, ![a].address = wallet.account]
    BY <1>5 DEF Accounts, ChainId, SwitchChain, AddChain, ResultingChain, Answered, GoesOn, WalletRequests, Prompts
  <2>2. PICK w \in WalletRequests \ {"sign"} :
          journey'[a].await = w /\ \A b \in Attempts : b # a => journey'[b] = journey[b]
    BY <1>1, <2>1 DEF Journey, WalletRequests, Prompts
  <2>3. w \in Awaits /\ w # "none"
    BY <2>2 DEF Awaits, WalletRequests, Prompts
  <2> QED
    BY <2>1, <2>2, <2>3, RunningStages, SameStageSpins
<1>6. CASE Code(a) /\ ~Fails(a)
  <2>1. /\ CurrentAttempt(a) /\ dialog' = [dialog EXCEPT !.stage = "creating-challenge"]
        /\ journey' = [journey EXCEPT ![a].await = "challenge"]
    BY <1>6 DEF Code, GoesOn
  <2>2. journey'[a].await = "challenge" /\ "challenge" \in Awaits \ {"none"}
    BY <1>1, <2>1 DEF Journey, Awaits
  <2> QED
    BY <2>1, <2>2, RunningStages, NextStageSpins
<1>7. CASE ChallengeAnswer(a) /\ ~Fails(a)
  <2>1. PICK address \in Wallets :
          /\ CurrentAttempt(a) /\ dialog' = [dialog EXCEPT !.stage = "awaiting-signature"]
          /\ journey' = [journey EXCEPT ![a].await = "sign", ![a].challenge = address,
                            ![a].generation = adapter.generation + 1]
    BY <1>7 DEF ChallengeAnswer
  <2>2. journey'[a].await = "sign" /\ "sign" \in Awaits \ {"none"}
    BY <1>1, <2>1 DEF Journey, Awaits, WalletRequests, Prompts
  <2> QED
    BY <2>1, <2>2, RunningStages, NextStageSpins
<1>8. CASE Sign(a) /\ ~Fails(a)
  <2>1. /\ CurrentAttempt(a) /\ dialog' = [dialog EXCEPT !.stage = "creating-session"]
        /\ journey' = [journey EXCEPT ![a].await = "session", ![a].signer = adapter.address]
    BY <1>8 DEF Sign
  <2>2. journey'[a].await = "session" /\ "session" \in Awaits \ {"none"}
    BY <1>1, <2>1 DEF Journey, Awaits
  <2> QED
    BY <2>1, <2>2, RunningStages, NextStageSpins
<1>9. CASE SessionAnswer(a) /\ ~Fails(a)
  <2>1. /\ Ends(a)
        /\ IF CurrentAttempt(a) THEN dialog' = [dialog EXCEPT !.stage = "authenticated"]
                                ELSE UNCHANGED dialog
    BY <1>9 DEF SessionAnswer
  <2>2. CASE CurrentAttempt(a)
    BY <2>1, <2>2, StageIsReached
  <2>3. CASE ~CurrentAttempt(a)
    <3>1. \A b \in Attempts : b # a => journey'[b] = journey[b]
      BY <1>1, <2>1 DEF Ends
    <3> QED
      BY <2>1, <2>3, <3>1 DEF DialogKept, CurrentAttempt, Running
  <2> QED
    BY <2>2, <2>3
<1> QED
  BY <1>2, <1>3, <1>4, <1>5, <1>6, <1>7, <1>8, <1>9 DEF JourneyStep, RequestFails

LEMMA DialogKeptStep ==
  ASSUME SignInInv, DialogKept, [SignInNext]_signInVars
  PROVE  DialogKept'
<1>1. /\ dialog \in Dialog /\ journey \in [Attempts -> Journey] /\ MaxAttempts \in Nat
  BY SignInAssumption DEF SignInInv, SignInTyped
<1>2. CASE StartSignIn \/ SelectProvider
  <2>1. PICK a \in Attempts, w \in {"load", "accounts"}, s \in Stages, n \in Nat, g \in Nat :
          /\ a = dialog.attempt + 1 /\ ~dialog.closed /\ s = StageOf(w)
          /\ dialog' = [dialog EXCEPT !.stage = s, !.attempt = a]
          /\ journey' = [journey EXCEPT ![a] = NewJourney(w, n, g)]
    <3>1. CASE StartSignIn
      BY <3>1, RunningStages DEF StartSignIn, Stages
    <3>2. CASE SelectProvider
      <4>1. adapter.start \in Nat /\ adapter.generation + 1 \in Nat
        BY SignInAssumption DEF SignInInv, SignInTyped, Adapter
      <4>2. "accounts" \in WalletRequests \ {"sign"} /\ "connecting" \in Stages
        BY DEF WalletRequests, Prompts, Stages
      <4> QED
        BY <3>2, <4>1, <4>2, RunningStages DEF SelectProvider
    <3> QED
      BY <1>2, <3>1, <3>2
  <2>2. dialog'.attempt = a /\ ~dialog'.closed /\ dialog'.stage = s /\ journey'[a].await = w
    BY <1>1, <2>1 DEF Dialog, NewJourney
  <2> QED
    BY <2>1, <2>2, AttemptsAndBounds DEF DialogKept
<1>3. CASE CloseDialog
  <2>1. dialog'.closed /\ dialog'.attempt = dialog.attempt + 1 /\ ~dialog.closed
    BY <1>1, <1>3 DEF CloseDialog, Dialog
  <2> QED
    BY <1>1, <2>1 DEF DialogKept, Dialog
<1>4. CASE OpenDialog
  <2>1. ~dialog'.closed /\ dialog'.stage = "idle" /\ dialog'.attempt = dialog.attempt /\ dialog.attempt < MaxAttempts
    BY <1>1, <1>4 DEF OpenDialog, Dialog
  <2>2. ~Running'
    BY <2>1, RunningStages DEF Running, Spinning
  <2> QED
    BY <1>1, <2>1, <2>2 DEF DialogKept, Dialog
<1>5. CASE WalletChanges \/ UNCHANGED signInVars
  BY <1>5 DEF WalletChanges, signInVars, DialogKept, Running
<1>6. ASSUME NEW a \in Attempts, JourneyStep(a) PROVE DialogKept'
  BY <1>6, JourneySpins
<1> QED
  BY <1>2, <1>3, <1>4, <1>5, <1>6 DEF SignInNext

\* The sign-in dialog keeps its types; an open dialog that shows a spinner is that of a journey
\* which awaits something in just that stage, so no answer leaves it spinning for nothing.
THEOREM SignInTypesHold == SignInSpec => []SignInTypeOK
<1>1. SignInInit => WalletTyped
  BY DEF SignInInit, WalletTyped
<1>2. SignInInit => DialogKept
  BY AttemptsAndBounds, RunningStages DEF SignInInit, DialogKept, Running
<1>3. SignInInv /\ DialogKept => SignInTypeOK
  <2> SUFFICES ASSUME SignInInv, DialogKept PROVE SignInTypeOK
    OBVIOUS
  <2>1. SignInTyped /\ dialog.attempt \in 0 .. MaxAttempts + 2
    BY AttemptsAndBounds DEF SignInInv, SignInTyped, Dialog, DialogKept
  <2>2. dialog \in [stage : Stages, attempt : 0 .. MaxAttempts + 2, closed : BOOLEAN]
    BY <2>1 DEF SignInTyped, Dialog
  <2> QED
    BY <2>1, <2>2 DEF SignInTyped, SignInTypeOK, Adapter, Journey, DialogKept
<1> QED
  BY <1>1, <1>2, <1>3, SignInInitInv, SignInStepInv, WalletTypedStep, DialogKeptStep, PTL DEF SignInSpec

---------------------------------------------------------------------------
\* A flight is of the page's attempt and has its call; a running state has its flight.
HasCall(k) == \E c \in calls : c.kind = k /\ c.attempt = flight[k]

FlightKept ==
  /\ flight \in [Kinds -> 0 .. MaxRevision]
  /\ \A k \in Kinds : flight[k] # 0 => flight[k] = page.revision /\ HasCall(k)
  /\ page.state = "restoring" => flight["restore"] # 0
  /\ page.state = "creating-session" => flight["create"] # 0
  /\ page.state = "signing-out" => flight["signOut"] # 0

RunningStates == {"restoring", "creating-session", "signing-out"}

LEMMA RevisionsAreNumbers ==
  ASSUME ControllerInv
  PROVE  /\ page \in Page /\ page.revision \in Nat /\ MaxRevision \in Nat /\ calls \subseteq Call
         /\ 0 \in 0 .. MaxRevision
         /\ page.revision < MaxRevision => Attempt \in 0 .. MaxRevision /\ Attempt # 0
  BY ControllerAssumption DEF ControllerInv, ControllerTyped, Page, Attempt

\* Starting one kind ends the flights of the others.
LEMMA StartedFlight ==
  ASSUME ControllerInv, NEW k \in Kinds, NEW token, NEW held,
         NEW s \in RunningStates,
         s = (CASE k = "restore" -> "restoring" [] k = "create" -> "creating-session" [] k = "signOut" -> "signing-out"),
         Start(k, token, s, held)
  PROVE  FlightKept'
<1>1. /\ page \in Page /\ Attempt \in 0 .. MaxRevision /\ Attempt # 0 /\ 0 \in 0 .. MaxRevision
  BY RevisionsAreNumbers DEF Start
<1>2. page' = [page EXCEPT !.state = s, !.token = held, !.revision = Attempt]
  BY DEF Start
<1>3. page'.state = s /\ page'.revision = Attempt
  BY <1>1, <1>2 DEF Page
<1>4. flight' = [x \in Kinds |-> IF x = k THEN Attempt ELSE 0]
  BY DEF Start, NoFlight
<1>5. \E c \in calls' : c.kind = k /\ c.attempt = Attempt
  <2>1. PICK c : c = [kind |-> k, attempt |-> Attempt, token |-> token, result |-> "waiting",
                      held |-> page.token, heldPersistence |-> page.persistence, shown |-> page.shown]
    OBVIOUS
  <2>2. c \in calls'
    BY <2>1, Zenon DEF Start
  <2>3. c.kind = k /\ c.attempt = Attempt
    BY <2>1
  <2> QED
    BY <2>2, <2>3
<1> QED
  BY <1>1, <1>3, <1>4, <1>5 DEF FlightKept, HasCall, Kinds, RunningStates

\* No flight is left, and no state that needs one.
LEMMA FlightsEnd ==
  ASSUME ControllerInv, flight' = NoFlight, page'.state \notin RunningStates
  PROVE  FlightKept'
<1>1. 0 \in 0 .. MaxRevision
  BY RevisionsAreNumbers
<1> QED
  BY <1>1 DEF FlightKept, NoFlight, RunningStates, Kinds

\* A call that is served is still there.
LEMMA ServedFlight ==
  ASSUME FlightKept, UNCHANGED <<page, flight>>,
         \A c \in calls : \E d \in calls' : d.kind = c.kind /\ d.attempt = c.attempt
  PROVE  FlightKept'
<1>1. ASSUME NEW k \in Kinds, HasCall(k) PROVE HasCall(k)'
  BY <1>1 DEF HasCall
<1> QED
  BY <1>1 DEF FlightKept

\* An answer that is taken moves the page on from the state of its flight.
LEMMA AnsweredFlight ==
  ASSUME ControllerInv, FlightKept, NEW c \in calls, ControllerAnswer(c)
  PROVE  FlightKept'
<1>1. /\ page \in Page /\ c \in Call /\ c.kind \in Kinds /\ c.attempt # 0 /\ calls' = calls \ {c}
      /\ flight' = IF flight[c.kind] = c.attempt THEN [flight EXCEPT ![c.kind] = 0] ELSE flight
      /\ 0 \in 0 .. MaxRevision
  BY RevisionsAreNumbers DEF ControllerAnswer, Settle, Call
<1>2. \/ UNCHANGED page /\ ~Current(c)
      \/ Current(c) /\ page'.revision = page.revision /\ page'.state \notin RunningStates
  <2>1. CASE Ignored(c)
    BY <2>1 DEF Ignored
  <2>2. CASE RestoreTaken(c)
    <3>1. \/ page' = [page EXCEPT !.state = "authenticated", !.shown = c.token]
          \/ Clear(page)
          \/ page' = [page EXCEPT !.state = "unavailable-restore"]
      BY <1>1, <2>2 DEF RestoreTaken, ControllerAnswer, Call, Results
    <3> QED
      BY <1>1, <2>2, <3>1 DEF RestoreTaken, Clear, Page, RunningStates
  <2>3. CASE CreateTaken(c) /\ c.result = "ok"
    <3>1. PICK kept \in {"session", "memory"} :
            page' = [page EXCEPT !.state = "authenticated", !.token = c.token,
                                 !.shown = c.token, !.persistence = kept]
      BY <2>3 DEF CreateTaken, SessionHeld
    <3> QED
      BY <1>1, <2>3, <3>1 DEF CreateTaken, Page, RunningStates
  <2>4. CASE CreateTaken(c) /\ c.result # "ok"
    <3>1. PICK s \in {"authenticated", "anonymous"} :
            page' = [page EXCEPT !.token = c.held, !.persistence = c.heldPersistence,
                        !.shown = c.shown, !.state = s]
      BY <2>4 DEF CreateTaken
    <3> QED
      BY <1>1, <2>4, <3>1 DEF CreateTaken, Page, RunningStates
  <2>5. CASE SignOutTaken(c)
    <3>1. Clear(page) \/ page' = [page EXCEPT !.state = "unavailable-sign-out"]
      BY <2>5 DEF SignOutTaken
    <3> QED
      BY <1>1, <2>5, <3>1 DEF SignOutTaken, Clear, Page, RunningStates
  <2> QED
    BY <2>1, <2>2, <2>3, <2>4, <2>5 DEF ControllerAnswer
<1>3. page'.revision = page.revision
  BY <1>2
<1>4. flight' \in [Kinds -> 0 .. MaxRevision]
  BY <1>1 DEF FlightKept
<1>5. ASSUME NEW k \in Kinds, flight'[k] # 0
      PROVE  flight'[k] = page'.revision /\ HasCall(k)'
  <2>1. flight'[k] = flight[k] /\ ~(k = c.kind /\ flight[k] = c.attempt)
    BY <1>1, <1>5 DEF FlightKept
  <2>2. PICK d \in calls : d.kind = k /\ d.attempt = flight[k]
    BY <1>5, <2>1 DEF FlightKept, HasCall
  <2>3. d \in calls'
    BY <1>1, <2>1, <2>2
  <2> QED
    BY <1>3, <1>5, <2>1, <2>2, <2>3 DEF FlightKept, HasCall
<1>6. CASE UNCHANGED page /\ ~Current(c)
  <2>1. page.state \in RunningStates => c.attempt # page.revision
    BY <1>6 DEF Current, RunningStates
  <2>2. ASSUME NEW k \in Kinds, flight[k] # 0, page.state \in RunningStates
        PROVE  flight'[k] = flight[k]
    BY <1>1, <2>1, <2>2 DEF FlightKept
  <2> QED
    BY <1>4, <1>5, <1>6, <2>2 DEF FlightKept, RunningStates, Kinds
<1>7. CASE page'.state \notin RunningStates
  BY <1>4, <1>5, <1>7 DEF FlightKept, RunningStates
<1> QED
  BY <1>2, <1>6, <1>7

LEMMA FlightKeptStep ==
  ASSUME ControllerInv, FlightKept, [ControllerNext]_controllerVars
  PROVE  FlightKept'
<1>1. page \in Page
  BY RevisionsAreNumbers
<1>2. CASE Restore
  <2>1. CASE Start("restore", storage, "restoring", storage)
    BY <2>1, StartedFlight DEF Kinds, RunningStates
  <2>2. CASE flight' = NoFlight /\ page' = [page EXCEPT !.state = "anonymous", !.token = None, !.shown = None,
                                !.revision = Attempt]
    BY <1>1, <2>2, FlightsEnd DEF Page, RunningStates
  <2>3. CASE flight' = NoFlight /\ Clear([page EXCEPT !.revision = Attempt])
    BY <1>1, <2>3, FlightsEnd DEF Page, RunningStates, Clear
  <2> QED
    BY <1>2, <2>1, <2>2, <2>3 DEF Restore, Invalidate
<1>3. CASE CreateSession
  BY <1>3, StartedFlight DEF CreateSession, Kinds, RunningStates
<1>4. CASE SignOut
  <2>1. CASE Start("signOut", page.token, "signing-out", page.token)
    BY <2>1, StartedFlight DEF Kinds, RunningStates
  <2>2. CASE flight' = NoFlight /\ page' = [page EXCEPT !.state = "anonymous", !.revision = Attempt]
    BY <1>1, <2>2, FlightsEnd DEF Page, RunningStates
  <2> QED
    BY <1>4, <2>1, <2>2 DEF SignOut, Invalidate
<1>5. CASE ForgetBrowser
  BY <1>1, <1>5, FlightsEnd DEF ForgetBrowser, Invalidate, ForgetAuthority, Clear, Page, RunningStates
<1>6. CASE CancelPending
  BY <1>1, <1>6, FlightsEnd DEF CancelPending, Invalidate, CancelledState, Page, RunningStates
<1>7. CASE Close
  BY <1>1, <1>7, FlightsEnd DEF Close, Page, RunningStates
<1>8. CASE Reload
  BY <1>8, FlightsEnd DEF Reload, FreshPage, RunningStates
<1>9. ASSUME NEW c \in calls, Serve(c) \/ FailCall(c) PROVE FlightKept'
  <2>1. c \in Call /\ UNCHANGED <<page, flight>>
    BY <1>9, RevisionsAreNumbers DEF Serve, FailCall
  <2>2. PICK r \in Results : \E b : \E d \in {[c EXCEPT !.result = r], [c EXCEPT !.token = b, !.result = r]} :
          calls' = (calls \ {c}) \cup {d}
    BY <1>9, <2>1 DEF Serve, FailCall, Results
  <2>3. PICK d : calls' = (calls \ {c}) \cup {d} /\ d.kind = c.kind /\ d.attempt = c.attempt
    BY <2>1, <2>2 DEF Call
  <2> QED
    BY <2>1, <2>3, ServedFlight
<1>10. ASSUME NEW c \in calls, ControllerAnswer(c) PROVE FlightKept'
  BY <1>10, AnsweredFlight
<1>11. CASE (\E t \in Tokens : Expire(t)) \/ UNCHANGED controllerVars
  BY <1>11, ServedFlight DEF Expire, controllerVars
<1> QED
  BY <1>2, <1>3, <1>4, <1>5, <1>6, <1>7, <1>8, <1>9, <1>10, <1>11 DEF ControllerNext, ControllerStep

\* The session controller keeps its types; while it says that it restores, creates or signs out,
\* the call it waits for is under way, and no flight is of an older attempt.
THEOREM ControllerTypesHold == ControllerSpec => []ControllerTypeOK
<1>1. ControllerInit => FlightKept
  <2>1. 0 \in 0 .. MaxRevision
    BY ControllerAssumption
  <2> QED
    BY <2>1 DEF ControllerInit, FlightKept, FreshPage, NoFlight, Kinds
<1>2. ControllerInv /\ FlightKept => ControllerTypeOK
  BY DEF ControllerInv, ControllerTyped, FlightKept, HasCall, ControllerTypeOK
<1> QED
  BY <1>1, <1>2, ControllerInitInv, ControllerStepInv, FlightKeptStep, PTL DEF ControllerSpec
=============================================================================
