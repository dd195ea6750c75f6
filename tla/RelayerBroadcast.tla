-------------------------- MODULE RelayerBroadcast --------------------------
(***************************************************************************)
(* The relayer's transactions, step by step: SUBMIT_RELAYER signs and      *)
(* persists one (signRelayerTransaction in live-runtime.ts,                *)
(* persistRelayerTransaction in postgres.ts), and                          *)
(* BROADCAST_RELAYER_TRANSACTION claims the single broadcast attempt,      *)
(* sends the bytes, and marks them as broadcast.  RunPipeline has each of  *)
(* the two handlers as one step; here other workers, crashes and the       *)
(* network come between any two of their calls.                            *)
(*                                                                         *)
(* The bytes of a transaction never change once persisted, so a run stands *)
(* for its transaction.  All transactions of the relayer's account are the *)
(* relayer's, so the network's pending nonce is the number of those it has *)
(* taken.                                                                  *)
(***************************************************************************)
EXTENDS RunPipeline

VARIABLES
  transaction,  \* the row of a run in relayer_transactions
  inFlight,     \* runs whose transaction was sent and may still arrive
  network,      \* runs whose transaction the network has taken
  sends,        \* history: how often a run's transaction was sent
  step          \* how far a worker is in a relayer handler

relayerVars == <<transaction, inFlight, network, sends, step>>

RelayerKinds == {"SUBMIT_RELAYER", "BROADCAST_RELAYER_TRANSACTION"}

\* broadcast_attempted_at and broadcast_at are set in this order.
Progress == {"none", "signed", "attempted", "broadcast"}

Places == {"start", "sign", "persist", "claim", "reread", "resolve", "send",
           "answer", "mark", "return"}

Begin == [at |-> "start", nonce |-> 0]

\* Types of the state; a worker that is not inside a relayer handler is at its
\* start, and only persisted transactions were ever sent.
RelayerTypeOK ==
  /\ PipelineTypeOK
  /\ transaction \in [Runs -> [status : Progress, nonce : Nat]]
  /\ inFlight \cup network \subseteq {r \in Runs : transaction[r].status # "none"}
  /\ sends \in [Runs -> Nat]
  /\ step \in [Workers -> [at : Places, nonce : Nat]]
  /\ \A w \in Workers : worker[w].pc # "running" => step[w] = Begin

RelayerInit ==
  /\ PipelineInit
  /\ transaction = [r \in Runs |-> [status |-> "none", nonce |-> 0]]
  /\ inFlight = {}
  /\ network = {}
  /\ sends = [r \in Runs |-> 0]
  /\ step = [w \in Workers |-> Begin]

---------------------------------------------------------------------------
(* Steps of a handler.                                                     *)

Handling(w, kinds) == worker[w].pc = "running" /\ KindOf[worker[w].cmd] \in kinds

RunAt(w) == RunOf[worker[w].cmd]

\* The checks of the snapshot at the start of a handler: the manifest's mode and
\* the preflight evidence.
ChecksPass(w) ==
  ModeOf[RunAt(w)] = "relayer" /\ "preflight-evidence" \in view[w]

Proceed(w, p) ==
  /\ step' = [step EXCEPT ![w].at = p]
  /\ UNCHANGED pipelineVars

PendingNonce == Cardinality(network)

FindForRun(w) ==
  /\ Handling(w, {"SUBMIT_RELAYER"}) /\ step[w].at = "start"
  /\ ChecksPass(w) /\ ~Terminal(Context(w).events)
  /\ Proceed(w, IF transaction[RunAt(w)].status = "none" THEN "sign" ELSE "return")
  /\ UNCHANGED <<transaction, inFlight, network, sends>>

Sign(w) ==
  /\ step[w].at = "sign"
  /\ step' = [step EXCEPT ![w] = [at |-> "persist", nonce |-> PendingNonce]]
  /\ UNCHANGED <<pipelineVars, transaction, inFlight, network, sends>>

\* Fault: no unique key on the account's nonce.
PersistAnyNonce(w) ==
  /\ step[w].at = "persist"
  /\ transaction[RunAt(w)].status = "none"
  /\ transaction' = [transaction EXCEPT ![RunAt(w)] = [status |-> "signed", nonce |-> step[w].nonce]]
  /\ Proceed(w, "return")
  /\ UNCHANGED <<inFlight, network, sends>>

\* One row per run and one per nonce; a row that is there must be the same.
Persist(w) ==
  /\ step[w].at = "persist"
  /\ LET r == RunAt(w) IN
     \/ /\ transaction[r].status = "none"
        /\ \A q \in Runs : transaction[q].status # "none" => transaction[q].nonce # step[w].nonce
        /\ transaction' = [transaction EXCEPT ![r] = [status |-> "signed", nonce |-> step[w].nonce]]
     \/ /\ transaction[r].status # "none" /\ transaction[r].nonce = step[w].nonce
        /\ UNCHANGED transaction
  /\ Proceed(w, "return")
  /\ UNCHANGED <<inFlight, network, sends>>

\* What the row tells the broadcast to do.
PlaceFor(status) ==
  CASE status = "signed"    -> "claim"
    [] status = "attempted" -> "resolve"
    [] status = "broadcast" -> "return"

FindToBroadcast(w) ==
  /\ Handling(w, {"BROADCAST_RELAYER_TRANSACTION"}) /\ step[w].at = "start" /\ ChecksPass(w)
  /\ transaction[RunAt(w)].status # "none"
  /\ Proceed(w, PlaceFor(transaction[RunAt(w)].status))
  /\ UNCHANGED <<transaction, inFlight, network, sends>>

\* Fault: the row that was read is trusted, the update is unconditional.
ClaimAttemptAlways(w) ==
  /\ step[w].at = "claim"
  /\ transaction' = [transaction EXCEPT ![RunAt(w)].status = "attempted"]
  /\ Proceed(w, "send")
  /\ UNCHANGED <<inFlight, network, sends>>

\* claimRelayerBroadcastAttempt: the update finds the attempt unclaimed, or not.
ClaimAttempt(w) ==
  /\ step[w].at = "claim"
  /\ IF transaction[RunAt(w)].status = "signed"
     THEN /\ transaction' = [transaction EXCEPT ![RunAt(w)].status = "attempted"]
          /\ Proceed(w, "send")
     ELSE UNCHANGED transaction /\ Proceed(w, "reread")
  /\ UNCHANGED <<inFlight, network, sends>>

Reread(w) ==
  /\ step[w].at = "reread" /\ transaction[RunAt(w)].status \in {"attempted", "broadcast"}
  /\ Proceed(w, PlaceFor(transaction[RunAt(w)].status))
  /\ UNCHANGED <<transaction, inFlight, network, sends>>

Send(w) ==
  /\ step[w].at = "send"
  /\ inFlight' = inFlight \cup {RunAt(w)}
  /\ sends' = [sends EXCEPT ![RunAt(w)] = @ + 1]
  /\ Proceed(w, "answer")
  /\ UNCHANGED <<transaction, network>>

\* The network answers with the hash of a transaction it has taken.
Answered(w) ==
  /\ step[w].at = "answer" /\ RunAt(w) \in network
  /\ Proceed(w, "mark")
  /\ UNCHANGED <<transaction, inFlight, network, sends>>

\* Fault: a lookup that fails counts as a recorded transaction.
ResolveAnything(w) ==
  /\ step[w].at = "resolve"
  /\ Proceed(w, "mark")
  /\ UNCHANGED <<transaction, inFlight, network, sends>>

\* resolveRecordedTransaction finds only what the network has.
Resolve(w) ==
  /\ step[w].at = "resolve" /\ RunAt(w) \in network
  /\ Proceed(w, "mark")
  /\ UNCHANGED <<transaction, inFlight, network, sends>>

Mark(w) ==
  /\ step[w].at = "mark" /\ transaction[RunAt(w)].status \in {"attempted", "broadcast"}
  /\ transaction' = [transaction EXCEPT ![RunAt(w)].status = "broadcast"]
  /\ Proceed(w, "return")
  /\ UNCHANGED <<inFlight, network, sends>>

Leave(w) == step' = [step EXCEPT ![w] = Begin]

\* Fault: a persisted transaction is reported as submitted.
SubmitReportsEarly(w) ==
  /\ Handling(w, {"SUBMIT_RELAYER"}) /\ step[w].at = "return"
  /\ Return(w, Done(<<Effect("REQUEST_SUBMITTED")>>, {}, {"BROADCAST_RELAYER_TRANSACTION"}))
  /\ Leave(w)
  /\ UNCHANGED <<transaction, inFlight, network, sends>>

SubmitReturns(w) ==
  /\ Handling(w, {"SUBMIT_RELAYER"}) /\ step[w].at = "return"
  /\ Return(w, Done(<<>>, {}, {"BROADCAST_RELAYER_TRANSACTION"}))
  /\ Leave(w)
  /\ UNCHANGED <<transaction, inFlight, network, sends>>

\* Fault: a repetition that finds the work done has nothing to report.
BroadcastReportsOnce(w) ==
  /\ Handling(w, {"BROADCAST_RELAYER_TRANSACTION"}) /\ step[w].at = "return"
  /\ Return(w, Done(IF worker[w].token = 1 THEN <<Effect("REQUEST_SUBMITTED")>> ELSE <<>>,
                    {}, {"POLL_TRANSACTION_RECEIPT"}))
  /\ Leave(w)
  /\ UNCHANGED <<transaction, inFlight, network, sends>>

BroadcastReturns(w) ==
  /\ Handling(w, {"BROADCAST_RELAYER_TRANSACTION"}) /\ step[w].at = "return"
  /\ Return(w, Done(Unless(Context(w), "REQUEST_SUBMITTED"), {}, {"POLL_TRANSACTION_RECEIPT"}))
  /\ Leave(w)
  /\ UNCHANGED <<transaction, inFlight, network, sends>>

\* Failures that are final at once: the wrong mode, the relayer's policy, its
\* quota, and an attempt whose transaction a node does not know.
FinalHere(w) ==
  \/ step[w].at = "start" /\ ModeOf[RunAt(w)] # "relayer"
  \/ step[w].at \in {"sign", "persist", "resolve"}

\* Any call may fail, before or after it took effect.
Break(w) ==
  /\ Handling(w, RelayerKinds)
  /\ Fail(w, Throw("retry")) \/ (FinalHere(w) /\ Fail(w, Throw("terminal")))
  /\ Leave(w)
  /\ UNCHANGED <<transaction, inFlight, network, sends>>

---------------------------------------------------------------------------
(* The whole system.                                                       *)

\* A transaction that was sent arrives, possibly long after its sender gave up.
Arrive(r) ==
  /\ r \in inFlight /\ transaction[r].nonce = PendingNonce
  /\ inFlight' = inFlight \ {r}
  /\ network' = network \cup {r}
  /\ UNCHANGED <<pipelineVars, transaction, sends, step>>

RelayerTurn(w) ==
  \/ FindForRun(w) \/ Sign(w) \/ Persist(w)
  \/ FindToBroadcast(w) \/ ClaimAttempt(w) \/ Reread(w) \/ Resolve(w)
  \/ Send(w) \/ Answered(w) \/ Mark(w)
  \/ SubmitReturns(w) \/ BroadcastReturns(w) \/ Break(w)

RelayerNext ==
  \/ Surroundings /\ UNCHANGED relayerVars
  \/ \E r \in Runs : Arrive(r)
  \/ \E w \in Workers :
       \/ RelayerTurn(w)
       \/ ~Handling(w, RelayerKinds) /\ PipelineTurn(w) /\ UNCHANGED relayerVars
       \/ CrashTurn(w) /\ Leave(w) /\ UNCHANGED <<transaction, inFlight, network, sends>>

RelayerSpec == RelayerInit /\ [][RelayerNext]_<<pipelineVars, relayerVars>>

---------------------------------------------------------------------------
(* Properties.                                                             *)

\* "Once an attempt exists, automatic recovery never calls sendRawTransaction
\* again" (docs/slices/008): a run's transaction is sent at most once, after its
\* attempt was recorded, whoever crashes, overtakes or repeats whom.
SentOnceAfterAttempt ==
  \A r \in Runs :
    /\ sends[r] <= 1
    /\ sends[r] = 1 => transaction[r].status \in {"attempted", "broadcast"}

\* A relayer run says that its request is submitted only when the network has
\* taken the transaction (broadcast_at and REQUEST_SUBMITTED follow an answer or a
\* lookup of the hash).
SubmittedIsTaken ==
  \A r \in Runs :
    /\ transaction[r].status = "broadcast" => r \in network
    /\ ModeOf[r] = "relayer" /\ 3 \in Reached(journal[r]) => r \in network

\* A transaction that was persisted and is not taken yet is the next one of the
\* account: no other run of the relayer can ever outrun it (the nonce read in
\* signRelayerTransaction and the unique key on chain, address and nonce).
UntakenIsNext ==
  \A r \in Runs :
    transaction[r].status # "none" /\ r \notin network => transaction[r].nonce = PendingNonce

\* A transaction the network has taken is never forgotten by an open run: the
\* run is submitted, or its broadcast command can be claimed again to observe it.
TakenIsFollowed ==
  \A r \in Runs :
    r \in network /\ ~Terminal(journal[r]) =>
      \/ 3 \in Reached(journal[r])
      \/ \E c \in OfKind("BROADCAST_RELAYER_TRANSACTION") :
           /\ RunOf[c] = r /\ cmd[c].status \in {"queued", "leased"}
           /\ Reclaimable(c)

\* The two handlers, taken apart, do what RunPipeline says of them.
ImplementsPipeline == PipelineSpec
=============================================================================
