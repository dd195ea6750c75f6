-------------------------- MODULE RunPipelineProofs --------------------------
(***************************************************************************)
(* Proofs about RunPipeline for any runs, commands and workers.  Handlers  *)
(* and API use the queue as it allows, so what is proved of the queue      *)
(* holds of the pipeline; on that rests what runs claim, what is persisted *)
(* for them and which commands are scheduled.                              *)
(*                                                                         *)
(* Then RelayerBroadcast: a transaction is sent at most once, an untaken   *)
(* one is the account's next, what a run reports the network has taken,    *)
(* and the handlers taken apart implement RunPipeline's.                   *)
(***************************************************************************)
EXTENDS RelayerBroadcast, CommandQueueProofs

---------------------------------------------------------------------------
(* Handlers end in one of the known results.                               *)

\* What a handler may end with.
Result == [throws : Failure \cup {"none"}, events : HandlerOutcomes,
           adds : SUBSET Evidence, next : SUBSET Kinds]

LEMMA ThrowIsResult == ASSUME NEW f \in Failure PROVE Throw(f) \in Result
  BY DEF Throw, Result, HandlerOutcomes

LEMMA DoneIsResult ==
  ASSUME NEW events \in HandlerOutcomes, NEW adds \in SUBSET Evidence, NEW next \in SUBSET Kinds
  PROVE  Done(events, adds, next) \in Result
  BY DEF Done, Result

Stages == {"PREFLIGHT_ACCEPTED", "REQUEST_SUBMITTED", "ROUND_FINALIZED",
           "PROOF_AVAILABLE", "PROOF_VERIFIED"}

LEMMA OutcomeForms ==
  /\ <<>> \in HandlerOutcomes
  /\ <<[type |-> "RUN_FAILED", info |-> "preflight"]>> \in HandlerOutcomes
  /\ \A t \in Stages : <<Effect(t)>> \in HandlerOutcomes
  /\ \A v \in Verdicts : /\ ReplayEffects(v) \in HandlerOutcomes
                         /\ <<[type |-> "CONSUMER_VERIFIED", info |-> v]>> \in HandlerOutcomes
  /\ \A x : \A t \in Stages : Unless(x, t) \in HandlerOutcomes
  BY DEF HandlerOutcomes, Stages, Unless

\* Every handler, whatever its snapshot shows.
LEMMA HandlerResults ==
  ASSUME NEW kind \in Kinds, NEW x
  PROVE  Handle(kind, x) \subseteq Result
<1> USE ThrowIsResult, DoneIsResult, OutcomeForms DEF Failure, Evidence, Kinds, SubmissionKinds, Stages
<1>1. RunPreflight(x) \subseteq Result
  BY DEF RunPreflight
<1>2. ApplyReplayEvidence(x) \subseteq Result
  <2> DEFINE adds == {"proof-evidence", "verification-evidence", "consumer-evidence", "safe-consumer"}
             results == {Done(ReplayEffects(v), adds, {"BUILD_PROOF_BUNDLE"}) : v \in Verdicts}
  <2>1. adds \in SUBSET Evidence /\ {"BUILD_PROOF_BUNDLE"} \in SUBSET Kinds
    OBVIOUS
  <2>2. results \subseteq Result
    <3> HIDE DEF adds
    <3>1. \A v \in Verdicts : Done(ReplayEffects(v), adds, {"BUILD_PROOF_BUNDLE"}) \in Result
      BY ONLY <2>1, DoneIsResult, OutcomeForms
    <3> QED BY ONLY <3>1
  <2>3. {Throw("terminal"), Throw("retry"), Done(<<>>, {}, {"BUILD_PROOF_BUNDLE"})} \subseteq Result
    OBVIOUS
  <2>4. ApplyReplayEvidence(x) \subseteq
          {Throw("terminal"), Throw("retry"), Done(<<>>, {}, {"BUILD_PROOF_BUNDLE"})} \cup results
    BY ONLY DEF ApplyReplayEvidence
  <2> QED BY ONLY <2>2, <2>3, <2>4
<1>3. SubmitRelayer(x) \subseteq Result
  BY DEF SubmitRelayer
<1>4. BroadcastRelayerTransaction(x) \subseteq Result
  BY DEF BroadcastRelayerTransaction
<1>5. AttachWalletTransaction(x) \subseteq Result
  BY DEF AttachWalletTransaction
<1>6. PollTransactionReceipt(x) \subseteq Result
  BY DEF PollTransactionReceipt
<1>7. PollRelayFinalization(x) \subseteq Result
  BY DEF PollRelayFinalization
<1>8. FetchDaProof(x) \subseteq Result
  BY DEF FetchDaProof
<1>9. VerifyProof(x) \subseteq Result
  BY DEF VerifyProof
<1>10. VerifyConsumer(x) \subseteq Result
  <2> DEFINE verdict(v) == <<[type |-> "CONSUMER_VERIFIED", info |-> v]>>
             results == {Done(verdict(v), {"consumer-evidence", "safe-consumer"},
                              {"BUILD_PROOF_BUNDLE"}) : v \in Verdicts}
  <2>1. \A v \in Verdicts : verdict(v) \in HandlerOutcomes
    OBVIOUS
  <2>2. results \subseteq Result
    <3> HIDE DEF verdict
    <3> QED BY <2>1
  <2>3. {Throw("terminal"), Throw("retry"), Done(<<>>, {}, {"BUILD_PROOF_BUNDLE"})} \subseteq Result
    OBVIOUS
  <2>4. VerifyConsumer(x) \subseteq
          {Throw("terminal"), Throw("retry"), Done(<<>>, {}, {"BUILD_PROOF_BUNDLE"})} \cup results
    BY ONLY DEF VerifyConsumer
  <2> QED BY ONLY <2>2, <2>3, <2>4
<1>11. VerifyDeployedConsumer(x) \subseteq Result
  BY DEF VerifyDeployedConsumer
<1>12. BuildProofBundle(x) \subseteq Result
  BY DEF BuildProofBundle
<1>13. Throw("retry") \in Result
  OBVIOUS
<1> QED
  BY <1>1, <1>2, <1>3, <1>4, <1>5, <1>6, <1>7, <1>8, <1>9, <1>10, <1>11, <1>12, <1>13 DEF Handle

---------------------------------------------------------------------------
(* Every step of the pipeline is a step of the queue, or none.             *)

LEMMA ResultIsTurn ==
  ASSUME QueueInv, NEW w \in Workers, worker[w].pc = "running",
         NEW res \in Result, Return(w, res) \/ Fail(w, res)
  PROVE  Turn(w)
<1> DEFINE c == worker[w].cmd
<1>1. c \in Commands /\ RunOf[c] \in Runs /\ Busy(w)
  BY QueueAssumption DEF Busy, QueueInv, ClaimsOK
<1>2. res.events \in Outcomes /\ res.throws \in Failure \cup {"none"}
  BY OutcomeAssumption DEF Result
<1>3. CASE Return(w, res)
  <2>1. Children(RunOf[c], res.next) \in SUBSET Siblings(w)
    BY <1>1 DEF Children, Siblings
  <2>2. Complete(w, res.events, Children(RunOf[c], res.next)) \/ CompletionRefused(w, res.events)
    BY <1>3 DEF Return
  <2> QED
    BY <1>2, <2>1, <2>2 DEF Turn
<1>4. CASE Fail(w, res)
  BY <1>2, <1>4 DEF Fail, Turn
<1> QED
  BY <1>3, <1>4

LEMMA HandlerEndIsTurn ==
  ASSUME QueueInv, NEW w \in Workers, HandlerEnds(w)
  PROVE  Turn(w)
<1> DEFINE c == worker[w].cmd
<1>1. KindOf[c] \in Kinds
  BY PipelineAssumption DEF HandlerEnds, Busy, QueueInv, ClaimsOK
<1>2. PICK res \in Handle(KindOf[c], Context(w)) : Return(w, res) \/ Fail(w, res)
  BY DEF HandlerEnds
<1>3. res \in Result
  BY <1>1, <1>2, HandlerResults
<1> QED
  BY <1>2, <1>3, ResultIsTurn DEF HandlerEnds

LEMMA PipelineTurnIsTurn ==
  ASSUME QueueInv, NEW w \in Workers, PipelineTurn(w)
  PROVE  Turn(w)
  BY HandlerEndIsTurn DEF PipelineTurn, LoadContext, Turn

LEMMA SurroundingsAreQueueSteps == Surroundings => [QueueNext]_queueVars /\ UNCHANGED worker
<1>1. ASSUME NEW c \in ApiCommands, Admit(c) \/ Insert(c) \/ InsertRefused(c)
      PROVE  [QueueNext]_queueVars /\ UNCHANGED worker
  BY <1>1 DEF Admit, Insert, InsertRefused, Enqueue, QueueNext, queueVars
<1>2. ASSUME NEW c \in Commands, DeadlineTurn(c) PROVE QueueNext /\ UNCHANGED worker
  BY <1>2 DEF DeadlineTurn, DeadlinePasses, QueueNext
<1> QED
  BY <1>1, <1>2 DEF Surroundings

LEMMA PipelineStepIsQueueStep ==
  QueueInv /\ [PipelineNext]_pipelineVars => [QueueNext]_queueVars
<1> SUFFICES ASSUME QueueInv, [PipelineNext]_pipelineVars PROVE [QueueNext]_queueVars
  OBVIOUS
<1>1. CASE Surroundings
  BY <1>1, SurroundingsAreQueueSteps
<1>2. ASSUME NEW w \in Workers, PipelineTurn(w) PROVE QueueNext
  BY <1>2, PipelineTurnIsTurn DEF QueueNext
<1>3. ASSUME NEW w \in Workers, CrashTurn(w) PROVE QueueNext
  BY <1>3 DEF CrashTurn, QueueNext, Turn
<1>4. CASE UNCHANGED pipelineVars
  BY <1>4 DEF pipelineVars, queueVars
<1> QED
  BY <1>1, <1>2, <1>3, <1>4 DEF PipelineNext

\* For any runs, commands and workers, the handlers of worker.ts and the requests
\* of production-service.ts behave as the queue of postgres.ts lets them.
THEOREM QueueImplemented == PipelineSpec => ImplementsQueue
<1>1. PipelineInit => QueueInit
  BY DEF PipelineInit
<1>2. QueueInit => QueueInv
  BY QueueInitInv
<1>3. QueueInv /\ [PipelineNext]_pipelineVars => QueueInv'
  BY PipelineStepIsQueueStep, QueueStepInv
<1> QED
  BY <1>1, <1>2, <1>3, PipelineStepIsQueueStep, PTL DEF PipelineSpec, ImplementsQueue, QueueSpec

---------------------------------------------------------------------------
(* What a handler's result says of its snapshot.                           *)

TypesOf(events) == {events[i].type : i \in DOMAIN events}

\* The event was in the snapshot, or comes with the result.
Known(x, res, type) == Has(x, type) \/ type \in TypesOf(res.events)

\* A stage is reported together with its evidence.
EvidenceFacts(x, res) ==
  LET says == TypesOf(res.events) IN
  /\ "PREFLIGHT_ACCEPTED" \in says <=> "preflight-evidence" \in res.adds
  /\ "ROUND_FINALIZED" \in says /\ x.mode # "replay" =>
       {"receipt-evidence", "relay-evidence"} \subseteq res.adds \cup x.artifacts
  /\ "PROOF_AVAILABLE" \in says => "proof-evidence" \in res.adds
  /\ "PROOF_VERIFIED" \in says => "verification-evidence" \in res.adds
  /\ "CONSUMER_VERIFIED" \in says => {"consumer-evidence", "safe-consumer"} \subseteq res.adds
  /\ "proof-bundle" \in res.adds => Has(x, "CONSUMER_VERIFIED")

\* A request is reported on a grant only.
GrantFacts(kind, x, res) ==
  LET says == TypesOf(res.events) IN
  /\ "REQUEST_SUBMITTED" \in says =>
       \/ kind = "BROADCAST_RELAYER_TRANSACTION"
       \/ kind \in SubmissionKinds \ {"SUBMIT_RELAYER"} /\ ModeFor(kind) = x.mode
  /\ "BROADCAST_RELAYER_TRANSACTION" \in res.next => kind = "SUBMIT_RELAYER" /\ ModeFor(kind) = x.mode
  /\ "REQUEST_SUBMITTED" \in says /\ x.mode = "replay" => "CONSUMER_VERIFIED" \in says

\* A child is scheduled by the event or the evidence it waits for, and never is a
\* submission.
ChildFacts(kind, x, res) ==
  /\ res.next \cap SubmissionKinds = {}
  /\ "BROADCAST_RELAYER_TRANSACTION" \in res.next => "preflight-evidence" \in x.artifacts
  /\ "POLL_TRANSACTION_RECEIPT" \in res.next => Known(x, res, "REQUEST_SUBMITTED")
  /\ "POLL_RELAY_FINALIZATION" \in res.next => kind = "POLL_TRANSACTION_RECEIPT"
  /\ "FETCH_DA_PROOF" \in res.next => Known(x, res, "ROUND_FINALIZED")
  /\ "VERIFY_PROOF" \in res.next => Known(x, res, "PROOF_AVAILABLE")

\* An event brings the command that goes on from there, unless it comes with
\* the end of the run.
SuccessorFacts(res) ==
  LET says == TypesOf(res.events) IN
  /\ "CONSUMER_VERIFIED" \in says => "BUILD_PROOF_BUNDLE" \in res.next
  /\ "CONSUMER_VERIFIED" \notin says =>
       /\ "REQUEST_SUBMITTED" \in says => "POLL_TRANSACTION_RECEIPT" \in res.next
       /\ "ROUND_FINALIZED" \in says => "FETCH_DA_PROOF" \in res.next
       /\ "PROOF_AVAILABLE" \in says => "VERIFY_PROOF" \in res.next

\* A command of the chain ends with the work it is for.
WorkFacts(kind, x, res) ==
  /\ kind = "BROADCAST_RELAYER_TRANSACTION" => Known(x, res, "REQUEST_SUBMITTED")
  /\ kind = "POLL_TRANSACTION_RECEIPT" => "POLL_RELAY_FINALIZATION" \in res.next
  /\ kind = "POLL_RELAY_FINALIZATION" => Known(x, res, "ROUND_FINALIZED")
  /\ kind = "FETCH_DA_PROOF" => Known(x, res, "PROOF_AVAILABLE")
  /\ kind = "VERIFY_PROOF" => Known(x, res, "PROOF_VERIFIED")

Facts(kind, x, res) ==
  /\ EvidenceFacts(x, res) /\ GrantFacts(kind, x, res) /\ ChildFacts(kind, x, res)
  /\ SuccessorFacts(res) /\ WorkFacts(kind, x, res)

LEMMA TypesOfForms ==
  /\ TypesOf(<<>>) = {}
  /\ \A e : TypesOf(<<e>>) = {e.type}
  /\ \A t : Effect(t).type = t
  /\ \A x, t : TypesOf(Unless(x, t)) = IF Has(x, t) THEN {} ELSE {t}
  /\ \A v : TypesOf(ReplayEffects(v)) =
              {"REQUEST_SUBMITTED", "ROUND_FINALIZED", "PROOF_AVAILABLE", "PROOF_VERIFIED",
               "CONSUMER_VERIFIED"}
<1>1. TypesOf(<<>>) = {}
  BY DEF TypesOf
<1>2. \A e : TypesOf(<<e>>) = {e.type}
  BY DEF TypesOf
<1>3. \A t : Effect(t).type = t
  BY DEF Effect
<1>4. \A x, t : TypesOf(Unless(x, t)) = IF Has(x, t) THEN {} ELSE {t}
  BY <1>1, <1>2, <1>3 DEF Unless
<1>5. ASSUME NEW v
      PROVE  TypesOf(ReplayEffects(v)) =
              {"REQUEST_SUBMITTED", "ROUND_FINALIZED", "PROOF_AVAILABLE", "PROOF_VERIFIED",
               "CONSUMER_VERIFIED"}
  <2>0. PICK e : e = ReplayEffects(v)
    OBVIOUS
  <2>1. DOMAIN e = {1, 2, 3, 4, 5}
    BY <2>0 DEF ReplayEffects
  <2>2. /\ e[1].type = "REQUEST_SUBMITTED" /\ e[2].type = "ROUND_FINALIZED"
        /\ e[3].type = "PROOF_AVAILABLE" /\ e[4].type = "PROOF_VERIFIED"
        /\ e[5].type = "CONSUMER_VERIFIED"
    BY <1>3, <2>0 DEF ReplayEffects
  <2>3. \A t : t \in TypesOf(e) <=> t \in {e[1].type, e[2].type, e[3].type, e[4].type, e[5].type}
    BY <2>1 DEF TypesOf
  <2> QED BY <2>0, <2>2, <2>3
<1> QED
  BY <1>1, <1>2, <1>3, <1>4, <1>5

LEMMA ResultFields ==
  /\ \A e, a, n : /\ Done(e, a, n).events = e /\ Done(e, a, n).adds = a
                  /\ Done(e, a, n).next = n
  /\ \A f : Throw(f).throws = f
  BY DEF Done, Throw

LEMMA HandlerFacts ==
  ASSUME NEW kind \in Kinds, NEW x, NEW res \in Handle(kind, x), res.throws = "none"
  PROVE  Facts(kind, x, res)
<1> USE TypesOfForms, ResultFields DEF SubmissionKinds
<1> DEFINE F == Facts(kind, x, res)
<1>1. ASSUME kind = "RUN_PREFLIGHT", res \in RunPreflight(x) PROVE F
  <2>1. \/ res = Done(<<>>, {}, {})
        \/ res = Done(<<Effect("PREFLIGHT_ACCEPTED")>>, {"replay-source", "preflight-evidence"}, {})
        \/ res = Done(<<Effect("PREFLIGHT_ACCEPTED")>>, {"preflight-evidence"}, {})
        \/ res = Done(<<[type |-> "RUN_FAILED", info |-> "preflight"]>>, {}, {})
    BY <1>1 DEF RunPreflight
  <2> QED BY <1>1, <2>1 DEF Facts, EvidenceFacts, GrantFacts, ChildFacts, SuccessorFacts, WorkFacts
<1>2. ASSUME kind = "APPLY_REPLAY_EVIDENCE", res \in ApplyReplayEvidence(x) PROVE F
  <2>1. x.mode = "replay" /\ ModeFor(kind) = "replay"
    BY <1>2 DEF ApplyReplayEvidence, ModeFor
  <2>2. \/ res = Done(<<>>, {}, {"BUILD_PROOF_BUNDLE"})
        \/ \E v \in Verdicts :
             res = Done(ReplayEffects(v),
                        {"proof-evidence", "verification-evidence", "consumer-evidence", "safe-consumer"},
                        {"BUILD_PROOF_BUNDLE"})
    BY <1>2 DEF ApplyReplayEvidence
  <2> QED BY <1>2, <2>1, <2>2 DEF Facts, EvidenceFacts, GrantFacts, ChildFacts, SuccessorFacts, WorkFacts
<1>3. ASSUME kind = "SUBMIT_RELAYER", res \in SubmitRelayer(x) PROVE F
  <2>1. x.mode = "relayer" /\ ModeFor(kind) = "relayer"
    BY <1>3 DEF SubmitRelayer, ModeFor
  <2>2. /\ "preflight-evidence" \in x.artifacts
        /\ res = Done(<<>>, {}, {"BROADCAST_RELAYER_TRANSACTION"})
    BY <1>3 DEF SubmitRelayer
  <2> QED BY <1>3, <2>1, <2>2 DEF Facts, EvidenceFacts, GrantFacts, ChildFacts, SuccessorFacts, WorkFacts
<1>4. ASSUME kind = "BROADCAST_RELAYER_TRANSACTION", res \in BroadcastRelayerTransaction(x) PROVE F
  <2>1. x.mode = "relayer"
    BY <1>4 DEF BroadcastRelayerTransaction
  <2>2. res = Done(Unless(x, "REQUEST_SUBMITTED"), {}, {"POLL_TRANSACTION_RECEIPT"})
    BY <1>4 DEF BroadcastRelayerTransaction
  <2> QED BY <1>4, <2>1, <2>2
          DEF Facts, EvidenceFacts, GrantFacts, ChildFacts, SuccessorFacts, WorkFacts, Known
<1>5. ASSUME kind = "ATTACH_WALLET_TRANSACTION", res \in AttachWalletTransaction(x) PROVE F
  <2>1. x.mode = "wallet" /\ ModeFor(kind) = "wallet"
    BY <1>5 DEF AttachWalletTransaction, ModeFor
  <2>2. res = Done(Unless(x, "REQUEST_SUBMITTED"), {}, {"POLL_TRANSACTION_RECEIPT"})
    BY <1>5 DEF AttachWalletTransaction
  <2> QED BY <1>5, <2>1, <2>2
          DEF Facts, EvidenceFacts, GrantFacts, ChildFacts, SuccessorFacts, WorkFacts, Known
<1>6. ASSUME kind = "POLL_TRANSACTION_RECEIPT", res \in PollTransactionReceipt(x) PROVE F
  <2>1. \/ res = Done(<<>>, {}, {"POLL_RELAY_FINALIZATION"})
        \/ res = Done(<<>>, {"receipt-evidence"}, {"POLL_RELAY_FINALIZATION"})
    BY <1>6 DEF PollTransactionReceipt
  <2> QED BY <1>6, <2>1 DEF Facts, EvidenceFacts, GrantFacts, ChildFacts, SuccessorFacts, WorkFacts
<1>7. ASSUME kind = "POLL_RELAY_FINALIZATION", res \in PollRelayFinalization(x) PROVE F
  <2>1. /\ "receipt-evidence" \in x.artifacts
        /\ res = Done(Unless(x, "ROUND_FINALIZED"), {"relay-evidence"}, {"FETCH_DA_PROOF"})
    BY <1>7 DEF PollRelayFinalization
  <2> QED BY <1>7, <2>1
          DEF Facts, EvidenceFacts, GrantFacts, ChildFacts, SuccessorFacts, WorkFacts, Known
<1>8. ASSUME kind = "FETCH_DA_PROOF", res \in FetchDaProof(x) PROVE F
  <2>1. \/ Has(x, "PROOF_AVAILABLE") /\ res = Done(<<>>, {}, {"VERIFY_PROOF"})
        \/ res = Done(<<Effect("PROOF_AVAILABLE")>>, {"proof-evidence"}, {"VERIFY_PROOF"})
    BY <1>8 DEF FetchDaProof
  <2> QED BY <1>8, <2>1
          DEF Facts, EvidenceFacts, GrantFacts, ChildFacts, SuccessorFacts, WorkFacts, Known
<1>9. ASSUME kind = "VERIFY_PROOF", res \in VerifyProof(x) PROVE F
  <2>1. \/ Has(x, "PROOF_VERIFIED") /\ res = Done(<<>>, {}, {})
        \/ res = Done(<<Effect("PROOF_VERIFIED")>>, {"verification-evidence"}, {})
    BY <1>9 DEF VerifyProof
  <2> QED BY <1>9, <2>1
          DEF Facts, EvidenceFacts, GrantFacts, ChildFacts, SuccessorFacts, WorkFacts, Known
<1>10. ASSUME kind = "VERIFY_CONSUMER", res \in VerifyConsumer(x) PROVE F
  <2> DEFINE verdict(v) == <<[type |-> "CONSUMER_VERIFIED", info |-> v]>>
             adds       == {"consumer-evidence", "safe-consumer"}
             results    == {Done(verdict(v), adds, {"BUILD_PROOF_BUNDLE"}) : v \in Verdicts}
  <2>1. VerifyConsumer(x) \subseteq
          {Throw("terminal"), Throw("retry"), Done(<<>>, {}, {"BUILD_PROOF_BUNDLE"})} \cup results
    BY ONLY DEF VerifyConsumer
  <2>2. \A v : TypesOf(verdict(v)) = {"CONSUMER_VERIFIED"}
    OBVIOUS
  <2> HIDE DEF verdict
  <2>3. \/ res = Done(<<>>, {}, {"BUILD_PROOF_BUNDLE"})
        \/ \E v \in Verdicts : res = Done(verdict(v), adds, {"BUILD_PROOF_BUNDLE"})
    BY <1>10, <2>1
  <2>4. CASE res = Done(<<>>, {}, {"BUILD_PROOF_BUNDLE"})
    BY <1>10, <2>4 DEF Facts, EvidenceFacts, GrantFacts, ChildFacts, SuccessorFacts, WorkFacts
  <2>5. ASSUME NEW v \in Verdicts, res = Done(verdict(v), adds, {"BUILD_PROOF_BUNDLE"}) PROVE F
    BY <1>10, <2>2, <2>5 DEF Facts, EvidenceFacts, GrantFacts, ChildFacts, SuccessorFacts, WorkFacts
  <2> QED BY <2>3, <2>4, <2>5
<1>11. ASSUME kind = "VERIFY_DEPLOYED_CONSUMER", res \in VerifyDeployedConsumer(x) PROVE F
  <2>1. res = Done(<<>>, {"deployed-consumer-evidence"}, {})
    BY <1>11 DEF VerifyDeployedConsumer
  <2> QED BY <1>11, <2>1 DEF Facts, EvidenceFacts, GrantFacts, ChildFacts, SuccessorFacts, WorkFacts
<1>12. ASSUME kind = "BUILD_PROOF_BUNDLE", res \in BuildProofBundle(x) PROVE F
  <2>1. \/ res = Done(<<>>, {}, {})
        \/ Has(x, "CONSUMER_VERIFIED") /\ res = Done(<<>>, {"proof-bundle"}, {})
    BY <1>12 DEF BuildProofBundle
  <2> QED BY <1>12, <2>1 DEF Facts, EvidenceFacts, GrantFacts, ChildFacts, SuccessorFacts, WorkFacts
<1>13. res # Throw("retry")
  OBVIOUS
<1> HIDE DEF F
<1>14. \/ kind = "RUN_PREFLIGHT" /\ res \in RunPreflight(x)
       \/ kind = "APPLY_REPLAY_EVIDENCE" /\ res \in ApplyReplayEvidence(x)
       \/ kind = "SUBMIT_RELAYER" /\ res \in SubmitRelayer(x)
       \/ kind = "BROADCAST_RELAYER_TRANSACTION" /\ res \in BroadcastRelayerTransaction(x)
       \/ kind = "ATTACH_WALLET_TRANSACTION" /\ res \in AttachWalletTransaction(x)
       \/ kind = "POLL_TRANSACTION_RECEIPT" /\ res \in PollTransactionReceipt(x)
       \/ kind = "POLL_RELAY_FINALIZATION" /\ res \in PollRelayFinalization(x)
       \/ kind = "FETCH_DA_PROOF" /\ res \in FetchDaProof(x)
       \/ kind = "VERIFY_PROOF" /\ res \in VerifyProof(x)
       \/ kind = "VERIFY_CONSUMER" /\ res \in VerifyConsumer(x)
       \/ kind = "VERIFY_DEPLOYED_CONSUMER" /\ res \in VerifyDeployedConsumer(x)
       \/ kind = "BUILD_PROOF_BUNDLE" /\ res \in BuildProofBundle(x)
  BY ONLY <1>13, kind \in Kinds, res \in Handle(kind, x) DEF Handle, Kinds, SubmissionKinds
<1> QED
  BY ONLY <1>1, <1>2, <1>3, <1>4, <1>5, <1>6, <1>7, <1>8, <1>9, <1>10, <1>11, <1>12, <1>14 DEF F

---------------------------------------------------------------------------
(* The steps of the pipeline.                                              *)

\* A worker commits the result of its handler.
Delivers(w, res) ==
  LET r == RunOf[worker[w].cmd] IN
  /\ worker[w].pc = "running" /\ res.throws = "none"
  /\ Complete(w, res.events, Children(r, res.next))
  /\ artifacts' = [artifacts EXCEPT ![r] = @ \cup res.adds]

\* Only a delivery completes a command and persists artifacts.
LEMMA PipelineShape ==
  ASSUME [PipelineNext]_pipelineVars
  PROVE  \/ /\ artifacts' = artifacts
            /\ \/ UNCHANGED <<journal, cmd>>
               \/ \E c \in ApiCommands : Insert(c)
               \/ \E c \in Commands : DeadlinePasses(c)
               \/ \E w \in Workers : (\E c \in Commands : Claim(w, c)) \/ Retry(w)
         \/ \E w \in Workers :
              \E res \in Handle(KindOf[worker[w].cmd], Context(w)) : Delivers(w, res)
<1>1. CASE UNCHANGED pipelineVars
  BY <1>1 DEF pipelineVars
<1>2. ASSUME NEW c \in ApiCommands, Admit(c) \/ Insert(c) \/ InsertRefused(c)
      PROVE  artifacts' = artifacts /\ (UNCHANGED <<journal, cmd>> \/ Insert(c))
  BY <1>2 DEF Admit, Insert, InsertRefused
<1>3. ASSUME NEW c \in Commands, DeadlineTurn(c) PROVE artifacts' = artifacts /\ DeadlinePasses(c)
  BY <1>3 DEF DeadlineTurn
<1>4. ASSUME NEW w \in Workers, CrashTurn(w) PROVE artifacts' = artifacts /\ UNCHANGED <<journal, cmd>>
  BY <1>4 DEF CrashTurn, Aside, Crash
<1>5. ASSUME NEW w \in Workers, PipelineTurn(w), ~HandlerEnds(w)
      PROVE  /\ artifacts' = artifacts
             /\ UNCHANGED <<journal, cmd>> \/ (\E c \in Commands : Claim(w, c)) \/ Retry(w)
  BY <1>5 DEF PipelineTurn, Aside, Renew, LoadContext, Load, RetryRefused
<1>6. ASSUME NEW w \in Workers, HandlerEnds(w)
      PROVE  \/ artifacts' = artifacts /\ UNCHANGED <<journal, cmd>>
             \/ \E res \in Handle(KindOf[worker[w].cmd], Context(w)) : Delivers(w, res)
  <2>1. PICK res \in Handle(KindOf[worker[w].cmd], Context(w)) : Return(w, res) \/ Fail(w, res)
    BY <1>6 DEF HandlerEnds
  <2>2. worker[w].pc = "running"
    BY <1>6 DEF HandlerEnds
  <2>3. Fail(w, res) => artifacts' = artifacts /\ UNCHANGED <<journal, cmd>>
    BY DEF Fail, Aside, HandlerThrows
  <2>4. Return(w, res) =>
          Delivers(w, res) \/ (artifacts' = artifacts /\ UNCHANGED <<journal, cmd>>)
    BY <2>2 DEF Return, Delivers, CompletionRefused
  <2> QED BY <2>1, <2>3, <2>4
<1>7. CASE Surroundings
  BY <1>2, <1>3, <1>7 DEF Surroundings
<1> QED
  BY <1>1, <1>4, <1>5, <1>6, <1>7 DEF PipelineNext

\* A worker whose handler runs has just loaded its snapshot, or keeps it.
LEMMA RunningKeeps ==
  ASSUME PipelineTypeOK, [PipelineNext]_pipelineVars, NEW v \in Workers, worker'[v].pc = "running"
  PROVE  (worker'[v] = worker[v] /\ view'[v] = view[v]) \/ LoadContext(v)
<1>1. worker \in [Workers -> WorkerState] /\ view \in [Workers -> SUBSET Evidence]
  BY DEF PipelineTypeOK, QueueTypeOK
<1>2. CASE UNCHANGED pipelineVars
  BY <1>2 DEF pipelineVars
<1>3. CASE Surroundings
  BY <1>3 DEF Surroundings, Admit, Insert, InsertRefused, Enqueue, DeadlineTurn, DeadlinePasses
<1>4. Idle.pc # "running" /\ \A c, n : [Idle EXCEPT !.pc = "claimed", !.cmd = c, !.token = n].pc = "claimed"
  BY DEF Idle
<1>5. ASSUME NEW w \in Workers, PipelineTurn(w) \/ CrashTurn(w), w # v
      PROVE  worker'[v] = worker[v] /\ view'[v] = view[v]
  <2>1. ASSUME Aside(w) PROVE view'[v] = view[v]
    BY <1>1, <1>5, <2>1 DEF Aside
  <2>2. ASSUME NEW s, worker' = [worker EXCEPT ![w] = s] PROVE worker'[v] = worker[v]
    BY <1>1, <1>5, <2>2
  <2>3. ASSUME NEW c \in Commands, Claim(w, c) PROVE worker'[v] = worker[v]
    BY <2>3, <2>2 DEF Claim
  <2>4. (Retry(w) \/ RetryRefused(w) \/ Crash(w)) => worker'[v] = worker[v]
    BY <2>2 DEF Retry, RetryRefused, Crash
  <2>5. ASSUME Renew(w) PROVE worker'[v] = worker[v]
    BY <1>1, <1>5, <2>5 DEF Renew, Goto, FailWith
  <2>6. ASSUME LoadContext(w) PROVE worker'[v] = worker[v] /\ view'[v] = view[v]
    BY <1>1, <1>5, <2>6 DEF LoadContext, Load
  <2>7. ASSUME NEW res, Return(w, res) \/ Fail(w, res)
        PROVE  worker'[v] = worker[v] /\ view'[v] = view[v]
    BY <1>1, <1>5, <2>1, <2>2, <2>7
    DEF Return, Fail, Complete, CompletionRefused, HandlerThrows, FailWith
  <2> QED BY <1>5, <2>1, <2>3, <2>4, <2>5, <2>6, <2>7 DEF PipelineTurn, CrashTurn, HandlerEnds
<1>6. CASE PipelineTurn(v) \/ CrashTurn(v)
  <2>1. ASSUME NEW c \in Commands, Claim(v, c) PROVE FALSE
    BY <1>1, <1>4, <2>1 DEF Claim
  <2>2. (Retry(v) \/ RetryRefused(v) \/ Crash(v)) => FALSE
    BY <1>1, <1>4 DEF Retry, RetryRefused, Crash
  <2>3. ASSUME NEW f, FailWith(v, f) PROVE FALSE
    BY <1>1, <2>3 DEF FailWith, WorkerState
  <2>4. ASSUME Renew(v) PROVE FALSE
    BY <1>1, <2>3, <2>4 DEF Renew, Goto, WorkerState
  <2>5. ASSUME NEW res, Return(v, res) \/ Fail(v, res) PROVE FALSE
    BY <1>1, <1>4, <2>3, <2>5 DEF Return, Fail, Complete, CompletionRefused, HandlerThrows
  <2> QED BY <1>6, <2>1, <2>2, <2>4, <2>5 DEF PipelineTurn, CrashTurn, HandlerEnds
<1> QED
  BY <1>2, <1>3, <1>5, <1>6 DEF PipelineNext

---------------------------------------------------------------------------
(* The invariant.  Which commands are scheduled follows the position of the *)
(* run, and the evidence of recovery that a waiting command left is still in *)
(* force when the run needs it.                                             *)

Passed(r, k) == k \in Reached(journal[r])

Scheduled(c) == cmd[c].status # "absent"

\* The commands that take a run from position k to the next one.
WorkAt(k) == IF k = 2 THEN {"BROADCAST_RELAYER_TRANSACTION"}
             ELSE IF k = 3 THEN {"POLL_TRANSACTION_RECEIPT", "POLL_RELAY_FINALIZATION"}
             ELSE IF k = 4 THEN {"FETCH_DA_PROOF"} ELSE {"VERIFY_PROOF"}

AllScheduled(r, kind) ==
  \A c \in Commands : RunOf[c] = r /\ KindOf[c] = kind => Scheduled(c)

\* A handler's snapshot is a part of what is committed by now.
SnapshotOK ==
  \A w \in Workers :
    LET r == RunOf[worker[w].cmd] IN
    worker[w].pc = "running" => worker[w].seen <= Len(journal[r]) /\ view[w] \subseteq artifacts[r]

\* No command of the chain exists before the run is where it starts.
ScheduledInTurn ==
  \A c \in Commands : \A k \in 2..5 :
    KindOf[c] \in WorkAt(k) /\ Scheduled(c) => Passed(RunOf[c], k)

\* While the run waits for a command, nothing has superseded its evidence.
Undisturbed ==
  \A c \in Commands : \A k \in 2..5 :
    /\ KindOf[c] \in WorkAt(k) /\ Passed(RunOf[c], k) /\ ~Passed(RunOf[c], k + 1)
    /\ ~Terminal(JournalOf(c))
    => Clean(JournalOf(c), c)

SuccessorsScheduled ==
  \A r \in Runs :
    /\ ~Terminal(journal[r]) =>
         /\ Passed(r, 3) => AllScheduled(r, "POLL_TRANSACTION_RECEIPT")
         /\ Passed(r, 4) => AllScheduled(r, "FETCH_DA_PROOF")
         /\ Passed(r, 5) => AllScheduled(r, "VERIFY_PROOF")
    /\ Passed(r, 7) => AllScheduled(r, "BUILD_PROOF_BUNDLE")

WorkDone ==
  \A c \in Commands : cmd[c].status = "succeeded" =>
    /\ KindOf[c] = "BROADCAST_RELAYER_TRANSACTION" => Passed(RunOf[c], 3)
    /\ KindOf[c] = "POLL_TRANSACTION_RECEIPT" => AllScheduled(RunOf[c], "POLL_RELAY_FINALIZATION")
    /\ KindOf[c] = "POLL_RELAY_FINALIZATION" => Passed(RunOf[c], 4)
    /\ KindOf[c] = "FETCH_DA_PROOF" => Passed(RunOf[c], 5)
    /\ KindOf[c] = "VERIFY_PROOF" => Passed(RunOf[c], 6)

ReplaysEnd == \A r \in Runs : ModeOf[r] = "replay" /\ Passed(r, 3) => Terminal(journal[r])

\* A submission of the run's own mode took effect.
Granted(r) ==
  \E c \in Submissions(r) : ModeFor(KindOf[c]) = ModeOf[r] /\ cmd[c].status = "succeeded"

BroadcastsGranted ==
  \A c \in Commands :
    KindOf[c] = "BROADCAST_RELAYER_TRANSACTION" /\ Scheduled(c) => Granted(RunOf[c])

PreflightPassed == \A r \in Runs : "preflight-evidence" \in artifacts[r] => Passed(r, 2)

BundleLast == \A r \in Runs : "proof-bundle" \in artifacts[r] => Passed(r, 7)

Chain ==
  /\ StagesHaveEvidence /\ OneExplicitSubmission
  /\ ScheduledInTurn /\ Undisturbed /\ SuccessorsScheduled /\ WorkDone
  /\ ReplaysEnd /\ BroadcastsGranted /\ PreflightPassed /\ BundleLast

\* What the queue alone guarantees.
QueueFacts == QueueInv /\ HistoryInv /\ LifecycleInv /\ EvidenceOrdered /\ Created

PipelineInv == QueueFacts /\ PipelineTypeOK /\ SnapshotOK /\ Chain

---------------------------------------------------------------------------
(* Steps after which every run is where it was.                            *)

Lingers(t, j) ==
  /\ Reached(t) = Reached(j)
  /\ Terminal(j) => Terminal(t)
  /\ ~Terminal(t) => \A c \in Commands : Clean(j, c) => Clean(t, c)

LEMMA RecoveryLingers ==
  ASSUME NEW t, NEW j, NEW evs, Extension(t, j, evs), \A i \in 1..Len(evs) : IsRecovery(evs[i])
  PROVE  Lingers(t, j)
<1>1. \A k \in 1..7, i \in 1..Len(evs) : evs[i].type # Lifecycle[k]
  BY PositionsDiffer DEF IsRecovery
<1>2. Reached(t) = Reached(j)
  <2>1. \A k \in 1..7 : k \in Reached(t) <=> k \in Reached(j)
    BY <1>1, ReachedGrows
  <2> QED BY <2>1, ReachedGrows
<1>3. ASSUME NEW c \in Commands, Clean(j, c), NEW i \in DOMAIN t, IsEvidence(t[i], c)
      PROVE  i \in RecentAt(t, c)
  <2>1. CASE i \in DOMAIN j
    BY <1>3, <2>1, RecentGrows, EventsAreKept DEF Clean
  <2>2. CASE i \notin DOMAIN j
    <3>1. i - Len(j) \in 1..Len(evs) /\ t[i] = evs[i - Len(j)] /\ Len(j) + (i - Len(j)) = i
      BY <1>3, <2>2 DEF Extension
    <3>2. evs[i - Len(j)].cmd = c
      BY <1>3, <3>1 DEF IsEvidence
    <3>3. Len(j) + (i - Len(j)) \in RecentAt(t, c)
      BY <3>1, <3>2, RecentGrows
    <3> QED BY <3>1, <3>3
  <2> QED BY <2>1, <2>2
<1> QED
  BY <1>2, <1>3, EndIsKept DEF Lingers, Clean

LEMMA FailureLingers ==
  ASSUME NEW t, NEW j, NEW evs, Extension(t, j, evs), Len(evs) = 1, evs[1].type = "RUN_FAILED"
  PROVE  Lingers(t, j)
<1>1. 1 \in 1..Len(evs) /\ \A k \in 1..7 : \A i \in 1..Len(evs) : evs[i].type # Lifecycle[k]
  <2>1. 1 \in 1..Len(evs) /\ \A i \in 1..Len(evs) : i = 1
    OBVIOUS
  <2>2. \A i \in 1..Len(evs) : evs[i].type = "RUN_FAILED"
    BY <2>1
  <2> QED BY <2>1, <2>2, PositionsDiffer
<1>2. Reached(t) = Reached(j) /\ Failed(t)
  <2>1. \A k \in 1..7 : k \in Reached(t) <=> k \in Reached(j)
    BY <1>1, ReachedGrows
  <2>2. Failed(t)
    BY <1>1, ReachedGrows
  <2> QED BY <2>1, <2>2, ReachedGrows
<1>3. Terminal(t)
  BY <1>2, EndIsFailureOrVerdict
<1> QED
  BY <1>2, <1>3 DEF Lingers

Lingering ==
  /\ artifacts' = artifacts
  /\ \A r \in Runs : Lingers(journal'[r], journal[r])
  /\ \A d \in Commands :
       /\ cmd'[d].status = "succeeded" <=> cmd[d].status = "succeeded"
       /\ cmd[d].status = "cancelled" => cmd'[d].status = "cancelled"
       /\ cmd[d].status # "absent" => cmd'[d].status # "absent"
       /\ cmd[d].status = "absent" /\ cmd'[d].status # "absent" =>
            /\ d \in ApiCommands
            /\ KindOf[d] \in SubmissionKinds => ~ActiveSubmission(RunOf[d])
            /\ \A e \in Commands : e # d => cmd'[e] = cmd[e]

LEMMA StaysLingers == \A j : Lingers(j, j)
  BY DEF Lingers

LEMMA WritesLinger ==
  ASSUME NEW c, NEW evs, Writes(c, evs), Lingers(journal'[RunOf[c]], JournalOf(c)), NEW r \in Runs
  PROVE  Lingers(journal'[r], journal[r])
  BY StaysLingers DEF Writes, JournalOf

LEMMA InsertLingers ==
  ASSUME QueueInv, NEW c \in ApiCommands, Insert(c), artifacts' = artifacts
  PROVE  Lingering
<1>1. c \in Commands /\ cmd \in [Commands -> CommandRow] /\ cmd[c].status = "absent"
      /\ cmd' = [cmd EXCEPT ![c] = Fresh] /\ journal' = journal
      /\ ~(KindOf[c] \in SubmissionKinds /\ ActiveSubmission(RunOf[c]))
  BY QueueAssumption DEF QueueInv, QueueTypeOK, Insert, Enqueue
<1>2. cmd'[c].status = "queued" /\ \A d \in Commands : d # c => cmd'[d] = cmd[d]
  BY <1>1 DEF Fresh
<1> QED
  BY <1>1, <1>2, StaysLingers DEF Lingering

LEMMA DeadlineLingers ==
  ASSUME QueueInv, NEW c \in Commands, DeadlinePasses(c), artifacts' = artifacts
  PROVE  Lingering
<1>1. journal' = journal /\ cmd \in [Commands -> CommandRow]
      /\ cmd' = [cmd EXCEPT ![c].elapsed = TRUE]
  BY DEF QueueInv, QueueTypeOK, DeadlinePasses
<1>2. \A d \in Commands : cmd'[d].status = cmd[d].status
  BY <1>1 DEF CommandRow
<1> QED
  BY <1>1, <1>2, StaysLingers DEF Lingering

LEMMA ClaimLingers ==
  ASSUME QueueInv, NEW w \in Workers, NEW c \in Commands, Claim(w, c), artifacts' = artifacts
  PROVE  Lingering
<1> PICK evs : evs = ClaimEvents(c, cmd[c].attempts + 1)
  OBVIOUS
<1>1. /\ Writes(c, evs) /\ cmd[c].status \in {"queued", "leased"} /\ cmd'[c].status = "leased"
      /\ \A d \in Commands : d # c => cmd'[d] = cmd[d]
  BY ClaimWrites
<1>2. cmd[c].attempts + 1 \in Nat /\ QueueTypeOK
  BY ClaimWrites DEF QueueInv
<1>3. \A i \in 1..Len(evs) : IsRecovery(evs[i])
  BY <1>2, ClaimEventsShape
<1>4. Lingers(journal'[RunOf[c]], JournalOf(c))
  BY <1>1, <1>3, RecoveryLingers DEF Writes
<1> QED
  BY <1>1, <1>4, WritesLinger DEF Lingering

LEMMA RetryLingers ==
  ASSUME QueueInv, NEW w \in Workers, Retry(w), artifacts' = artifacts
  PROVE  Lingering
<1> PICK c : c = worker[w].cmd
  OBVIOUS
<1> PICK f : f = worker[w].failure
  OBVIOUS
<1> PICK evs : evs = RetryEvents(c, f)
  OBVIOUS
<1>1. /\ f \in Failure /\ Writes(c, evs) /\ cmd[c].status = "leased"
      /\ cmd'[c].status = IF f = "terminal" THEN "dead" ELSE "queued"
      /\ \A d \in Commands : d # c =>
           \/ cmd'[d] = cmd[d]
           \/ cmd[d].status \in {"queued", "leased"} /\ cmd'[d].status = "cancelled"
  BY RetryWrites
<1>2. c \in Commands /\ Extension(journal'[RunOf[c]], JournalOf(c), evs)
  BY <1>1 DEF Writes
<1>3. \/ evs = <<>>
      \/ \E type \in {"STAGE_WAITING", "STAGE_RETRY_SCHEDULED"} :
           evs = <<RecoveryEvent(type, c, cmd[c].attempts)>>
      \/ evs = <<LifecycleEvent(c, 1, [type |-> "RUN_FAILED", info |-> StageOf[c]])>>
  BY <1>1, <1>2, RetryEventsShape
<1>4. Lingers(journal'[RunOf[c]], JournalOf(c))
  <2>1. CASE evs = <<>>
    BY <1>2, <2>1, NothingAppended, StaysLingers
  <2>2. ASSUME NEW type \in {"STAGE_WAITING", "STAGE_RETRY_SCHEDULED"},
               evs = <<RecoveryEvent(type, c, cmd[c].attempts)>>
        PROVE  Lingers(journal'[RunOf[c]], JournalOf(c))
    <3>1. Len(evs) = 1 /\ evs[1].type = type
      BY <2>2 DEF RecoveryEvent
    <3>2. \A i \in 1..Len(evs) : i = 1
      BY <3>1
    <3>3. \A i \in 1..Len(evs) : IsRecovery(evs[i])
      BY <3>1, <3>2 DEF IsRecovery, RecoveryTypes
    <3> QED BY <1>2, <3>3, RecoveryLingers
  <2>3. CASE evs = <<LifecycleEvent(c, 1, [type |-> "RUN_FAILED", info |-> StageOf[c]])>>
    <3>1. Len(evs) = 1 /\ evs[1].type = "RUN_FAILED"
      BY <2>3 DEF LifecycleEvent
    <3> QED BY <1>2, <3>1, FailureLingers
  <2> QED BY <1>3, <2>1, <2>2, <2>3
<1> QED
  BY <1>1, <1>2, <1>4, WritesLinger DEF Lingering

---------------------------------------------------------------------------
(* They preserve the invariant.                                            *)

\* A run's grant outlives the steps that keep what succeeded.
LEMMA GrantKept ==
  ASSUME NEW r \in Runs, Granted(r),
         \A d \in Commands : cmd[d].status = "succeeded" => cmd'[d].status = "succeeded"
  PROVE  Granted(r)'
  BY DEF Granted, Submissions

LEMMA NoneScheduledApart ==
  ASSUME NEW c \in Commands, c \in ApiCommands
  PROVE  /\ KindOf[c] \notin {"POLL_TRANSACTION_RECEIPT", "POLL_RELAY_FINALIZATION", "FETCH_DA_PROOF",
                              "VERIFY_PROOF", "BROADCAST_RELAYER_TRANSACTION"}
         /\ \A k \in 2..5 : KindOf[c] \notin WorkAt(k)
<1>1. KindOf[c] \in SubmissionKinds \cup {"VERIFY_CONSUMER", "VERIFY_DEPLOYED_CONSUMER"}
  BY PipelineAssumption DEF OfKind
<1> QED
  BY <1>1 DEF SubmissionKinds, WorkAt

LEMMA LingeringChain ==
  ASSUME QueueInv, Chain, Lingering
  PROVE  Chain'
<1>1. \A r \in Runs : \A k : Passed(r, k)' <=> Passed(r, k)
  BY DEF Lingering, Lingers, Passed
<1>2. \A r \in Runs : Terminal(journal[r]) => Terminal(journal'[r])
  BY DEF Lingering, Lingers
<1>3. \A c \in Commands : /\ cmd[c].status = "succeeded" <=> cmd'[c].status = "succeeded"
                          /\ Scheduled(c) => Scheduled(c)'
                          /\ ~Scheduled(c) /\ Scheduled(c)' => c \in ApiCommands
  BY DEF Lingering, Scheduled
<1>4. RunOf \in [Commands -> Runs]
  BY QueueAssumption
<1>5. \A r \in Runs : Granted(r) => Granted(r)'
  BY <1>3, GrantKept
<1>6. \A r, kind : AllScheduled(r, kind) => AllScheduled(r, kind)'
  BY <1>3 DEF AllScheduled
<1>7. StagesHaveEvidence'
  BY DEF Chain, StagesHaveEvidence, Lingering, Lingers
<1>8. ASSUME NEW r \in Runs, NEW c \in Submissions(r)', NEW d \in Submissions(r)', c # d PROVE FALSE
  <2>1. /\ c \in Commands /\ RunOf[c] = r /\ KindOf[c] \in SubmissionKinds
        /\ cmd'[c].status \notin {"absent", "cancelled"}
        /\ d \in Commands /\ RunOf[d] = r /\ KindOf[d] \in SubmissionKinds
        /\ cmd'[d].status \notin {"absent", "cancelled"}
    BY <1>8 DEF Submissions
  <2>2. ~(c \in Submissions(r) /\ d \in Submissions(r))
    BY <1>8 DEF Chain, OneExplicitSubmission
  <2>3. cmd[c].status = "absent" \/ cmd[d].status = "absent"
    BY <2>1, <2>2 DEF Lingering, Submissions
  <2>4. ASSUME cmd[c].status = "absent" PROVE FALSE
    BY <1>8, <2>1, <2>4 DEF Lingering, ActiveSubmission
  <2>5. ASSUME cmd[d].status = "absent" PROVE FALSE
    BY <1>8, <2>1, <2>5 DEF Lingering, ActiveSubmission
  <2> QED BY <2>3, <2>4, <2>5
<1>9. OneExplicitSubmission'
  <2>1. \A r \in Runs : Passed(r, 3)' => Granted(r)'
    BY <1>1, <1>5 DEF Chain, OneExplicitSubmission, Passed, Granted
  <2> QED BY <1>8, <2>1 DEF OneExplicitSubmission, Passed, Granted
<1>10. ScheduledInTurn'
  BY <1>1, <1>3, <1>4, NoneScheduledApart DEF Chain, ScheduledInTurn
<1>11. Undisturbed'
  <2> SUFFICES ASSUME NEW c \in Commands, NEW k \in 2..5, KindOf[c] \in WorkAt(k),
                      Passed(RunOf[c], k)', ~Passed(RunOf[c], k + 1)', ~Terminal(journal'[RunOf[c]])
               PROVE  Clean(journal'[RunOf[c]], c)
    BY DEF Undisturbed, JournalOf
  <2>1. RunOf[c] \in Runs
    BY <1>4
  <2>2. Clean(JournalOf(c), c)
    BY <1>1, <1>2, <2>1 DEF Chain, Undisturbed, JournalOf
  <2> QED BY <2>1, <2>2 DEF Lingering, Lingers, JournalOf
<1>12. SuccessorsScheduled'
  BY <1>1, <1>2, <1>6 DEF Chain, SuccessorsScheduled
<1>13. WorkDone'
  BY <1>1, <1>3, <1>4, <1>6 DEF Chain, WorkDone
<1>14. ReplaysEnd'
  BY <1>1, <1>2 DEF Chain, ReplaysEnd
<1>15. BroadcastsGranted'
  <2>1. \A c \in Commands : KindOf[c] = "BROADCAST_RELAYER_TRANSACTION" /\ Scheduled(c)' => Scheduled(c)
    BY <1>3, NoneScheduledApart
  <2> QED BY <1>4, <1>5, <2>1 DEF Chain, BroadcastsGranted
<1>16. BundleLast' /\ PreflightPassed'
  BY <1>1 DEF Chain, BundleLast, PreflightPassed, Lingering
<1> QED
  BY <1>7, <1>9, <1>10, <1>11, <1>12, <1>13, <1>14, <1>15, <1>16 DEF Chain

---------------------------------------------------------------------------
(* A delivery.                                                             *)

LEMMA LifecycleNames ==
  /\ Lifecycle[2] = "PREFLIGHT_ACCEPTED" /\ Lifecycle[3] = "REQUEST_SUBMITTED"
  /\ Lifecycle[4] = "ROUND_FINALIZED" /\ Lifecycle[5] = "PROOF_AVAILABLE"
  /\ Lifecycle[6] = "PROOF_VERIFIED" /\ Lifecycle[7] = "CONSUMER_VERIFIED"
  BY DEF Lifecycle

\* What the result res of command c, from snapshot x, does to the state.
Delivered(c, x, res) ==
  LET r == RunOf[c] IN
  /\ c \in Commands /\ r \in Runs
  /\ Facts(KindOf[c], x, res)
  /\ x.mode = ModeOf[r] /\ x.artifacts \subseteq artifacts[r]
  /\ \A k \in 1..7 : Has(x, Lifecycle[k]) => Passed(r, k)
  /\ \A k \in 1..7 : Passed(r, k)' <=> Passed(r, k) \/ Lifecycle[k] \in TypesOf(res.events)
  /\ \E evs : Writes(c, evs) /\ \A i \in 1..Len(evs) : ~IsRecovery(evs[i])
  /\ Terminal(journal[r]) => Terminal(journal'[r])
  /\ "CONSUMER_VERIFIED" \in TypesOf(res.events) => Terminal(journal'[r])
  /\ artifacts'[r] = artifacts[r] \cup res.adds
  /\ \A s \in Runs : s # r => artifacts'[s] = artifacts[s]
  /\ cmd[c].status = "leased" /\ cmd'[c].status = "succeeded"
  /\ \A d \in Commands : d # c =>
       IF d \in Children(r, res.next) /\ cmd[d].status = "absent"
       THEN cmd'[d].status = "queued" ELSE cmd'[d] = cmd[d]

\* What a snapshot shows is committed.
LEMMA SnapshotIsPast ==
  ASSUME QueueInv, NEW w \in Workers, NEW j \in Journals, worker[w].seen <= Len(j),
         NEW type, NEW x, x.events = SubSeq(j, 1, worker[w].seen), Has(x, type)
  PROVE  \E i \in DOMAIN j : j[i].type = type
<1> PICK n : n = worker[w].seen
  OBVIOUS
<1>1. n \in Nat /\ n <= Len(j) /\ Len(j) \in Nat /\ DOMAIN j = 1..Len(j)
  BY DEF QueueInv, QueueTypeOK, WorkerState, Journals
<1>2. \A i \in 1..n : i \in DOMAIN j /\ j[i] \in Event(Commands)
  BY <1>1, EventTyped
<1>3. /\ SubSeq(j, 1, n) \in Seq(Event(Commands))
      /\ Len(SubSeq(j, 1, n)) = IF 1 <= n THEN n - 1 + 1 ELSE 0
      /\ \A i \in 1..n - 1 + 1 : SubSeq(j, 1, n)[i] = j[1 + i - 1]
  BY <1>1, <1>2, SubSeqProperties
<1>4. PICK i \in DOMAIN x.events : x.events[i].type = type
  BY DEF Has
<1>5. i \in 1..n /\ x.events[i] = j[i]
  <2>1. DOMAIN x.events = 1..Len(SubSeq(j, 1, n))
    BY <1>3
  <2>2. Len(SubSeq(j, 1, n)) = n
    BY <1>1, <1>3
  <2>3. i \in 1..n /\ i \in 1..n - 1 + 1 /\ 1 + i - 1 = i
    BY <1>1, <1>4, <2>1, <2>2
  <2> QED BY <1>3, <2>3
<1> QED
  BY <1>2, <1>4, <1>5

LEMMA DeliveryFacts ==
  ASSUME QueueInv, PipelineTypeOK, SnapshotOK, NEW w \in Workers,
         NEW res \in Handle(KindOf[worker[w].cmd], Context(w)), Delivers(w, res)
  PROVE  \E c, x : c = worker[w].cmd /\ Delivered(c, x, res)
<1> PICK c : c = worker[w].cmd
  OBVIOUS
<1> PICK r : r = RunOf[c]
  OBVIOUS
<1> PICK x : x = Context(w)
  OBVIOUS
<1> PICK evs : evs = OutcomeEvents(c, res.events)
  OBVIOUS
<1>1. worker[w].pc = "running" /\ res.throws = "none" /\ Busy(w) /\ Complete(w, res.events, Children(r, res.next))
  BY DEF Delivers, Busy
<1>2. c \in Commands /\ r \in Runs /\ KindOf[c] \in Kinds
  BY <1>1, QueueAssumption, PipelineAssumption DEF QueueInv, ClaimsOK
<1>3. Facts(KindOf[c], x, res)
  BY <1>1, <1>2, HandlerFacts
<1>4. res \in Result /\ res.events \in Outcomes
  BY <1>2, HandlerResults, OutcomeAssumption DEF Result
<1>5. /\ Writes(c, evs)
      /\ cmd[c].status = "leased" /\ cmd'[c].status = "succeeded"
  BY <1>1, <1>4, CompleteWrites
<1>6. /\ x.mode = ModeOf[r] /\ x.artifacts = view[w]
      /\ x.events = SubSeq(journal[r], 1, worker[w].seen)
  BY DEF Context
<1>7. worker[w].seen <= Len(journal[r]) /\ view[w] \subseteq artifacts[r]
  BY <1>1 DEF SnapshotOK
<1>8. \A k \in 1..7 : Has(x, Lifecycle[k]) => Passed(r, k)
  <2>1. journal[r] \in Journals
    BY <1>2 DEF QueueInv, QueueTypeOK, Journals
  <2>2. \A type : Has(x, type) => \E i \in DOMAIN journal[r] : journal[r][i].type = type
    BY <1>6, <1>7, <2>1, SnapshotIsPast
  <2> QED BY <2>2 DEF Passed, Reached
<1>9. Extension(journal'[r], journal[r], evs)
  BY <1>5 DEF Writes, JournalOf
<1>10. TypesOf(res.events) = {evs[i].type : i \in 1..Len(evs)}
  <2>1. Len(evs) = Len(res.events) /\ \A i \in 1..Len(res.events) : evs[i].type = res.events[i].type
    BY <1>2, <1>4, OutcomeEventsShape
  <2>2. DOMAIN res.events = 1..Len(res.events)
    BY <1>4, QueueAssumption
  <2> QED BY <2>1, <2>2 DEF TypesOf
<1>11. \A k \in 1..7 : Passed(r, k)' <=> Passed(r, k) \/ Lifecycle[k] \in TypesOf(res.events)
  <2>1. \A k \in 1..7 : k \in Reached(journal'[r]) <=>
          k \in Reached(journal[r]) \/ \E i \in 1..Len(evs) : evs[i].type = Lifecycle[k]
    BY <1>9, ReachedGrows
  <2>2. \A type : type \in TypesOf(res.events) <=> \E i \in 1..Len(evs) : evs[i].type = type
    BY <1>10
  <2> QED BY <2>1, <2>2 DEF Passed
<1>12. Terminal(journal[r]) => Terminal(journal'[r])
  BY <1>9, EndIsKept
<1>13. "CONSUMER_VERIFIED" \in TypesOf(res.events) => Terminal(journal'[r])
  <2>1. 7 \in 1..7 /\ Lifecycle[7] = "CONSUMER_VERIFIED"
    BY LifecycleNames
  <2>2. "CONSUMER_VERIFIED" \in TypesOf(res.events) => 7 \in Reached(journal'[r])
    BY <1>11, <2>1 DEF Passed
  <2> QED BY <2>2, EndIsFailureOrVerdict
<1>14. /\ artifacts'[r] = artifacts[r] \cup res.adds
       /\ \A s \in Runs : s # r => artifacts'[s] = artifacts[s]
  BY <1>2 DEF Delivers, PipelineTypeOK
<1>15. \A d \in Commands : d # c =>
         IF d \in Children(r, res.next) /\ cmd[d].status = "absent"
         THEN cmd'[d].status = "queued" ELSE cmd'[d] = cmd[d]
  BY <1>1 DEF Complete, Fresh
<1>16. \A i \in 1..Len(evs) : ~IsRecovery(evs[i])
  BY <1>2, <1>4, OutcomeEventsShape
<1>17. \E e : Writes(c, e) /\ \A i \in 1..Len(e) : ~IsRecovery(e[i])
  BY <1>5, <1>16
<1> QED
  BY <1>2, <1>3, <1>5, <1>6, <1>7, <1>8, <1>11, <1>12, <1>13, <1>14, <1>15, <1>17 DEF Delivered

---------------------------------------------------------------------------
(* It preserves the invariant.                                             *)

\* An event of a run that goes on is the next stage of its lifecycle, and the
\* commands that work from there have not been claimed before.
LEMMA DeliveredUndisturbed ==
  ASSUME QueueFacts, LifecycleInv', Undisturbed, ScheduledInTurn, NEW c, NEW x, NEW res,
         Delivered(c, x, res)
  PROVE  Undisturbed'
<1> SUFFICES ASSUME NEW d \in Commands, NEW k \in 2..5, KindOf[d] \in WorkAt(k),
                    Passed(RunOf[d], k)', ~Passed(RunOf[d], k + 1)', ~Terminal(journal'[RunOf[d]])
             PROVE  Clean(journal'[RunOf[d]], d)
  BY DEF Undisturbed, JournalOf
<1> PICK r : r = RunOf[d]
  OBVIOUS
<1> PICK j : j = journal[r]
  OBVIOUS
<1> PICK t : t = journal'[r]
  OBVIOUS
<1>1. r \in Runs /\ QueueTypeOK
  BY QueueAssumption DEF QueueFacts, QueueInv
<1>2. k \in Reached(t) /\ k + 1 \notin Reached(t) /\ ~Terminal(t)
  BY DEF Passed
<1>3. k \in Reached(j) /\ k + 1 \notin Reached(j) /\ ~Terminal(j) => Clean(j, d)
  BY DEF Undisturbed, Passed, JournalOf
<1>4. PICK evs : Writes(c, evs) /\ \A i \in 1..Len(evs) : ~IsRecovery(evs[i])
  BY DEF Delivered
<1>5. CASE r # RunOf[c]
  BY <1>1, <1>2, <1>3, <1>4, <1>5 DEF Writes
<1>6. CASE r = RunOf[c]
  <2>1. Extension(t, j, evs) /\ AcceptsAll(j, evs)
    BY <1>4, <1>6 DEF Writes, JournalOf
  <2>2. CASE evs = <<>>
    <3>1. t = j
      BY <2>1, <2>2, NothingAppended
    <3> QED BY <1>2, <1>3, <3>1
  <2>3. CASE evs # <<>>
    <3>1. Len(evs) > 0 /\ 1 \in 1..Len(evs)
      BY <2>1, <2>3, NotEmpty DEF Extension
    <3>2. ~IsRecovery(evs[1]) /\ Accepts(j, evs[1])
      BY <1>4, <2>1, <3>1, FirstAccepted
    <3>3. ~Failed(t)
      BY <1>2, EndIsFailureOrVerdict
    <3>4. evs[1].type # "RUN_FAILED"
      BY <2>1, <3>1, <3>3, ReachedGrows
    <3>5. PICK m \in 1..7 : evs[1].type = Lifecycle[m] /\ Reached(j) = 1..(m - 1)
      BY <3>2, <3>4 DEF Accepts, LifecycleFits
    <3>6. m \in Reached(t)
      BY <2>1, <3>1, <3>5, ReachedGrows
    <3>7. k \notin Reached(j)
      <4>1. PICK n \in 1..7 : Reached(t) = 1..n
        BY <1>1 DEF LifecycleInv, PhaseOK
      <4>2. n = k
        BY <1>2, <4>1
      <4> QED BY <3>5, <3>6, <4>1, <4>2
    <3>8. cmd[d].attempts = 0
      BY <1>1, <3>7 DEF ScheduledInTurn, Passed, Scheduled, QueueTypeOK, RowOK
    <3>9. \A i \in DOMAIN j : ~IsEvidence(j[i], d)
      <4>1. \A i \in DOMAIN j : IsEvidence(j[i], d) => j[i].attempt <= 0 /\ j[i].attempt > 0
        BY <1>1, <3>8 DEF QueueFacts, EvidenceOrdered, Ordered, Bounded, JournalOf, HistoryInv,
                          EvidenceOK, IsEvidence
      <4>2. \A i \in DOMAIN j : j[i].attempt \in Nat
        BY <2>1, EventTyped DEF Extension
      <4> QED BY <4>1, <4>2
    <3>10. ASSUME NEW i \in DOMAIN t PROVE ~IsEvidence(t[i], d)
      <4>1. i \in DOMAIN j => t[i] = j[i]
        BY <2>1, EventsAreKept
      <4>2. i \notin DOMAIN j => i - Len(j) \in 1..Len(evs) /\ t[i] = evs[i - Len(j)]
        BY <2>1 DEF Extension
      <4> QED BY <1>4, <3>9, <4>1, <4>2 DEF IsEvidence
    <3> QED BY <3>10 DEF Clean
  <2> QED BY <2>2, <2>3
<1> QED
  BY <1>5, <1>6

\* Everything else of the invariant follows from what the results say.
LEMMA DeliveryShape ==
  ASSUME NEW c, NEW x, NEW res, Delivered(c, x, res)
  PROVE  /\ \A s \in Runs : s # RunOf[c] =>
              /\ \A k : Passed(s, k)' <=> Passed(s, k)
              /\ journal'[s] = journal[s] /\ artifacts'[s] = artifacts[s]
         /\ \A s \in Runs : \A k \in 1..7 : Passed(s, k) => Passed(s, k)'
         /\ \A s \in Runs : Terminal(journal[s]) => Terminal(journal'[s])
         /\ \A d \in Commands :
              /\ cmd[d].status = "succeeded" => cmd'[d].status = "succeeded"
              /\ cmd'[d].status = "succeeded" /\ d # c => cmd[d].status = "succeeded"
              /\ Scheduled(d) => Scheduled(d)'
              /\ ~Scheduled(d) /\ Scheduled(d)' => RunOf[d] = RunOf[c] /\ KindOf[d] \in res.next
         /\ \A s, kind : AllScheduled(s, kind) => AllScheduled(s, kind)'
         /\ \A s \in Runs : Granted(s) => Granted(s)'
<1>1. \A s \in Runs : s # RunOf[c] => journal'[s] = journal[s] /\ artifacts'[s] = artifacts[s]
  BY DEF Delivered, Writes
<1>2. \A d \in Commands :
        /\ cmd[d].status = "succeeded" => cmd'[d].status = "succeeded"
        /\ cmd'[d].status = "succeeded" /\ d # c => cmd[d].status = "succeeded"
        /\ Scheduled(d) => Scheduled(d)'
        /\ ~Scheduled(d) /\ Scheduled(d)' => RunOf[d] = RunOf[c] /\ KindOf[d] \in res.next
  BY DEF Delivered, Scheduled, Children
<1>3. \A s \in Runs : s # RunOf[c] => \A k : Passed(s, k)' <=> Passed(s, k)
  BY <1>1 DEF Passed
<1>4. \A s \in Runs : \A k \in 1..7 : Passed(s, k) => Passed(s, k)'
  BY <1>3 DEF Delivered
<1>5. \A s \in Runs : Terminal(journal[s]) => Terminal(journal'[s])
  BY <1>1 DEF Delivered
<1>6. \A s, kind : AllScheduled(s, kind) => AllScheduled(s, kind)'
  BY <1>2 DEF AllScheduled
<1>7. \A s \in Runs : Granted(s) => Granted(s)'
  BY <1>2, GrantKept
<1> QED
  BY <1>1, <1>2, <1>3, <1>4, <1>5, <1>6, <1>7

\* The children of a kind a result asks for are all of that kind of the run.
LEMMA ChildrenScheduled ==
  ASSUME NEW c, NEW x, NEW res, Delivered(c, x, res), NEW kind \in res.next
  PROVE  AllScheduled(RunOf[c], kind)'
<1> SUFFICES ASSUME NEW d \in Commands, RunOf[d] = RunOf[c], KindOf[d] = kind
             PROVE  cmd'[d].status # "absent"
  BY DEF AllScheduled, Scheduled
<1>1. CASE d = c
  BY <1>1 DEF Delivered
<1>2. CASE d # c
  BY <1>2 DEF Delivered, Children
<1> QED BY <1>1, <1>2

LEMMA KnownIsPassed ==
  ASSUME NEW c, NEW x, NEW res, Delivered(c, x, res), NEW k \in 1..7, Known(x, res, Lifecycle[k])
  PROVE  Passed(RunOf[c], k)'
  BY DEF Delivered, Known

LEMMA DeliveredInTurn ==
  ASSUME ScheduledInTurn, PreflightPassed, NEW c, NEW x, NEW res, Delivered(c, x, res)
  PROVE  ScheduledInTurn'
<1> SUFFICES ASSUME NEW d \in Commands, NEW k \in 2..5, KindOf[d] \in WorkAt(k), Scheduled(d)'
             PROVE  Passed(RunOf[d], k)'
  BY DEF ScheduledInTurn
<1>1. RunOf[d] \in Runs /\ k \in 1..7
  BY QueueAssumption
<1>2. CASE Scheduled(d)
  BY <1>1, <1>2, DeliveryShape DEF ScheduledInTurn
<1>3. CASE ~Scheduled(d)
  <2>1. RunOf[d] = RunOf[c] /\ KindOf[d] \in res.next
    BY <1>3, DeliveryShape
  <2>2. ChildFacts(KindOf[c], x, res) /\ c \in Commands /\ Scheduled(c)
    BY DEF Delivered, Facts, Scheduled
  <2>3. KindOf[d] = "POLL_RELAY_FINALIZATION" => Passed(RunOf[c], 3)
    BY <2>1, <2>2 DEF ChildFacts, ScheduledInTurn, WorkAt
  <2>4. KindOf[d] = "POLL_RELAY_FINALIZATION" => Passed(RunOf[c], 3)'
    BY <1>1, <2>1, <2>3, DeliveryShape
  <2>5. /\ KindOf[d] = "POLL_TRANSACTION_RECEIPT" => Known(x, res, Lifecycle[3])
        /\ KindOf[d] = "FETCH_DA_PROOF" => Known(x, res, Lifecycle[4])
        /\ KindOf[d] = "VERIFY_PROOF" => Known(x, res, Lifecycle[5])
    BY <2>1, <2>2, LifecycleNames DEF ChildFacts
  <2>6. /\ KindOf[d] = "POLL_TRANSACTION_RECEIPT" => Passed(RunOf[c], 3)'
        /\ KindOf[d] = "FETCH_DA_PROOF" => Passed(RunOf[c], 4)'
        /\ KindOf[d] = "VERIFY_PROOF" => Passed(RunOf[c], 5)'
    BY <2>5, KnownIsPassed
  <2>7. KindOf[d] = "BROADCAST_RELAYER_TRANSACTION" => Passed(RunOf[c], 2)
    BY <1>1, <2>1, <2>2 DEF ChildFacts, PreflightPassed, Delivered
  <2>8. KindOf[d] = "BROADCAST_RELAYER_TRANSACTION" => Passed(RunOf[c], 2)'
    BY <1>1, <2>1, <2>7, DeliveryShape
  <2> QED BY <2>1, <2>4, <2>6, <2>8 DEF WorkAt
<1> QED BY <1>2, <1>3

\* A stage that a delivery adds to the run is one its result reports.
LEMMA NewIsSaid ==
  ASSUME NEW c, NEW x, NEW res, Delivered(c, x, res), NEW s \in Runs, NEW k \in 1..7,
         Passed(s, k)', ~Passed(s, k)
  PROVE  s = RunOf[c] /\ Lifecycle[k] \in TypesOf(res.events)
<1>1. s = RunOf[c]
  BY DeliveryShape
<1> QED BY <1>1 DEF Delivered

LEMMA DeliveredSuccessors ==
  ASSUME SuccessorsScheduled, NEW c, NEW x, NEW res, Delivered(c, x, res)
  PROVE  SuccessorsScheduled'
<1> DEFINE says == TypesOf(res.events)
<1>1. SuccessorFacts(res) /\ ("CONSUMER_VERIFIED" \in says => Terminal(journal'[RunOf[c]]))
  BY DEF Delivered, Facts
<1>2. ASSUME NEW s \in Runs, ~Terminal(journal'[s]), NEW k \in {3, 4, 5}, NEW kind,
             Passed(s, k)', Passed(s, k) => AllScheduled(s, kind),
             ~("CONSUMER_VERIFIED" \in says) /\ Lifecycle[k] \in says => kind \in res.next
      PROVE  AllScheduled(s, kind)'
  <2>1. CASE Passed(s, k)
    BY <1>2, <2>1, DeliveryShape
  <2>2. CASE ~Passed(s, k)
    <3>1. s = RunOf[c] /\ Lifecycle[k] \in says
      BY <1>2, <2>2, NewIsSaid
    <3> QED BY <1>1, <1>2, <3>1, ChildrenScheduled
  <2> QED BY <2>1, <2>2
<1>3. ASSUME NEW s \in Runs, ~Terminal(journal'[s])
      PROVE  /\ Passed(s, 3)' => AllScheduled(s, "POLL_TRANSACTION_RECEIPT")'
             /\ Passed(s, 4)' => AllScheduled(s, "FETCH_DA_PROOF")'
             /\ Passed(s, 5)' => AllScheduled(s, "VERIFY_PROOF")'
  <2>1. /\ Passed(s, 3) => AllScheduled(s, "POLL_TRANSACTION_RECEIPT")
        /\ Passed(s, 4) => AllScheduled(s, "FETCH_DA_PROOF")
        /\ Passed(s, 5) => AllScheduled(s, "VERIFY_PROOF")
    BY <1>3, DeliveryShape DEF SuccessorsScheduled
  <2>2. "CONSUMER_VERIFIED" \notin says =>
          /\ Lifecycle[3] \in says => "POLL_TRANSACTION_RECEIPT" \in res.next
          /\ Lifecycle[4] \in says => "FETCH_DA_PROOF" \in res.next
          /\ Lifecycle[5] \in says => "VERIFY_PROOF" \in res.next
    BY <1>1, LifecycleNames DEF SuccessorFacts
  <2> QED BY <1>2, <1>3, <2>1, <2>2
<1>4. ASSUME NEW s \in Runs, Passed(s, 7)' PROVE AllScheduled(s, "BUILD_PROOF_BUNDLE")'
  <2>1. CASE Passed(s, 7)
    BY <2>1, DeliveryShape DEF SuccessorsScheduled
  <2>2. CASE ~Passed(s, 7)
    <3>1. s = RunOf[c] /\ Lifecycle[7] \in says
      BY <1>4, <2>2, NewIsSaid
    <3>2. "BUILD_PROOF_BUNDLE" \in res.next
      BY <1>1, <3>1, LifecycleNames DEF SuccessorFacts
    <3> QED BY <3>1, <3>2, ChildrenScheduled
  <2> QED BY <2>1, <2>2
<1> QED
  BY <1>3, <1>4 DEF SuccessorsScheduled

LEMMA DeliveredWork ==
  ASSUME WorkDone, NEW c, NEW x, NEW res, Delivered(c, x, res)
  PROVE  WorkDone'
<1> SUFFICES ASSUME NEW d \in Commands, cmd'[d].status = "succeeded"
             PROVE  /\ KindOf[d] = "BROADCAST_RELAYER_TRANSACTION" => Passed(RunOf[d], 3)'
                    /\ KindOf[d] = "POLL_TRANSACTION_RECEIPT" =>
                         AllScheduled(RunOf[d], "POLL_RELAY_FINALIZATION")'
                    /\ KindOf[d] = "POLL_RELAY_FINALIZATION" => Passed(RunOf[d], 4)'
                    /\ KindOf[d] = "FETCH_DA_PROOF" => Passed(RunOf[d], 5)'
                    /\ KindOf[d] = "VERIFY_PROOF" => Passed(RunOf[d], 6)'
  BY DEF WorkDone
<1>1. RunOf[d] \in Runs
  BY QueueAssumption
<1>2. CASE d # c
  BY <1>1, <1>2, DeliveryShape DEF WorkDone
<1>3. CASE d = c
  <2>1. WorkFacts(KindOf[c], x, res)
    BY DEF Delivered, Facts
  <2>2. KindOf[d] = "POLL_TRANSACTION_RECEIPT" => AllScheduled(RunOf[d], "POLL_RELAY_FINALIZATION")'
    BY <1>3, <2>1, ChildrenScheduled DEF WorkFacts
  <2>3. /\ KindOf[c] = "BROADCAST_RELAYER_TRANSACTION" => Known(x, res, Lifecycle[3])
        /\ KindOf[c] = "POLL_RELAY_FINALIZATION" => Known(x, res, Lifecycle[4])
        /\ KindOf[c] = "FETCH_DA_PROOF" => Known(x, res, Lifecycle[5])
        /\ KindOf[c] = "VERIFY_PROOF" => Known(x, res, Lifecycle[6])
    BY <2>1, LifecycleNames DEF WorkFacts
  <2> QED BY <1>3, <2>2, <2>3, KnownIsPassed
<1> QED BY <1>2, <1>3

LEMMA DeliveredReplays ==
  ASSUME ReplaysEnd, NEW c, NEW x, NEW res, Delivered(c, x, res)
  PROVE  ReplaysEnd'
<1> SUFFICES ASSUME NEW s \in Runs, ModeOf[s] = "replay", Passed(s, 3)' PROVE Terminal(journal'[s])
  BY DEF ReplaysEnd
<1>1. CASE Passed(s, 3)
  BY <1>1, DeliveryShape DEF ReplaysEnd
<1>2. CASE ~Passed(s, 3)
  <2>1. s = RunOf[c] /\ Lifecycle[3] \in TypesOf(res.events)
    BY <1>2, NewIsSaid
  <2>2. GrantFacts(KindOf[c], x, res) /\ x.mode = "replay"
    BY <2>1 DEF Delivered, Facts
  <2>3. "CONSUMER_VERIFIED" \in TypesOf(res.events)
    BY <2>1, <2>2, LifecycleNames DEF GrantFacts
  <2> QED BY <2>1, <2>3 DEF Delivered
<1> QED BY <1>1, <1>2

\* A submission of the run's own mode that delivers is the run's grant.
LEMMA DeliveryGrants ==
  ASSUME NEW c, NEW x, NEW res, Delivered(c, x, res),
         KindOf[c] \in SubmissionKinds, ModeFor(KindOf[c]) = x.mode
  PROVE  Granted(RunOf[c])'
  BY DEF Delivered, Granted, Submissions

LEMMA DeliveredBroadcasts ==
  ASSUME BroadcastsGranted, NEW c, NEW x, NEW res, Delivered(c, x, res)
  PROVE  BroadcastsGranted'
<1> SUFFICES ASSUME NEW d \in Commands, KindOf[d] = "BROADCAST_RELAYER_TRANSACTION", Scheduled(d)'
             PROVE  Granted(RunOf[d])'
  BY DEF BroadcastsGranted
<1>1. CASE Scheduled(d)
  BY <1>1, QueueAssumption, DeliveryShape DEF BroadcastsGranted
<1>2. CASE ~Scheduled(d)
  <2>1. RunOf[d] = RunOf[c] /\ "BROADCAST_RELAYER_TRANSACTION" \in res.next
    BY <1>2, DeliveryShape
  <2>2. KindOf[c] = "SUBMIT_RELAYER" /\ ModeFor(KindOf[c]) = x.mode
    BY <2>1 DEF Delivered, Facts, GrantFacts
  <2> QED BY <2>1, <2>2, DeliveryGrants DEF SubmissionKinds
<1> QED BY <1>1, <1>2

LEMMA DeliveredExplicit ==
  ASSUME OneExplicitSubmission, BroadcastsGranted, NEW c, NEW x, NEW res, Delivered(c, x, res)
  PROVE  OneExplicitSubmission'
<1>1. ASSUME NEW s \in Runs PROVE Submissions(s)' \subseteq Submissions(s)
  <2> SUFFICES ASSUME NEW d \in Submissions(s)' PROVE d \in Submissions(s)
    OBVIOUS
  <2>1. d \in Commands /\ RunOf[d] = s /\ KindOf[d] \in SubmissionKinds
        /\ cmd'[d].status \notin {"absent", "cancelled"}
    BY DEF Submissions
  <2>2. KindOf[d] \notin res.next
    BY <2>1 DEF Delivered, Facts, ChildFacts
  <2>3. cmd[d].status \notin {"absent", "cancelled"}
    BY <2>1, <2>2 DEF Delivered, Children
  <2> QED BY <2>1, <2>3 DEF Submissions
<1>2. ASSUME NEW s \in Runs, Passed(s, 3)' PROVE Granted(s)'
  <2>1. CASE Passed(s, 3)
    <3>1. Granted(s)
      BY <2>1 DEF OneExplicitSubmission, Passed, Granted
    <3> QED BY <3>1, DeliveryShape
  <2>2. CASE ~Passed(s, 3)
    <3>1. s = RunOf[c] /\ "REQUEST_SUBMITTED" \in TypesOf(res.events)
      BY <1>2, <2>2, NewIsSaid, LifecycleNames
    <3>2. \/ KindOf[c] = "BROADCAST_RELAYER_TRANSACTION"
          \/ KindOf[c] \in SubmissionKinds /\ ModeFor(KindOf[c]) = x.mode
      BY <3>1 DEF Delivered, Facts, GrantFacts
    <3>3. CASE KindOf[c] = "BROADCAST_RELAYER_TRANSACTION"
      <4>1. c \in Commands /\ Scheduled(c)
        BY DEF Delivered, Scheduled
      <4>2. Granted(s)
        BY <3>1, <3>3, <4>1 DEF BroadcastsGranted
      <4> QED BY <4>2, DeliveryShape
    <3> QED BY <3>1, <3>2, <3>3, DeliveryGrants
  <2> QED BY <2>1, <2>2
<1> QED
  BY <1>1, <1>2 DEF OneExplicitSubmission, Passed, Granted

LEMMA DeliveredEvidence ==
  ASSUME StagesHaveEvidence, NEW c, NEW x, NEW res, Delivered(c, x, res)
  PROVE  StagesHaveEvidence'
<1> SUFFICES ASSUME NEW s \in Runs
             PROVE  /\ Passed(s, 2)' => "preflight-evidence" \in artifacts'[s]
                    /\ Passed(s, 4)' /\ ModeOf[s] # "replay" =>
                         {"receipt-evidence", "relay-evidence"} \subseteq artifacts'[s]
                    /\ Passed(s, 5)' => "proof-evidence" \in artifacts'[s]
                    /\ Passed(s, 6)' => "verification-evidence" \in artifacts'[s]
                    /\ Passed(s, 7)' => {"consumer-evidence", "safe-consumer"} \subseteq artifacts'[s]
  BY DEF StagesHaveEvidence, Passed
<1>1. /\ Passed(s, 2) => "preflight-evidence" \in artifacts[s]
      /\ Passed(s, 4) /\ ModeOf[s] # "replay" =>
           {"receipt-evidence", "relay-evidence"} \subseteq artifacts[s]
      /\ Passed(s, 5) => "proof-evidence" \in artifacts[s]
      /\ Passed(s, 6) => "verification-evidence" \in artifacts[s]
      /\ Passed(s, 7) => {"consumer-evidence", "safe-consumer"} \subseteq artifacts[s]
  BY DEF StagesHaveEvidence, Passed
<1>2. CASE s # RunOf[c]
  BY <1>1, <1>2, DeliveryShape
<1>3. CASE s = RunOf[c]
  <2>1. /\ artifacts'[s] = artifacts[s] \cup res.adds
        /\ x.artifacts \subseteq artifacts[s] /\ x.mode = ModeOf[s]
        /\ EvidenceFacts(x, res)
    BY <1>3 DEF Delivered, Facts
  <2>2. \A k \in 1..7 : Passed(s, k)' => Passed(s, k) \/ Lifecycle[k] \in TypesOf(res.events)
    BY NewIsSaid
  <2>3. /\ Passed(s, 2)' => Passed(s, 2) \/ "PREFLIGHT_ACCEPTED" \in TypesOf(res.events)
        /\ Passed(s, 4)' => Passed(s, 4) \/ "ROUND_FINALIZED" \in TypesOf(res.events)
        /\ Passed(s, 5)' => Passed(s, 5) \/ "PROOF_AVAILABLE" \in TypesOf(res.events)
        /\ Passed(s, 6)' => Passed(s, 6) \/ "PROOF_VERIFIED" \in TypesOf(res.events)
        /\ Passed(s, 7)' => Passed(s, 7) \/ "CONSUMER_VERIFIED" \in TypesOf(res.events)
    <3>1. 2 \in 1..7 /\ 4 \in 1..7 /\ 5 \in 1..7 /\ 6 \in 1..7 /\ 7 \in 1..7
      OBVIOUS
    <3> QED BY <2>2, <3>1, LifecycleNames
  <2> QED BY <1>1, <2>1, <2>3 DEF EvidenceFacts
<1> QED BY <1>2, <1>3

LEMMA DeliveredBundle ==
  ASSUME BundleLast, NEW c, NEW x, NEW res, Delivered(c, x, res)
  PROVE  BundleLast'
<1> SUFFICES ASSUME NEW s \in Runs, "proof-bundle" \in artifacts'[s] PROVE Passed(s, 7)'
  BY DEF BundleLast
<1>1. CASE "proof-bundle" \in artifacts[s]
  BY <1>1, DeliveryShape DEF BundleLast
<1>2. CASE "proof-bundle" \notin artifacts[s]
  <2>1. s = RunOf[c]
    BY <1>2, DeliveryShape
  <2>2. "proof-bundle" \in res.adds
    BY <1>2, <2>1 DEF Delivered
  <2>3. Has(x, Lifecycle[7])
    BY <2>2, LifecycleNames DEF Delivered, Facts, EvidenceFacts
  <2> QED BY <2>1, <2>3, KnownIsPassed DEF Known
<1> QED BY <1>1, <1>2

LEMMA DeliveredPreflight ==
  ASSUME PreflightPassed, NEW c, NEW x, NEW res, Delivered(c, x, res)
  PROVE  PreflightPassed'
<1> SUFFICES ASSUME NEW s \in Runs, "preflight-evidence" \in artifacts'[s] PROVE Passed(s, 2)'
  BY DEF PreflightPassed
<1>1. CASE "preflight-evidence" \in artifacts[s]
  BY <1>1, DeliveryShape DEF PreflightPassed
<1>2. CASE "preflight-evidence" \notin artifacts[s]
  <2>1. s = RunOf[c]
    BY <1>2, DeliveryShape
  <2>2. "preflight-evidence" \in res.adds
    BY <1>2, <2>1 DEF Delivered
  <2>3. Known(x, res, Lifecycle[2])
    BY <2>2, LifecycleNames DEF Delivered, Facts, EvidenceFacts, Known
  <2> QED BY <2>1, <2>3, KnownIsPassed
<1> QED BY <1>1, <1>2

LEMMA DeliveredChain ==
  ASSUME QueueFacts, LifecycleInv', Chain, NEW c, NEW x, NEW res, Delivered(c, x, res)
  PROVE  Chain'
  BY DeliveredUndisturbed, DeliveredInTurn, DeliveredSuccessors, DeliveredWork, DeliveredReplays,
     DeliveredBroadcasts, DeliveredExplicit, DeliveredEvidence, DeliveredPreflight, DeliveredBundle
  DEF Chain

---------------------------------------------------------------------------
(* Every step.                                                             *)

LEMMA HandlersAreStepwise == \A out \in HandlerOutcomes : Stepwise(out)
<1> SUFFICES ASSUME NEW out \in HandlerOutcomes PROVE Stepwise(out)
  OBVIOUS
<1>1. Stepwise(<<>>)
  BY DEF Stepwise
<1>2. ASSUME NEW e, VerdictFits(e) PROVE Stepwise(<<e>>)
  BY <1>2 DEF Stepwise
<1>3. ASSUME NEW t, t # "CONSUMER_VERIFIED" PROVE Stepwise(<<Effect(t)>>)
  <2>1. VerdictFits(Effect(t))
    BY <1>3 DEF VerdictFits, Effect
  <2> QED BY <1>2, <2>1
<1>4. ASSUME NEW v \in Verdicts
      PROVE  /\ Stepwise(<<[type |-> "CONSUMER_VERIFIED", info |-> v]>>)
             /\ Stepwise(ReplayEffects(v))
  <2>1. VerdictFits([type |-> "CONSUMER_VERIFIED", info |-> v])
    BY DEF VerdictFits, Verdicts
  <2>2. Stepwise(<<[type |-> "CONSUMER_VERIFIED", info |-> v]>>)
    BY <1>2, <2>1
  <2>3. PICK e : e = ReplayEffects(v)
    OBVIOUS
  <2>4. Len(e) = 5 /\ e[5] = [type |-> "CONSUMER_VERIFIED", info |-> v]
    BY <2>3 DEF ReplayEffects
  <2>5. /\ e[1].type = "REQUEST_SUBMITTED" /\ e[2].type = "ROUND_FINALIZED"
        /\ e[3].type = "PROOF_AVAILABLE" /\ e[4].type = "PROOF_VERIFIED"
        /\ e[5].type = "CONSUMER_VERIFIED"
    BY <2>3 DEF ReplayEffects, Effect
  <2>6. \A i \in 1..5 : e[i].type = Lifecycle[i + 2]
    <3>1. \A i \in 1..5 : i = 1 \/ i = 2 \/ i = 3 \/ i = 4 \/ i = 5
      OBVIOUS
    <3>2. /\ e[1].type = Lifecycle[1 + 2] /\ e[2].type = Lifecycle[2 + 2]
          /\ e[3].type = Lifecycle[3 + 2] /\ e[4].type = Lifecycle[4 + 2]
          /\ e[5].type = Lifecycle[5 + 2]
      BY <2>5, LifecycleNames
    <3> QED BY <3>1, <3>2
  <2>7. Stepwise(e)
    BY <2>1, <2>4, <2>6 DEF Stepwise
  <2> QED BY <2>2, <2>3, <2>7
<1>5. VerdictFits([type |-> "RUN_FAILED", info |-> "preflight"])
  BY DEF VerdictFits
<1>6. Stepwise(<<[type |-> "RUN_FAILED", info |-> "preflight"]>>)
  BY <1>2, <1>5
<1>7. \/ out = <<>>
      \/ out = <<[type |-> "RUN_FAILED", info |-> "preflight"]>>
      \/ \E t \in {"PREFLIGHT_ACCEPTED", "REQUEST_SUBMITTED", "ROUND_FINALIZED",
                   "PROOF_AVAILABLE", "PROOF_VERIFIED"} : out = <<Effect(t)>>
      \/ \E v \in Verdicts : out = <<[type |-> "CONSUMER_VERIFIED", info |-> v]>>
      \/ \E v \in Verdicts : out = ReplayEffects(v)
  BY ONLY out \in HandlerOutcomes DEF HandlerOutcomes
<1> QED
  BY <1>1, <1>3, <1>4, <1>6, <1>7

LEMMA PipelineWritesBatch ==
  ASSUME QueueInv, [PipelineNext]_pipelineVars
  PROVE  WritesBatch
<1>1. ASSUME NEW w \in Workers, NEW res \in Handle(KindOf[worker[w].cmd], Context(w)), Delivers(w, res)
      PROVE  WritesBatch
  <2>1. KindOf[worker[w].cmd] \in Kinds
    BY <1>1, PipelineAssumption DEF Delivers, Busy, QueueInv, ClaimsOK
  <2>2. res.events \in Outcomes /\ Stepwise(res.events)
    BY <2>1, HandlerResults, OutcomeAssumption, HandlersAreStepwise DEF Result
  <2>3. \E children : Complete(w, res.events, children)
    BY <1>1 DEF Delivers
  <2> QED BY <2>2, <2>3, CompleteBatch
<1>2. ASSUME NEW c \in Commands, DeadlinePasses(c) PROVE WritesBatch
  BY <1>2 DEF DeadlinePasses, WritesBatch
<1>3. ASSUME NEW c, Insert(c) PROVE WritesBatch
  BY <1>3 DEF Insert, Enqueue, WritesBatch
<1>4. journal' = journal => WritesBatch
  BY DEF WritesBatch
<1> QED
  BY <1>1, <1>2, <1>3, <1>4, PipelineShape, ClaimBatch, RetryBatch

LEMMA QueueFactsStep ==
  ASSUME QueueFacts, [PipelineNext]_pipelineVars
  PROVE  QueueFacts'
<1>1. [QueueNext]_queueVars /\ WritesBatch
  BY PipelineStepIsQueueStep, PipelineWritesBatch DEF QueueFacts
<1>2. QueueInv' /\ HistoryInv' /\ EvidenceOrdered'
  BY <1>1, QueueStepInv, HistoryStep, OrderStep DEF QueueFacts
<1>3. LifecycleInv'
  BY <1>1, BatchIsPromised DEF QueueFacts
<1>4. Created'
  BY <1>1, CreationStep DEF QueueFacts, WritesBatch
<1> QED
  BY <1>2, <1>3, <1>4 DEF QueueFacts

\* Journals and evidence only grow.
LEMMA EvidenceGrows ==
  ASSUME QueueInv, PipelineTypeOK, [PipelineNext]_pipelineVars, NEW r \in Runs
  PROVE  /\ Len(journal[r]) \in Nat /\ Len(journal'[r]) \in Nat
         /\ Len(journal[r]) <= Len(journal'[r])
         /\ artifacts[r] \subseteq artifacts'[r]
<1>1. Len(journal[r]) \in Nat
  BY DEF QueueInv, QueueTypeOK
<1>2. Len(journal'[r]) \in Nat /\ Len(journal[r]) <= Len(journal'[r])
  <2>1. CASE journal' = journal
    BY <1>1, <2>1
  <2>2. ASSUME NEW c \in Commands, NEW evs \in Journals, Writes(c, evs)
        PROVE  Len(journal'[r]) \in Nat /\ Len(journal[r]) <= Len(journal'[r])
    BY <1>1, <2>2 DEF Writes, Extension, JournalOf
  <2> QED BY <2>1, <2>2, PipelineWritesBatch DEF WritesBatch
<1>3. artifacts[r] \subseteq artifacts'[r]
  <2>1. ASSUME NEW w \in Workers, NEW res, Delivers(w, res) PROVE artifacts[r] \subseteq artifacts'[r]
    BY <2>1 DEF Delivers, PipelineTypeOK
  <2> QED BY <2>1, PipelineShape
<1> QED
  BY <1>1, <1>2, <1>3

LEMMA SnapshotStep ==
  ASSUME QueueInv, QueueInv', PipelineTypeOK, SnapshotOK, [PipelineNext]_pipelineVars
  PROVE  SnapshotOK'
<1> SUFFICES ASSUME NEW w \in Workers, worker'[w].pc = "running"
             PROVE  /\ worker'[w].seen <= Len(journal'[RunOf[worker'[w].cmd]])
                    /\ view'[w] \subseteq artifacts'[RunOf[worker'[w].cmd]]
  BY DEF SnapshotOK
<1> PICK r : r = RunOf[worker'[w].cmd]
  OBVIOUS
<1>1. r \in Runs /\ worker'[w].seen \in Nat
  BY QueueAssumption DEF QueueInv, ClaimsOK, QueueTypeOK, WorkerState, Busy
<1>2. CASE worker'[w] = worker[w] /\ view'[w] = view[w]
  <2>1. worker'[w].seen <= Len(journal[r]) /\ view'[w] \subseteq artifacts[r]
    BY <1>2 DEF SnapshotOK
  <2> QED BY <1>1, <2>1, EvidenceGrows
<1>3. CASE LoadContext(w)
  <2>1. /\ worker'[w].cmd = worker[w].cmd /\ worker'[w].seen = Len(journal[RunOf[worker[w].cmd]])
        /\ view'[w] = artifacts[RunOf[worker[w].cmd]]
    BY <1>3 DEF LoadContext, Load, JournalOf, PipelineTypeOK, QueueTypeOK, WorkerState
  <2>2. journal' = journal /\ artifacts' = artifacts
    BY <1>3 DEF LoadContext, Load
  <2> QED BY <1>1, <2>1, <2>2
<1> QED
  BY <1>2, <1>3, RunningKeeps

LEMMA TypeStep ==
  ASSUME QueueInv, QueueInv', PipelineTypeOK, [PipelineNext]_pipelineVars
  PROVE  PipelineTypeOK'
<1>1. QueueTypeOK'
  BY DEF QueueInv
<1>2. artifacts' \in [Runs -> SUBSET Evidence]
  <2>1. ASSUME NEW w \in Workers, NEW res \in Handle(KindOf[worker[w].cmd], Context(w)), Delivers(w, res)
        PROVE  artifacts' \in [Runs -> SUBSET Evidence]
    <3>1. KindOf[worker[w].cmd] \in Kinds /\ RunOf[worker[w].cmd] \in Runs
      BY <2>1, QueueAssumption, PipelineAssumption DEF Delivers, Busy, QueueInv, ClaimsOK
    <3>2. res.adds \subseteq Evidence
      BY <3>1, HandlerResults DEF Result
    <3> QED BY <2>1, <3>1, <3>2 DEF Delivers, PipelineTypeOK
  <2> QED BY <2>1, PipelineShape DEF PipelineTypeOK
<1>3. view' \in [Workers -> SUBSET Evidence] /\ admitted' \subseteq ApiCommands
  <2>1. CASE UNCHANGED pipelineVars
    BY <2>1 DEF pipelineVars, PipelineTypeOK
  <2>2. CASE Surroundings
    BY <2>2 DEF Surroundings, Admit, Insert, InsertRefused, DeadlineTurn, PipelineTypeOK
  <2>3. ASSUME NEW w \in Workers, Aside(w)
        PROVE  view' \in [Workers -> SUBSET Evidence] /\ admitted' = admitted
    BY <2>3 DEF Aside, PipelineTypeOK
  <2>4. ASSUME NEW w \in Workers, LoadContext(w)
        PROVE  view' \in [Workers -> SUBSET Evidence] /\ admitted' = admitted
    <3>1. worker[w].cmd \in Commands
      BY <2>4 DEF LoadContext, Load, Busy, QueueInv, ClaimsOK
    <3> QED BY <2>4, <3>1, QueueAssumption DEF LoadContext, PipelineTypeOK
  <2>5. ASSUME NEW w \in Workers, HandlerEnds(w)
        PROVE  view' \in [Workers -> SUBSET Evidence] /\ admitted' = admitted
    <3>1. PICK res : Return(w, res) \/ Fail(w, res)
      BY <2>5 DEF HandlerEnds
    <3>2. Return(w, res) => view' \in [Workers -> SUBSET Evidence] /\ admitted' = admitted
      BY DEF Return, PipelineTypeOK
    <3> QED BY <2>3, <3>1, <3>2 DEF Fail
  <2> QED BY <2>1, <2>2, <2>3, <2>4, <2>5 DEF PipelineNext, PipelineTurn, CrashTurn, PipelineTypeOK
<1> QED
  BY <1>1, <1>2, <1>3 DEF PipelineTypeOK

\* A run stays where it is, or a worker delivers.
LEMMA LingeringOrDelivery ==
  ASSUME PipelineInv, [PipelineNext]_pipelineVars
  PROVE  \/ Lingering
         \/ \E w \in Workers :
              \E res \in Handle(KindOf[worker[w].cmd], Context(w)) :
                /\ Delivers(w, res)
                /\ \E c, x : c = worker[w].cmd /\ Delivered(c, x, res)
<1>1. QueueInv /\ PipelineTypeOK /\ SnapshotOK
  BY DEF PipelineInv, QueueFacts
<1>2. ASSUME artifacts' = artifacts, UNCHANGED <<journal, cmd>> PROVE Lingering
  BY <1>2, StaysLingers DEF Lingering
<1> QED
  BY <1>1, <1>2, PipelineShape, DeliveryFacts, InsertLingers, DeadlineLingers, ClaimLingers,
     RetryLingers

LEMMA PipelineStep == PipelineInv /\ [PipelineNext]_pipelineVars => PipelineInv'
<1> SUFFICES ASSUME PipelineInv, [PipelineNext]_pipelineVars PROVE PipelineInv'
  OBVIOUS
<1>1. QueueFacts /\ PipelineTypeOK /\ SnapshotOK /\ Chain /\ QueueInv
  BY DEF PipelineInv, QueueFacts
<1>2. QueueFacts' /\ QueueInv' /\ LifecycleInv'
  BY <1>1, QueueFactsStep DEF QueueFacts
<1>3. PipelineTypeOK' /\ SnapshotOK'
  BY <1>1, <1>2, TypeStep, SnapshotStep
<1>4. Chain'
  BY <1>1, <1>2, LingeringOrDelivery, LingeringChain, DeliveredChain
<1> QED
  BY <1>2, <1>3, <1>4 DEF PipelineInv

\* No row is ever deleted.
LEMMA ScheduledStays ==
  ASSUME PipelineInv, [PipelineNext]_pipelineVars, NEW d \in Commands, Scheduled(d)
  PROVE  Scheduled(d)'
<1>1. Lingering => Scheduled(d)'
  BY DEF Lingering, Scheduled
<1>2. ASSUME NEW c, NEW x, NEW res, Delivered(c, x, res) PROVE Scheduled(d)'
  BY <1>2, DeliveryShape
<1> QED
  BY <1>1, <1>2, LingeringOrDelivery

LEMMA PipelineStart == PipelineInit => PipelineInv
<1> SUFFICES ASSUME PipelineInit PROVE PipelineInv
  OBVIOUS
<1>1. QueueInit /\ artifacts = [r \in Runs |-> {}] /\ view = [w \in Workers |-> {}] /\ admitted = {}
  BY DEF PipelineInit
<1>2. \A r \in Runs : journal[r] = <<RunCreated>>
  BY <1>1 DEF QueueInit
<1>3. QueueFacts
  <2>1. Created
    BY <1>2 DEF Created
  <2> QED BY <1>1, <2>1, QueueInitInv, HistoryInit, OrderInit, LifecycleStart DEF QueueFacts
<1>4. PipelineTypeOK
  BY <1>1, <1>3 DEF PipelineTypeOK, QueueFacts, QueueInv
<1>5. SnapshotOK
  BY <1>1 DEF SnapshotOK, QueueInit, Idle
<1>6. \A r \in Runs : \A k \in 2..7 : ~Passed(r, k)
  <2>1. \A e : e = RunCreated => \A k \in 2..7 : e.type # Lifecycle[k]
    BY LifecycleNames DEF RunCreated
  <2>2. ASSUME NEW r \in Runs, NEW i \in DOMAIN journal[r] PROVE journal[r][i] = RunCreated
    BY <1>2, <2>2
  <2> QED BY <2>1, <2>2 DEF Passed, Reached
<1>7. \A c \in Commands : /\ Scheduled(c) => KindOf[c] = "RUN_PREFLIGHT"
                          /\ cmd[c].status # "succeeded"
  BY <1>1, PipelineAssumption DEF QueueInit, Fresh, Absent, Scheduled, OfKind
<1>8. RunOf \in [Commands -> Runs]
  BY QueueAssumption
<1>9. StagesHaveEvidence /\ ReplaysEnd /\ SuccessorsScheduled
  BY <1>6 DEF StagesHaveEvidence, ReplaysEnd, SuccessorsScheduled, Passed
<1>10. OneExplicitSubmission
  <2>1. \A r \in Runs : Submissions(r) = {}
    BY <1>7 DEF Submissions, Scheduled, SubmissionKinds
  <2> QED BY <1>6, <2>1 DEF OneExplicitSubmission, Passed
<1>11. ScheduledInTurn /\ Undisturbed
  BY <1>6, <1>7, <1>8 DEF ScheduledInTurn, Undisturbed, WorkAt
<1>12. WorkDone /\ BroadcastsGranted
  BY <1>7 DEF WorkDone, BroadcastsGranted
<1>13. BundleLast /\ PreflightPassed
  BY <1>1 DEF BundleLast, PreflightPassed
<1> QED
  BY <1>3, <1>4, <1>5, <1>9, <1>10, <1>11, <1>12, <1>13 DEF PipelineInv, Chain

LEMMA PipelineInvariant == PipelineSpec => []PipelineInv
  BY PipelineStart, PipelineStep, PTL DEF PipelineSpec

---------------------------------------------------------------------------
(* Results.                                                                *)

\* The state of the pipeline stays well typed, whatever the handlers answer, the
\* workers do and the API admits (production-service.ts, worker.ts, postgres.ts).
THEOREM PipelineTyped == PipelineSpec => []PipelineTypeOK
<1>1. PipelineInv => PipelineTypeOK
  BY DEF PipelineInv
<1> QED
  BY <1>1, PipelineInvariant, PTL

\* In every reachable state, whichever workers crash or repeat a command, a stage
\* that a run claims has its evidence persisted (completeCommand commits both).
THEOREM EvidenceComesWithStages == PipelineSpec => []StagesHaveEvidence
<1>1. PipelineInv => StagesHaveEvidence
  BY DEF PipelineInv, Chain
<1> QED
  BY <1>1, PipelineInvariant, PTL

\* Whatever requests race and commands are cancelled, a run has at most one
\* submission in force, and one of its own mode took effect before anything was
\* submitted for it (createSubmission, attachTransaction, migration 005).
THEOREM SubmissionIsExplicit == PipelineSpec => []OneExplicitSubmission
<1>1. PipelineInv => OneExplicitSubmission
  BY DEF PipelineInv, Chain
<1> QED
  BY <1>1, PipelineInvariant, PTL

\* Commands are the rows that may come to exist: this says that every run of the
\* given modes may get a row of each of the kinds.
MayHave(modes, kinds) ==
  \A r \in Runs : ModeOf[r] \in modes =>
    \A kind \in kinds : \E c \in Commands : RunOf[c] = r /\ KindOf[c] = kind

\* Only a concluded run has a bundle, and a concluded run has one or had a command
\* to build it, if rows of that kind can exist at all (VERIFY_CONSUMER and
\* APPLY_REPLAY_EVIDENCE in worker.ts).
THEOREM BundleOfTheEnd ==
  ASSUME MayHave(Modes, {"BUILD_PROOF_BUNDLE"})
  PROVE  PipelineSpec => []BundleOfConcludedRun
<1>1. PipelineInv => BundleOfConcludedRun
  <2> SUFFICES ASSUME PipelineInv, NEW r \in Runs
               PROVE  /\ "proof-bundle" \in artifacts[r] => Passed(r, 7)
                      /\ Passed(r, 7) => \E c \in OfKind("BUILD_PROOF_BUNDLE") :
                                           RunOf[c] = r /\ cmd[c].status # "absent"
    BY DEF BundleOfConcludedRun, Passed
  <2>1. BundleLast /\ SuccessorsScheduled
    BY DEF PipelineInv, Chain
  <2>2. PICK c \in Commands : RunOf[c] = r /\ KindOf[c] = "BUILD_PROOF_BUNDLE"
    BY PipelineAssumption DEF MayHave
  <2> QED BY <2>1, <2>2 DEF BundleLast, SuccessorsScheduled, AllScheduled, Scheduled, OfKind
<1> QED
  BY <1>1, PipelineInvariant, PTL

\* The commands that take a run from its submission to its verified proof.
ChainKinds ==
  {"POLL_TRANSACTION_RECEIPT", "POLL_RELAY_FINALIZATION", "FETCH_DA_PROOF", "VERIFY_PROOF"}

\* In an open run, a command of the chain that is scheduled and not done can be
\* claimed, now or when its deadline has passed.
LEMMA WaitingIsReclaimable ==
  ASSUME PipelineInv, NEW c \in Commands, NEW k \in 2..5, KindOf[c] \in WorkAt(k),
         ~Terminal(JournalOf(c)), Passed(RunOf[c], k), ~Passed(RunOf[c], k + 1),
         Scheduled(c), cmd[c].status # "succeeded"
  PROVE  cmd[c].status \in {"queued", "leased"} /\ Reclaimable(c)
<1>1. KindOf[c] # "VERIFY_DEPLOYED_CONSUMER"
  BY DEF WorkAt
<1>2. c \notin Auxiliary
  BY <1>1, PipelineAssumption DEF OfKind
<1>3. cmd[c].status \in Status /\ LostWorkIsReported
  BY DEF PipelineInv, QueueFacts, QueueInv, QueueTypeOK, CommandRow, HistoryInv
<1>4. cmd[c].status \in {"queued", "leased"}
  BY <1>2, <1>3 DEF LostWorkIsReported, Status, Scheduled
<1>5. Clean(JournalOf(c), c)
  BY DEF PipelineInv, Chain, Undisturbed
<1> QED
  BY <1>2, <1>4, <1>5, CleanIsReclaimable DEF PipelineInv, QueueFacts

\* A submitted run that is open and has no verified proof never waits for nobody:
\* whatever crashed, was repeated or came late, a command of its chain can be
\* claimed (the child commands of the handlers in worker.ts).
THEOREM OpenRunsGoOn ==
  ASSUME MayHave(Modes \ {"replay"}, ChainKinds)
  PROVE  PipelineSpec => []OpenRunHasWork
<1>1. PipelineInv => OpenRunHasWork
  <2> SUFFICES ASSUME PipelineInv, NEW r \in Runs, Passed(r, 3), ~Passed(r, 6), ~Terminal(journal[r])
               PROVE  \E c \in Commands : /\ RunOf[c] = r /\ KindOf[c] # "VERIFY_CONSUMER"
                                          /\ cmd[c].status \in {"queued", "leased"} /\ Reclaimable(c)
    BY DEF OpenRunHasWork, Passed
  <2> DEFINE work(c) == /\ RunOf[c] = r /\ KindOf[c] # "VERIFY_CONSUMER"
                        /\ cmd[c].status \in {"queued", "leased"} /\ Reclaimable(c)
  <2>1. SuccessorsScheduled /\ WorkDone /\ ReplaysEnd
    BY DEF PipelineInv, Chain
  <2>2. ModeOf[r] \in Modes \ {"replay"}
    BY <2>1, PipelineAssumption DEF ReplaysEnd
  <2>3. PICK receipt \in Commands : RunOf[receipt] = r /\ KindOf[receipt] = "POLL_TRANSACTION_RECEIPT"
    BY <2>2 DEF MayHave, ChainKinds
  <2>4. PICK relay \in Commands : RunOf[relay] = r /\ KindOf[relay] = "POLL_RELAY_FINALIZATION"
    BY <2>2 DEF MayHave, ChainKinds
  <2>5. PICK fetch \in Commands : RunOf[fetch] = r /\ KindOf[fetch] = "FETCH_DA_PROOF"
    BY <2>2 DEF MayHave, ChainKinds
  <2>6. PICK verify \in Commands : RunOf[verify] = r /\ KindOf[verify] = "VERIFY_PROOF"
    BY <2>2 DEF MayHave, ChainKinds
  <2>7. ASSUME NEW c \in Commands, NEW k \in 2..5, RunOf[c] = r, KindOf[c] \in WorkAt(k),
               Passed(r, k), ~Passed(r, k + 1), Scheduled(c), cmd[c].status # "succeeded"
        PROVE  work(c)
    <3>1. KindOf[c] # "VERIFY_CONSUMER" /\ ~Terminal(JournalOf(c))
      BY <2>7 DEF WorkAt, JournalOf
    <3> QED BY <2>7, <3>1, WaitingIsReclaimable
  <2> HIDE DEF work
  <2>8. CASE ~Passed(r, 4)
    <3>1. Scheduled(receipt)
      BY <2>1, <2>3 DEF SuccessorsScheduled, AllScheduled
    <3>2. KindOf[receipt] \in WorkAt(3) /\ KindOf[relay] \in WorkAt(3) /\ 3 \in 2..5 /\ 3 + 1 = 4
      BY <2>3, <2>4 DEF WorkAt
    <3>3. CASE cmd[receipt].status # "succeeded"
      BY <2>3, <2>7, <2>8, <3>1, <3>2, <3>3 DEF work
    <3>4. CASE cmd[receipt].status = "succeeded"
      <4>1. Scheduled(relay) /\ cmd[relay].status # "succeeded"
        BY <2>1, <2>3, <2>4, <2>8, <3>4 DEF WorkDone, AllScheduled
      <4> QED BY <2>4, <2>7, <2>8, <3>2, <4>1 DEF work
    <3> QED BY <3>3, <3>4
  <2>9. CASE Passed(r, 4) /\ ~Passed(r, 5)
    <3>1. Scheduled(fetch) /\ cmd[fetch].status # "succeeded"
      BY <2>1, <2>5, <2>9 DEF SuccessorsScheduled, AllScheduled, WorkDone
    <3>2. KindOf[fetch] \in WorkAt(4) /\ 4 \in 2..5 /\ 4 + 1 = 5
      BY <2>5 DEF WorkAt
    <3> QED BY <2>5, <2>7, <2>9, <3>1, <3>2 DEF work
  <2>10. CASE Passed(r, 5)
    <3>1. Scheduled(verify) /\ cmd[verify].status # "succeeded"
      BY <2>1, <2>6, <2>10 DEF SuccessorsScheduled, AllScheduled, WorkDone
    <3>2. KindOf[verify] \in WorkAt(5) /\ 5 \in 2..5 /\ 5 + 1 = 6
      BY <2>6 DEF WorkAt
    <3> QED BY <2>6, <2>7, <2>10, <3>1, <3>2 DEF work
  <2> QED BY <2>8, <2>9, <2>10
<1> QED
  BY <1>1, PipelineInvariant, PTL

\* With the handlers of worker.ts nothing need be assumed of the outcomes: runs
\* move as RunLifecycle promises their readers.
THEOREM PipelineImplementsLifecycle == PipelineSpec => ImplementsLifecycle
<1>1. PipelineInit => Promise!Init
  BY LifecycleStart DEF PipelineInit
<1>2. PipelineInv /\ [PipelineNext]_pipelineVars => [Promise!Next]_(Promise!vars)
  BY PipelineWritesBatch, BatchIsPromised DEF PipelineInv, QueueFacts
<1> QED
  BY <1>1, <1>2, PipelineInvariant, PTL DEF PipelineSpec, ImplementsLifecycle, Promise!Spec

---------------------------------------------------------------------------
(***************************************************************************)
(* The relayer.  Its variables are the pipeline's and its own.             *)
(***************************************************************************)

RelayerAllVars == <<pipelineVars, relayerVars>>

---------------------------------------------------------------------------
(* Every step is a step of the queue, or none.                             *)

LEMMA EndIsTurn ==
  ASSUME QueueInv, NEW w \in Workers, SubmitReturns(w) \/ BroadcastReturns(w) \/ Break(w)
  PROVE  Turn(w)
<1> DEFINE submitted == Done(<<>>, {}, {"BROADCAST_RELAYER_TRANSACTION"})
           sent == Done(Unless(Context(w), "REQUEST_SUBMITTED"), {}, {"POLL_TRANSACTION_RECEIPT"})
<1>1. submitted \in Result /\ sent \in Result
  BY DoneIsResult, OutcomeForms DEF Stages, Kinds, SubmissionKinds
<1>2. Throw("retry") \in Result /\ Throw("terminal") \in Result
  BY ThrowIsResult DEF Failure
<1>3. CASE SubmitReturns(w)
  BY <1>1, <1>3, ResultIsTurn DEF SubmitReturns, Handling
<1>4. CASE BroadcastReturns(w)
  BY <1>1, <1>4, ResultIsTurn DEF BroadcastReturns, Handling
<1>5. CASE Break(w)
  BY <1>2, <1>5, ResultIsTurn DEF Break, Handling
<1> QED
  BY <1>3, <1>4, <1>5

LEMMA RelayerTurnIsQueueStep ==
  ASSUME QueueInv, NEW w \in Workers, RelayerTurn(w)
  PROVE  Turn(w) \/ UNCHANGED pipelineVars
<1>1. CASE FindForRun(w) \/ Sign(w) \/ Persist(w) \/ FindToBroadcast(w) \/ ClaimAttempt(w)
           \/ Reread(w) \/ Resolve(w) \/ Send(w) \/ Answered(w) \/ Mark(w)
  BY <1>1 DEF FindForRun, Sign, Persist, FindToBroadcast, ClaimAttempt, Reread, Resolve,
              Send, Answered, Mark, Proceed
<1> QED
  BY <1>1, EndIsTurn DEF RelayerTurn

LEMMA RelayerStepIsQueueStep ==
  QueueInv /\ [RelayerNext]_RelayerAllVars => [QueueNext]_queueVars
<1> SUFFICES ASSUME QueueInv, [RelayerNext]_RelayerAllVars PROVE [QueueNext]_queueVars
  OBVIOUS
<1>1. CASE Surroundings
  BY <1>1, SurroundingsAreQueueSteps
<1>2. CASE UNCHANGED pipelineVars
  BY <1>2 DEF pipelineVars, queueVars
<1>3. ASSUME NEW w \in Workers, RelayerTurn(w) PROVE [QueueNext]_queueVars
  BY <1>2, <1>3, RelayerTurnIsQueueStep DEF QueueNext
<1>4. ASSUME NEW w \in Workers, PipelineTurn(w) PROVE QueueNext
  BY <1>4, PipelineTurnIsTurn DEF QueueNext
<1>5. ASSUME NEW w \in Workers, CrashTurn(w) PROVE QueueNext
  BY <1>5 DEF CrashTurn, QueueNext, Turn
<1>6. ASSUME NEW r \in Runs, Arrive(r) PROVE UNCHANGED pipelineVars
  BY <1>6 DEF Arrive
<1> QED
  BY <1>1, <1>2, <1>3, <1>4, <1>5, <1>6 DEF RelayerNext, RelayerAllVars

LEMMA RelayerQueueInvariant == RelayerSpec => []QueueInv
<1>1. RelayerInit => QueueInv
  BY QueueInitInv DEF RelayerInit, PipelineInit
<1>2. QueueInv /\ [RelayerNext]_RelayerAllVars => QueueInv'
  BY RelayerStepIsQueueStep, QueueStepInv
<1> QED
  BY <1>1, <1>2, PTL DEF RelayerSpec, RelayerAllVars

---------------------------------------------------------------------------
(* The inductive invariant.                                                *)

Rows == {r \in Runs : transaction[r].status # "none"}

\* A worker past the start of a relayer handler is inside that handler.
StepOK ==
  /\ step \in [Workers -> [at : Places, nonce : Nat]]
  /\ \A w \in Workers : step[w].at # "start" => Handling(w, RelayerKinds)

RowsOK ==
  /\ transaction \in [Runs -> [status : Progress, nonce : Nat]]
  /\ sends \in [Runs -> Nat]
  /\ inFlight \subseteq Rows /\ network \subseteq Rows

\* The right to send is held by one worker, from the claimed attempt to the call.
SendOK ==
  /\ \A r \in Runs : sends[r] \in {0, 1}
  /\ \A r \in Runs : sends[r] = 1 => transaction[r].status \in {"attempted", "broadcast"}
  /\ \A w \in Workers : step[w].at = "send" =>
       sends[RunAt(w)] = 0 /\ transaction[RunAt(w)].status \in {"attempted", "broadcast"}
  /\ \A v, w \in Workers :
       step[v].at = "send" /\ step[w].at = "send" /\ RunAt(v) = RunAt(w) => v = w

\* The taken transactions use the nonces below the pending one, each once.
NonceOK ==
  /\ IsFiniteSet(network)
  /\ \A q, r \in Rows : transaction[q].nonce = transaction[r].nonce => q = r
  /\ \A r \in network : transaction[r].nonce < PendingNonce
  /\ \A k \in 0..(PendingNonce - 1) : \E r \in network : transaction[r].nonce = k
  /\ \A r \in Rows \ network : transaction[r].nonce = PendingNonce
  /\ \A w \in Workers : step[w].at = "persist" => step[w].nonce <= PendingNonce

RelayerInv == StepOK /\ RowsOK /\ SendOK /\ NonceOK

LEMMA RelayerInitInv == RelayerInit => RelayerInv
<1> SUFFICES ASSUME RelayerInit PROVE RelayerInv
  OBVIOUS
<1>1. StepOK
  BY DEF RelayerInit, StepOK, Begin, Places
<1>2. RowsOK /\ Rows = {}
  BY DEF RelayerInit, RowsOK, Rows, Progress
<1>3. SendOK
  BY DEF RelayerInit, SendOK, Begin
<1>4. IsFiniteSet({}) /\ Cardinality({}) = 0
  BY FS_EmptySet
<1>5. NonceOK
  BY <1>2, <1>4 DEF RelayerInit, NonceOK, PendingNonce, Begin
<1> QED
  BY <1>1, <1>2, <1>3, <1>5 DEF RelayerInv

---------------------------------------------------------------------------
(* Steps that touch neither rows nor network.                              *)

\* The run a worker past its handler's start works for.
LEMMA RunAtType ==
  ASSUME QueueInv, StepOK, NEW w \in Workers, step[w].at # "start"
  PROVE  RunAt(w) \in Runs
  BY QueueAssumption DEF StepOK, Handling, Busy, QueueInv, ClaimsOK, RunAt

LEMMA KeepInv ==
  ASSUME RelayerInv, UNCHANGED relayerVars,
         \A v \in Workers : step[v].at # "start" => worker'[v] = worker[v]
  PROVE  RelayerInv'
<1>1. StepOK' /\ RowsOK'
  BY DEF RelayerInv, StepOK, RowsOK, Rows, Handling, relayerVars
<1>2. \A v \in Workers : step[v].at # "start" => RunAt(v)' = RunAt(v)
  BY DEF RunAt
<1>3. SendOK'
  BY <1>2 DEF RelayerInv, SendOK, relayerVars
<1>4. NonceOK'
  BY DEF RelayerInv, NonceOK, Rows, PendingNonce, relayerVars
<1> QED
  BY <1>1, <1>3, <1>4 DEF RelayerInv

LEMMA MoveInv ==
  ASSUME RelayerInv, NEW w \in Workers, NEW s \in [at : Places, nonce : Nat],
         step' = [step EXCEPT ![w] = s], s.at # "send",
         s.at = "persist" => s.nonce <= PendingNonce,
         s.at # "start" => Handling(w, RelayerKinds)',
         UNCHANGED <<transaction, inFlight, network, sends>>,
         \A v \in Workers : v # w /\ step[v].at # "start" => worker'[v] = worker[v]
  PROVE  RelayerInv'
<1>1. step'[w] = s /\ \A v \in Workers : v # w => step'[v] = step[v]
  BY DEF RelayerInv, StepOK
<1>2. StepOK'
  BY <1>1 DEF RelayerInv, StepOK, Handling
<1>3. \A v \in Workers : v # w /\ step[v].at # "start" => RunAt(v)' = RunAt(v)
  BY DEF RunAt
<1>4. RowsOK'
  BY DEF RelayerInv, RowsOK, Rows
<1>5. SendOK'
  BY <1>1, <1>3 DEF RelayerInv, SendOK
<1>6. NonceOK'
  BY <1>1 DEF RelayerInv, NonceOK, Rows, PendingNonce
<1> QED
  BY <1>2, <1>4, <1>5, <1>6 DEF RelayerInv

\* A handler goes on without a change of rows or network.
LEMMA ProceedInv ==
  ASSUME RelayerInv, NEW w \in Workers, NEW p \in Places \ {"send", "persist"},
         Handling(w, RelayerKinds), Proceed(w, p),
         UNCHANGED <<transaction, inFlight, network, sends>>
  PROVE  RelayerInv'
<1> DEFINE s == [step[w] EXCEPT !.at = p]
<1>1. s \in [at : Places, nonce : Nat] /\ s.at = p
  BY DEF RelayerInv, StepOK
<1>2. step' = [step EXCEPT ![w] = s]
  BY DEF Proceed, RelayerInv, StepOK
<1>3. UNCHANGED worker
  BY DEF Proceed, pipelineVars
<1> HIDE DEF s
<1> QED
  BY <1>1, <1>2, <1>3, MoveInv DEF Handling

\* A handler ends, or its worker does.
LEMMA LeaveInv ==
  ASSUME QueueInv, RelayerInv, NEW w \in Workers, Turn(w), Leave(w),
         UNCHANGED <<transaction, inFlight, network, sends>>
  PROVE  RelayerInv'
<1>1. Begin \in [at : Places, nonce : Nat] /\ Begin.at = "start"
  BY DEF Begin, Places
<1>2. \A v \in Workers : v # w => worker'[v] = worker[v]
  BY TurnIsOwn DEF QueueInv
<1> QED
  BY <1>1, <1>2, MoveInv DEF Leave

---------------------------------------------------------------------------
(* Steps that do.                                                          *)

LEMMA PersistInv ==
  ASSUME QueueInv, RelayerInv, NEW w \in Workers, Persist(w)
  PROVE  RelayerInv'
<1> DEFINE r == RunAt(w)
           n == step[w].nonce
<1>1. r \in Runs /\ Handling(w, RelayerKinds) /\ n \in Nat /\ n <= PendingNonce
  BY RunAtType DEF Persist, RelayerInv, StepOK, NonceOK
<1>2. "return" \in Places \ {"send", "persist"}
  BY DEF Places
<1>3. CASE UNCHANGED transaction
  BY <1>1, <1>2, <1>3, ProceedInv DEF Persist
<1>4. CASE /\ transaction[r].status = "none"
           /\ \A q \in Runs : transaction[q].status # "none" => transaction[q].nonce # n
           /\ transaction' = [transaction EXCEPT ![r] = [status |-> "signed", nonce |-> n]]
  <2> UNCHANGED <<inFlight, network, sends, worker>>
    BY DEF Persist, Proceed, pipelineVars
  <2>1. /\ step' = [step EXCEPT ![w].at = "return"]
        /\ step \in [Workers -> [at : Places, nonce : Nat]]
    BY DEF Persist, Proceed, RelayerInv, StepOK
  <2>2. /\ step'[w].at = "return"
        /\ \A v \in Workers : v # w => step'[v] = step[v]
    BY <2>1
  <2>3. StepOK'
    BY <1>1, <2>1, <2>2 DEF RelayerInv, StepOK, Handling, Places
  <2>4. /\ transaction'[r] = [status |-> "signed", nonce |-> n]
        /\ \A q \in Runs : q # r => transaction'[q] = transaction[q]
    BY <1>1, <1>4 DEF RelayerInv, RowsOK
  <2>5. Rows' = Rows \cup {r} /\ r \notin Rows /\ r \notin network
    BY <1>1, <1>4, <2>4 DEF Rows, RelayerInv, RowsOK
  <2>6. RowsOK'
    BY <1>1, <1>4, <2>4, <2>5 DEF RelayerInv, RowsOK, Progress
  <2>7. sends[r] = 0
    BY <1>1, <1>4 DEF RelayerInv, SendOK
  <2>8. \A v \in Workers : RunAt(v)' = RunAt(v)
    BY DEF RunAt
  <2>9. \A v \in Workers : step'[v].at = "send" => RunAt(v) # r /\ RunAt(v) \in Runs
    BY <1>4, <2>2, RunAtType DEF RelayerInv, SendOK
  <2>10. SendOK'
    <3>1. \A q \in Runs : sends[q] = 1 => transaction'[q].status \in {"attempted", "broadcast"}
      BY <2>4, <2>7 DEF RelayerInv, SendOK
    <3>2. \A v \in Workers : step'[v].at = "send" =>
            sends[RunAt(v)] = 0 /\ transaction'[RunAt(v)].status \in {"attempted", "broadcast"}
      BY <2>2, <2>4, <2>9 DEF RelayerInv, SendOK
    <3> QED BY <2>2, <2>8, <3>1, <3>2 DEF RelayerInv, SendOK
  <2>11. PendingNonce \in Nat
    BY FS_CardinalityType DEF PendingNonce, RelayerInv, NonceOK
  <2>12. n = PendingNonce
    <3> SUFFICES ASSUME n < PendingNonce PROVE FALSE
      BY <1>1, <2>11
    <3>1. PICK q \in network : transaction[q].nonce = n
      BY <1>1, <2>11 DEF RelayerInv, NonceOK
    <3> QED BY <1>4, <3>1 DEF RelayerInv, RowsOK, Rows
  <2>13. NonceOK'
    <3>1. PendingNonce' = PendingNonce
      BY DEF PendingNonce
    <3>2. \A p, q \in Rows' : transaction'[p].nonce = transaction'[q].nonce => p = q
      BY <1>4, <2>4, <2>5 DEF RelayerInv, NonceOK, Rows
    <3>3. \A q \in network : transaction'[q] = transaction[q]
      BY <2>4, <2>5 DEF RelayerInv, RowsOK, Rows
    <3>4. \A q \in Rows' \ network : transaction'[q].nonce = PendingNonce
      BY <2>4, <2>5, <2>12 DEF RelayerInv, NonceOK, Rows
    <3>5. \A v \in Workers : step'[v].at = "persist" => step'[v].nonce <= PendingNonce
      BY <2>2 DEF RelayerInv, NonceOK
    <3> QED BY <3>1, <3>2, <3>3, <3>4, <3>5 DEF RelayerInv, NonceOK
  <2> QED BY <2>3, <2>6, <2>10, <2>13 DEF RelayerInv
<1> QED
  BY <1>3, <1>4 DEF Persist

\* The status of a row moves on, its nonce and everything else stay.
LEMMA StatusKeepsNonces ==
  ASSUME RelayerInv, NEW r \in Rows, NEW t \in {"attempted", "broadcast"},
         transaction' = [transaction EXCEPT ![r].status = t],
         UNCHANGED <<network, inFlight, sends>>,
         \A v \in Workers : step'[v].at = "persist" => step'[v] = step[v]
  PROVE  /\ RowsOK' /\ NonceOK'
         /\ transaction'[r].status = t
         /\ \A q \in Runs : q # r => transaction'[q] = transaction[q]
<1>1. r \in Runs /\ transaction \in [Runs -> [status : Progress, nonce : Nat]]
  BY DEF Rows, RelayerInv, RowsOK
<1>2. /\ transaction'[r].status = t /\ transaction'[r].nonce = transaction[r].nonce
      /\ \A q \in Runs : q # r => transaction'[q] = transaction[q]
      /\ transaction' \in [Runs -> [status : Progress, nonce : Nat]]
  BY <1>1 DEF Progress
<1>3. \A q \in Runs : transaction'[q].nonce = transaction[q].nonce
  BY <1>2
<1>4. Rows' = Rows
  BY <1>2 DEF Rows
<1>5. RowsOK'
  BY <1>2, <1>4 DEF RelayerInv, RowsOK
<1>6. PendingNonce' = PendingNonce /\ Rows \subseteq Runs /\ network \subseteq Runs
  BY DEF PendingNonce, Rows, RelayerInv, RowsOK
<1>7. NonceOK'
  BY <1>3, <1>4, <1>6 DEF RelayerInv, NonceOK
<1> QED
  BY <1>2, <1>5, <1>7

LEMMA ClaimAttemptInv ==
  ASSUME QueueInv, RelayerInv, NEW w \in Workers, ClaimAttempt(w)
  PROVE  RelayerInv'
<1> DEFINE r == RunAt(w)
<1>1. r \in Runs /\ Handling(w, RelayerKinds)
  BY RunAtType DEF ClaimAttempt, RelayerInv, StepOK
<1>2. CASE transaction[r].status # "signed"
  <2>1. "reread" \in Places \ {"send", "persist"}
    BY DEF Places
  <2> QED BY <1>1, <1>2, <2>1, ProceedInv DEF ClaimAttempt
<1>3. CASE transaction[r].status = "signed"
  <2> UNCHANGED <<inFlight, network, sends, worker>>
    BY <1>3 DEF ClaimAttempt, Proceed, pipelineVars
  <2>1. /\ step' = [step EXCEPT ![w].at = "send"]
        /\ step \in [Workers -> [at : Places, nonce : Nat]]
    BY <1>3 DEF ClaimAttempt, Proceed, RelayerInv, StepOK
  <2>2. step'[w].at = "send" /\ \A v \in Workers : v # w => step'[v] = step[v]
    BY <2>1
  <2>3. StepOK'
    BY <1>1, <2>1, <2>2 DEF RelayerInv, StepOK, Handling, Places
  <2>4. r \in Rows
    BY <1>1, <1>3 DEF Rows
  <2>5. /\ RowsOK' /\ NonceOK'
        /\ transaction'[r].status = "attempted"
        /\ \A q \in Runs : q # r => transaction'[q] = transaction[q]
    BY <1>3, <2>2, <2>4, StatusKeepsNonces DEF ClaimAttempt
  <2>6. sends[r] = 0
    BY <1>1, <1>3 DEF RelayerInv, SendOK
  <2>7. \A v \in Workers : v # w /\ step[v].at = "send" => RunAt(v) # r /\ RunAt(v) \in Runs
    BY <1>3, RunAtType DEF RelayerInv, SendOK
  <2>8. \A v \in Workers : RunAt(v)' = RunAt(v)
    BY DEF RunAt
  <2>9. SendOK'
    <3>1. \A q \in Runs : sends[q] = 1 => transaction'[q].status \in {"attempted", "broadcast"}
      BY <2>5 DEF RelayerInv, SendOK
    <3>2. \A v \in Workers : step'[v].at = "send" =>
            sends[RunAt(v)] = 0 /\ transaction'[RunAt(v)].status \in {"attempted", "broadcast"}
      BY <2>2, <2>5, <2>6, <2>7 DEF RelayerInv, SendOK
    <3>3. \A u, v \in Workers :
            step'[u].at = "send" /\ step'[v].at = "send" /\ RunAt(u) = RunAt(v) => u = v
      BY <2>2, <2>7 DEF RelayerInv, SendOK
    <3> QED BY <2>8, <3>1, <3>2, <3>3 DEF RelayerInv, SendOK
  <2> QED BY <2>3, <2>5, <2>9 DEF RelayerInv
<1> QED
  BY <1>2, <1>3

LEMMA SendInv ==
  ASSUME QueueInv, RelayerInv, NEW w \in Workers, Send(w)
  PROVE  RelayerInv'
<1> DEFINE r == RunAt(w)
<1> UNCHANGED <<transaction, network, worker>>
  BY DEF Send, Proceed, pipelineVars
<1>1. r \in Runs /\ Handling(w, RelayerKinds)
  BY RunAtType DEF Send, RelayerInv, StepOK
<1>2. sends[r] = 0 /\ transaction[r].status \in {"attempted", "broadcast"}
  BY DEF Send, RelayerInv, SendOK
<1>3. /\ step' = [step EXCEPT ![w].at = "answer"]
      /\ step \in [Workers -> [at : Places, nonce : Nat]]
  BY DEF Send, Proceed, RelayerInv, StepOK
<1>4. step'[w].at = "answer" /\ \A v \in Workers : v # w => step'[v] = step[v]
  BY <1>3
<1>5. StepOK'
  BY <1>1, <1>3, <1>4 DEF RelayerInv, StepOK, Handling, Places
<1>6. sends'[r] = 1 /\ \A q \in Runs : q # r => sends'[q] = sends[q]
  BY <1>1, <1>2 DEF Send, RelayerInv, RowsOK
<1>7. Rows' = Rows /\ r \in Rows
  BY <1>1, <1>2 DEF Rows
<1>8. RowsOK'
  BY <1>1, <1>7 DEF Send, RelayerInv, RowsOK
<1>9. \A v \in Workers : v # w /\ step[v].at = "send" => RunAt(v) # r /\ RunAt(v) \in Runs
  BY RunAtType DEF Send, RelayerInv, SendOK
<1>10. \A v \in Workers : RunAt(v)' = RunAt(v)
  BY DEF RunAt
<1>11. SendOK'
  BY <1>2, <1>4, <1>6, <1>9, <1>10 DEF RelayerInv, SendOK
<1>12. NonceOK'
  BY <1>4, <1>7 DEF RelayerInv, NonceOK, PendingNonce
<1> QED
  BY <1>5, <1>8, <1>11, <1>12 DEF RelayerInv

LEMMA MarkInv ==
  ASSUME QueueInv, RelayerInv, NEW w \in Workers, Mark(w)
  PROVE  RelayerInv'
<1> DEFINE r == RunAt(w)
<1> UNCHANGED <<inFlight, network, sends, worker>>
  BY DEF Mark, Proceed, pipelineVars
<1>1. r \in Runs /\ Handling(w, RelayerKinds)
  BY RunAtType DEF Mark, RelayerInv, StepOK
<1>2. /\ step' = [step EXCEPT ![w].at = "return"]
      /\ step \in [Workers -> [at : Places, nonce : Nat]]
  BY DEF Mark, Proceed, RelayerInv, StepOK
<1>3. step'[w].at = "return" /\ \A v \in Workers : v # w => step'[v] = step[v]
  BY <1>2
<1>4. StepOK'
  BY <1>1, <1>2, <1>3 DEF RelayerInv, StepOK, Handling, Places
<1>5. r \in Rows
  BY <1>1 DEF Mark, Rows
<1>6. /\ RowsOK' /\ NonceOK'
      /\ transaction'[r].status = "broadcast"
      /\ \A q \in Runs : q # r => transaction'[q] = transaction[q]
  BY <1>3, <1>5, StatusKeepsNonces DEF Mark
<1>7. \A v \in Workers : RunAt(v)' = RunAt(v)
  BY DEF RunAt
<1>8. SendOK'
  <2>1. \A q \in Runs : sends[q] = 1 => transaction'[q].status \in {"attempted", "broadcast"}
    BY <1>6 DEF RelayerInv, SendOK
  <2>2. \A v \in Workers : step'[v].at = "send" =>
          /\ step[v].at = "send" /\ sends[RunAt(v)] = 0
          /\ transaction'[RunAt(v)].status \in {"attempted", "broadcast"}
    BY <1>3, <1>6, RunAtType DEF RelayerInv, SendOK
  <2> QED BY <1>7, <2>1, <2>2 DEF RelayerInv, SendOK
<1> QED
  BY <1>4, <1>6, <1>8 DEF RelayerInv

\* The network takes the account's next transaction: no other one waits.
LEMMA ArriveInv ==
  ASSUME RelayerInv, NEW r \in Runs, Arrive(r)
  PROVE  RelayerInv'
<1> UNCHANGED <<transaction, sends, step, worker>>
  BY DEF Arrive, pipelineVars
<1>1. Rows' = Rows /\ r \in Rows
  BY DEF Rows, Arrive, RelayerInv, RowsOK
<1>2. StepOK' /\ RowsOK'
  BY <1>1 DEF Arrive, RelayerInv, StepOK, RowsOK, Handling
<1>3. SendOK'
  BY DEF RelayerInv, SendOK, RunAt
<1>4. PendingNonce \in Nat /\ IsFiniteSet(network)
  BY FS_CardinalityType DEF PendingNonce, RelayerInv, NonceOK
<1>5. r \notin network
  BY <1>4 DEF Arrive, RelayerInv, NonceOK
<1>6. network' = network \cup {r} /\ IsFiniteSet(network') /\ PendingNonce' = PendingNonce + 1
  BY <1>4, <1>5, FS_AddElement DEF Arrive, PendingNonce
<1>7. NonceOK'
  <2>1. \A q \in network' : transaction[q].nonce < PendingNonce + 1
    BY <1>4, <1>6 DEF Arrive, RelayerInv, RowsOK, NonceOK, Rows
  <2>2. \A k \in 0..PendingNonce : \E q \in network' : transaction[q].nonce = k
    BY <1>4, <1>6 DEF Arrive, RelayerInv, NonceOK
  <2>3. Rows \ network' = {}
    BY <1>1, <1>6 DEF Arrive, RelayerInv, NonceOK
  <2>4. \A v \in Workers : step[v].at = "persist" => step[v].nonce <= PendingNonce + 1
    BY <1>4 DEF RelayerInv, NonceOK, StepOK
  <2>5. (PendingNonce + 1) - 1 = PendingNonce
    BY <1>4
  <2> QED
    BY <1>1, <1>6, <2>1, <2>2, <2>3, <2>4, <2>5 DEF RelayerInv, NonceOK
<1> QED
  BY <1>2, <1>3, <1>7 DEF RelayerInv

---------------------------------------------------------------------------
(* The invariant holds.                                                    *)

LEMMA RelayerTurnInv ==
  ASSUME QueueInv, RelayerInv, NEW w \in Workers, RelayerTurn(w)
  PROVE  RelayerInv'
<1>1. {"sign", "claim", "reread", "resolve", "mark", "return"} \subseteq Places \ {"send", "persist"}
  BY DEF Places
<1>2. step[w].at # "start" => Handling(w, RelayerKinds)
  BY DEF RelayerInv, StepOK
<1>3. CASE FindForRun(w)
  <2>1. Handling(w, RelayerKinds)
    BY <1>3 DEF FindForRun, Handling, RelayerKinds
  <2> QED BY <1>1, <1>3, <2>1, ProceedInv DEF FindForRun
<1>4. CASE Sign(w)
  <2> DEFINE s == [at |-> "persist", nonce |-> PendingNonce]
  <2>1. PendingNonce \in Nat
    BY FS_CardinalityType DEF PendingNonce, RelayerInv, NonceOK
  <2>2. s \in [at : Places, nonce : Nat] /\ s.at = "persist" /\ s.nonce <= PendingNonce
    BY <2>1 DEF Places
  <2>3. step' = [step EXCEPT ![w] = s] /\ UNCHANGED <<worker, transaction, inFlight, network, sends>>
    BY <1>4 DEF Sign, pipelineVars
  <2>4. Handling(w, RelayerKinds)'
    BY <1>2, <1>4, <2>3 DEF Sign, Handling
  <2> HIDE DEF s
  <2> QED BY <2>2, <2>3, <2>4, MoveInv
<1>5. CASE Persist(w)
  BY <1>5, PersistInv
<1>6. CASE FindToBroadcast(w)
  <2>1. Handling(w, RelayerKinds)
    BY <1>6 DEF FindToBroadcast, Handling, RelayerKinds
  <2>2. RunAt(w) \in Runs
    BY <2>1, QueueAssumption DEF Handling, Busy, QueueInv, ClaimsOK, RunAt
  <2>3. PlaceFor(transaction[RunAt(w)].status) \in Places \ {"send", "persist"}
    BY <1>1, <1>6, <2>2 DEF FindToBroadcast, PlaceFor, RelayerInv, RowsOK, Progress
  <2> QED BY <1>6, <2>1, <2>3, ProceedInv DEF FindToBroadcast
<1>7. CASE ClaimAttempt(w)
  BY <1>7, ClaimAttemptInv
<1>8. CASE Reread(w)
  <2>1. PlaceFor(transaction[RunAt(w)].status) \in Places \ {"send", "persist"}
    BY <1>1, <1>8 DEF Reread, PlaceFor
  <2> QED BY <1>2, <1>8, <2>1, ProceedInv DEF Reread
<1>9. CASE Resolve(w)
  BY <1>1, <1>2, <1>9, ProceedInv DEF Resolve
<1>10. CASE Send(w)
  BY <1>10, SendInv
<1>11. CASE Answered(w)
  BY <1>1, <1>2, <1>11, ProceedInv DEF Answered
<1>12. CASE Mark(w)
  BY <1>12, MarkInv
<1>13. CASE SubmitReturns(w) \/ BroadcastReturns(w) \/ Break(w)
  <2>1. Leave(w) /\ UNCHANGED <<transaction, inFlight, network, sends>>
    BY <1>13 DEF SubmitReturns, BroadcastReturns, Break
  <2>2. Turn(w)
    BY <1>13, EndIsTurn
  <2> QED BY <2>1, <2>2, LeaveInv
<1> QED
  BY <1>3, <1>4, <1>5, <1>6, <1>7, <1>8, <1>9, <1>10, <1>11, <1>12, <1>13 DEF RelayerTurn

LEMMA RelayerStepInv ==
  QueueInv /\ RelayerInv /\ [RelayerNext]_RelayerAllVars => RelayerInv'
<1> SUFFICES ASSUME QueueInv, RelayerInv, [RelayerNext]_RelayerAllVars PROVE RelayerInv'
  OBVIOUS
<1>1. CASE Surroundings /\ UNCHANGED relayerVars
  BY <1>1, SurroundingsAreQueueSteps, KeepInv
<1>2. CASE UNCHANGED RelayerAllVars
  BY <1>2, KeepInv DEF RelayerAllVars, pipelineVars
<1>3. ASSUME NEW r \in Runs, Arrive(r) PROVE RelayerInv'
  BY <1>3, ArriveInv
<1>4. ASSUME NEW w \in Workers, RelayerTurn(w) PROVE RelayerInv'
  BY <1>4, RelayerTurnInv
<1>5. ASSUME NEW w \in Workers, ~Handling(w, RelayerKinds), PipelineTurn(w), UNCHANGED relayerVars
      PROVE  RelayerInv'
  <2>1. step[w].at = "start"
    BY <1>5 DEF RelayerInv, StepOK
  <2>2. \A v \in Workers : v # w => worker'[v] = worker[v]
    BY <1>5, PipelineTurnIsTurn, TurnIsOwn DEF QueueInv
  <2> QED BY <1>5, <2>1, <2>2, KeepInv
<1>6. ASSUME NEW w \in Workers, CrashTurn(w), Leave(w),
             UNCHANGED <<transaction, inFlight, network, sends>>
      PROVE  RelayerInv'
  BY <1>6, LeaveInv DEF CrashTurn, Turn
<1> QED
  BY <1>1, <1>2, <1>3, <1>4, <1>5, <1>6 DEF RelayerNext

LEMMA RelayerInvariant == RelayerSpec => []RelayerInv
  BY RelayerInitInv, RelayerStepInv, RelayerQueueInvariant, PTL DEF RelayerSpec, RelayerAllVars

\* For any runs, workers, crashes and lost answers: a run's transaction is sent at
\* most once, after its attempt was recorded (claimRelayerBroadcastAttempt).
THEOREM SentOnce == RelayerSpec => []SentOnceAfterAttempt
<1>1. RelayerInv => SentOnceAfterAttempt
  BY DEF RelayerInv, SendOK, SentOnceAfterAttempt
<1> QED
  BY <1>1, RelayerInvariant, PTL

\* For any number of runs that share the account, a persisted transaction that is
\* not taken is the next one (the unique key on chain, address and nonce).
THEOREM NeverOutrun == RelayerSpec => []UntakenIsNext
<1>1. RelayerInv => UntakenIsNext
  BY DEF RelayerInv, NonceOK, Rows, UntakenIsNext
<1> QED
  BY <1>1, RelayerInvariant, PTL

---------------------------------------------------------------------------
(* What a worker inside a handler has checked, and what it has observed.   *)

SubmitSteps    == {"sign", "persist"}
BroadcastSteps == {"claim", "reread", "resolve", "send", "answer", "mark"}

\* The snapshot of worker w does not show the end of the run.
SnapshotOpen(w) ==
  \A i \in DOMAIN journal[RunAt(w)] : i <= worker[w].seen => ~Closes(journal[RunAt(w)][i])

HandlerOK(w) ==
  LET kind == KindOf[worker[w].cmd] IN
  /\ step[w].at = "start" => step[w] = Begin
  /\ step[w].at # "start" =>
       /\ ChecksPass(w)
       /\ kind = "SUBMIT_RELAYER" => SnapshotOpen(w)
       /\ step[w].at \in SubmitSteps => kind = "SUBMIT_RELAYER"
       /\ step[w].at \in BroadcastSteps => kind = "BROADCAST_RELAYER_TRANSACTION"

\* Only what the network has is marked, or reported by the broadcast.
ObservedBy(w) ==
  \/ step[w].at = "mark"
  \/ step[w].at = "return" /\ KindOf[worker[w].cmd] = "BROADCAST_RELAYER_TRANSACTION"
  => RunAt(w) \in network

MarkedIsTaken == \A r \in Runs : transaction[r].status = "broadcast" => r \in network

SentByCommand ==
  \A r \in inFlight \cup network :
    \E c \in OfKind("BROADCAST_RELAYER_TRANSACTION") : RunOf[c] = r /\ Scheduled(c)

ReportedIsTaken == \A r \in Runs : ModeOf[r] = "relayer" /\ Passed(r, 3) => r \in network

HandlersInv == \A w \in Workers : HandlerOK(w) /\ ObservedBy(w)

BroadcastInv ==
  /\ PipelineInv /\ RelayerInv
  /\ HandlersInv /\ MarkedIsTaken /\ SentByCommand /\ ReportedIsTaken

---------------------------------------------------------------------------
(* Every step is a step of the pipeline, or none.                          *)

LEMMA OpenSnapshot ==
  ASSUME PipelineInv, NEW w \in Workers, worker[w].pc = "running"
  PROVE  Terminal(Context(w).events) <=> ~SnapshotOpen(w)
<1> PICK r : r = RunAt(w)
  OBVIOUS
<1> PICK j : j = journal[r]
  OBVIOUS
<1> PICK n : n = worker[w].seen
  OBVIOUS
<1> PICK e : e = Context(w).events
  OBVIOUS
<1>1. r \in Runs /\ n \in Nat /\ n <= Len(j) /\ j \in Journals /\ e = SubSeq(j, 1, n)
  BY QueueAssumption
  DEF PipelineInv, QueueFacts, QueueInv, QueueTypeOK, ClaimsOK, Busy, WorkerState, SnapshotOK,
      RunAt, Journals, Context
<1>2. DOMAIN j = 1..Len(j) /\ Len(j) \in Nat
  BY <1>1 DEF Journals
<1>3. \A i \in 1..n : j[i] \in Event(Commands)
  BY <1>1, <1>2, EventTyped
<1>4. /\ SubSeq(j, 1, n) \in Seq(Event(Commands))
      /\ Len(SubSeq(j, 1, n)) = IF 1 <= n THEN n - 1 + 1 ELSE 0
      /\ \A i \in 1..n - 1 + 1 : SubSeq(j, 1, n)[i] = j[1 + i - 1]
  BY <1>1, <1>3, SubSeqProperties
<1>5. DOMAIN e = 1..n
  BY <1>1, <1>4
<1>6. \A i \in 1..n : e[i] = j[i]
  <2>1. \A i \in 1..n : i \in 1..n - 1 + 1 /\ 1 + i - 1 = i
    BY <1>1
  <2> QED BY <1>1, <1>4, <2>1
<1>7. \A i : i \in DOMAIN j /\ i <= n <=> i \in 1..n
  BY <1>1, <1>2
<1> QED
  BY <1>5, <1>6, <1>7 DEF Terminal, SnapshotOpen

\* The parts of a handler end as RunPipeline's handler may.
LEMMA EndIsPipelineTurn ==
  ASSUME PipelineInv, StepOK, NEW w \in Workers, HandlerOK(w),
         SubmitReturns(w) \/ BroadcastReturns(w) \/ Break(w)
  PROVE  PipelineTurn(w)
<1> DEFINE kind == KindOf[worker[w].cmd]
           x    == Context(w)
<1>1. worker[w].pc = "running" /\ kind \in RelayerKinds
  BY DEF SubmitReturns, BroadcastReturns, Break, Handling, RelayerKinds
<1>2. x.mode = ModeOf[RunAt(w)] /\ x.artifacts = view[w]
  BY DEF Context, RunAt
<1>3. step[w].at # "start" => x.mode = "relayer" /\ "preflight-evidence" \in x.artifacts
  BY <1>2 DEF HandlerOK, ChecksPass
<1>4. step[w].at # "start" /\ kind = "SUBMIT_RELAYER" => ~Terminal(x.events)
  BY <1>1, OpenSnapshot DEF HandlerOK
<1>5. /\ kind = "SUBMIT_RELAYER" => Handle(kind, x) = {Throw("retry")} \cup SubmitRelayer(x)
      /\ kind = "BROADCAST_RELAYER_TRANSACTION" =>
           Handle(kind, x) = {Throw("retry")} \cup BroadcastRelayerTransaction(x)
  BY DEF Handle
<1>6. SUFFICES \E res \in Handle(kind, x) : Return(w, res) \/ Fail(w, res)
  BY <1>1 DEF PipelineTurn, HandlerEnds
<1> HIDE DEF kind, x
<1>7. CASE SubmitReturns(w)
  <2>1. kind = "SUBMIT_RELAYER" /\ step[w].at # "start"
        /\ Return(w, Done(<<>>, {}, {"BROADCAST_RELAYER_TRANSACTION"}))
    BY <1>7 DEF SubmitReturns, Handling, kind
  <2>2. Done(<<>>, {}, {"BROADCAST_RELAYER_TRANSACTION"}) \in Handle(kind, x)
    BY <1>3, <1>4, <1>5, <2>1 DEF SubmitRelayer
  <2> QED BY <2>1, <2>2
<1>8. CASE BroadcastReturns(w)
  <2>1. kind = "BROADCAST_RELAYER_TRANSACTION" /\ step[w].at # "start"
        /\ Return(w, Done(Unless(x, "REQUEST_SUBMITTED"), {}, {"POLL_TRANSACTION_RECEIPT"}))
    BY <1>8 DEF BroadcastReturns, Handling, kind, x
  <2>2. Done(Unless(x, "REQUEST_SUBMITTED"), {}, {"POLL_TRANSACTION_RECEIPT"}) \in Handle(kind, x)
    BY <1>3, <1>5, <2>1 DEF BroadcastRelayerTransaction
  <2> QED BY <2>1, <2>2
<1>9. CASE Break(w)
  <2>1. CASE Fail(w, Throw("retry"))
    <3>1. Throw("retry") \in Handle(kind, x)
      BY <1>1, <1>5 DEF RelayerKinds, kind
    <3> QED BY <2>1, <3>1
  <2>2. CASE FinalHere(w) /\ Fail(w, Throw("terminal"))
    <3>1. Throw("terminal") \in Handle(kind, x)
      <4>1. CASE x.mode # "relayer"
        BY <1>1, <1>5, <4>1 DEF RelayerKinds, kind, SubmitRelayer, BroadcastRelayerTransaction
      <4>2. CASE x.mode = "relayer"
        <5>1. step[w].at \in {"sign", "persist", "resolve"}
          BY <1>2, <2>2, <4>2 DEF FinalHere
        <5>2. step[w].at # "start"
          BY <5>1
        <5> QED BY <1>1, <1>3, <1>4, <1>5, <4>2, <5>2
                DEF RelayerKinds, kind, SubmitRelayer, BroadcastRelayerTransaction
      <4> QED BY <4>1, <4>2
    <3> QED BY <2>2, <3>1
  <2> QED BY <1>9, <2>1, <2>2 DEF Break
<1> QED
  BY <1>7, <1>8, <1>9

\* The steps between.
Moves(w) ==
  \/ FindForRun(w) \/ Sign(w) \/ Persist(w) \/ FindToBroadcast(w) \/ ClaimAttempt(w)
  \/ Reread(w) \/ Resolve(w) \/ Send(w) \/ Answered(w) \/ Mark(w)

LEMMA MovesAreSilent ==
  ASSUME NEW w \in Workers, Moves(w)
  PROVE  UNCHANGED pipelineVars
  BY DEF Moves, FindForRun, Sign, Persist, FindToBroadcast, ClaimAttempt, Reread, Resolve, Send,
         Answered, Mark, Proceed

LEMMA RelayerStepIsPipelineStep ==
  ASSUME PipelineInv, RelayerInv, HandlersInv, [RelayerNext]_RelayerAllVars
  PROVE  [PipelineNext]_pipelineVars
<1>1. ASSUME NEW w \in Workers, RelayerTurn(w) PROVE [PipelineNext]_pipelineVars
  <2>1. CASE Moves(w)
    BY <2>1, MovesAreSilent
  <2>2. CASE SubmitReturns(w) \/ BroadcastReturns(w) \/ Break(w)
    BY <2>2, EndIsPipelineTurn DEF RelayerInv, HandlersInv, PipelineNext
  <2> QED BY <1>1, <2>1, <2>2 DEF RelayerTurn, Moves
<1>2. ASSUME NEW r \in Runs, Arrive(r) PROVE UNCHANGED pipelineVars
  BY <1>2 DEF Arrive
<1> QED
  BY <1>1, <1>2 DEF RelayerNext, PipelineNext, RelayerAllVars

---------------------------------------------------------------------------
(* The invariant.                                                          *)

\* What a step is to one worker.
LEMMA StepOfWorker ==
  ASSUME PipelineInv, RelayerInv, [RelayerNext]_RelayerAllVars, NEW v \in Workers
  PROVE  \/ step'[v] = Begin
         \/ step'[v] = step[v] /\ (step[v].at # "start" => worker'[v] = worker[v])
         \/ Moves(v)
<1>1. QueueInv /\ QueueTypeOK /\ step \in [Workers -> [at : Places, nonce : Nat]]
  BY DEF PipelineInv, QueueFacts, QueueInv, RelayerInv, StepOK
<1>2. CASE UNCHANGED RelayerAllVars
  BY <1>2 DEF RelayerAllVars, relayerVars, pipelineVars
<1>3. CASE Surroundings /\ UNCHANGED relayerVars
  BY <1>3, SurroundingsAreQueueSteps DEF relayerVars
<1>4. ASSUME NEW r \in Runs, Arrive(r) PROVE step'[v] = step[v] /\ worker'[v] = worker[v]
  BY <1>4 DEF Arrive, pipelineVars
<1>5. ASSUME NEW w \in Workers, RelayerTurn(w)
      PROVE  \/ step'[v] = Begin
             \/ step'[v] = step[v] /\ worker'[v] = worker[v]
             \/ Moves(v)
  <2>1. CASE Moves(w)
    <3>1. worker' = worker
      BY <2>1, MovesAreSilent DEF pipelineVars
    <3>2. w # v => step'[v] = step[v]
      BY <1>1, <2>1 DEF Moves, FindForRun, Sign, Persist, FindToBroadcast, ClaimAttempt, Reread,
                       Resolve, Send, Answered, Mark, Proceed
    <3> QED BY <2>1, <3>1, <3>2
  <2>2. CASE SubmitReturns(w) \/ BroadcastReturns(w) \/ Break(w)
    <3>1. step' = [step EXCEPT ![w] = Begin]
      BY <2>2 DEF SubmitReturns, BroadcastReturns, Break, Leave
    <3>2. w # v => worker'[v] = worker[v]
      BY <1>1, <2>2, EndIsTurn, TurnIsOwn
    <3> QED BY <1>1, <3>1, <3>2
  <2> QED BY <1>5, <2>1, <2>2 DEF RelayerTurn, Moves
<1>6. ASSUME NEW w \in Workers, ~Handling(w, RelayerKinds), PipelineTurn(w), UNCHANGED relayerVars
      PROVE  step'[v] = step[v] /\ (step[v].at # "start" => worker'[v] = worker[v])
  <2>1. w # v => worker'[v] = worker[v]
    BY <1>1, <1>6, PipelineTurnIsTurn, TurnIsOwn
  <2>2. step[w].at = "start"
    BY <1>6 DEF RelayerInv, StepOK
  <2> QED BY <1>6, <2>1, <2>2 DEF relayerVars
<1>7. ASSUME NEW w \in Workers, CrashTurn(w), Leave(w)
      PROVE  step'[v] = Begin \/ (step'[v] = step[v] /\ worker'[v] = worker[v])
  BY <1>1, <1>7 DEF CrashTurn, Crash, Leave, QueueTypeOK
<1> QED
  BY <1>2, <1>3, <1>4, <1>5, <1>6, <1>7 DEF RelayerNext

\* What the network has taken, the rows that are broadcast and the journals grow.
LEMMA NetworkGrows ==
  ASSUME [RelayerNext]_RelayerAllVars
  PROVE  network \subseteq network'
  BY DEF RelayerNext, RelayerTurn, RelayerAllVars, relayerVars, FindForRun, Sign, Persist,
         FindToBroadcast, ClaimAttempt, Reread, Resolve, Send, Answered, Mark, SubmitReturns,
         BroadcastReturns, Break, Arrive

LEMMA JournalKept ==
  ASSUME QueueInv, [PipelineNext]_pipelineVars, NEW r \in Runs, NEW i \in DOMAIN journal[r]
  PROVE  i \in DOMAIN journal'[r] /\ journal'[r][i] = journal[r][i]
<1>1. ASSUME NEW c \in Commands, NEW evs \in Journals, Writes(c, evs)
      PROVE  i \in DOMAIN journal'[r] /\ journal'[r][i] = journal[r][i]
  BY <1>1, EventsAreKept DEF Writes, JournalOf
<1> QED
  BY <1>1, PipelineWritesBatch DEF WritesBatch

\* A worker that stands where it stood has nothing to check again.
LEMMA StandingWorker ==
  ASSUME PipelineInv, RelayerInv, NEW v \in Workers, HandlerOK(v), ObservedBy(v),
         [PipelineNext]_pipelineVars, network \subseteq network',
         step'[v] = step[v], step[v].at # "start" => worker'[v] = worker[v]
  PROVE  HandlerOK(v)' /\ ObservedBy(v)'
<1>1. CASE step[v].at = "start"
  BY <1>1 DEF HandlerOK, ObservedBy
<1>2. CASE step[v].at # "start"
  <2>1. QueueInv /\ PipelineTypeOK /\ SnapshotOK
    BY DEF PipelineInv, QueueFacts
  <2>2. worker[v].pc = "running" /\ worker'[v] = worker[v]
    BY <1>2 DEF RelayerInv, StepOK, Handling
  <2>3. view'[v] = view[v]
    BY <2>1, <2>2, RunningKeeps DEF LoadContext, Load
  <2>4. RunAt(v) \in Runs /\ RunAt(v)' = RunAt(v)
    BY <2>1, <2>2, QueueAssumption DEF RunAt, Busy, QueueInv, ClaimsOK
  <2>5. ASSUME SnapshotOpen(v) PROVE SnapshotOpen(v)'
    <3> PICK r : r = RunAt(v)
      OBVIOUS
    <3>1. worker[v].seen \in Nat /\ worker[v].seen <= Len(journal[r])
          /\ DOMAIN journal[r] = 1..Len(journal[r]) /\ Len(journal[r]) \in Nat
          /\ DOMAIN journal'[r] = 1..Len(journal'[r]) /\ Len(journal'[r]) \in Nat
      <4>1. QueueInv'
        BY <2>1, PipelineStepIsQueueStep, QueueStepInv
      <4> QED BY <2>1, <2>2, <2>4, <4>1
              DEF QueueInv, QueueTypeOK, WorkerState, SnapshotOK, RunAt
    <3>2. ASSUME NEW i \in DOMAIN journal'[r], i <= worker[v].seen PROVE ~Closes(journal'[r][i])
      <4>1. i \in DOMAIN journal[r]
        BY <3>1, <3>2
      <4> QED BY <2>1, <2>4, <2>5, <3>2, <4>1, JournalKept DEF SnapshotOpen
    <3> QED BY <2>2, <2>4, <3>2 DEF SnapshotOpen
  <2>6. HandlerOK(v)'
    BY <1>2, <2>2, <2>3, <2>4, <2>5 DEF HandlerOK, ChecksPass
  <2>7. ObservedBy(v)'
    BY <2>2, <2>4 DEF ObservedBy
  <2> QED BY <2>6, <2>7
<1> QED BY <1>1, <1>2

LEMMA MovingWorker ==
  ASSUME PipelineInv, RelayerInv, MarkedIsTaken, NEW v \in Workers, HandlerOK(v), ObservedBy(v), Moves(v),
         network \subseteq network'
  PROVE  HandlerOK(v)' /\ ObservedBy(v)'
<1>1. /\ worker' = worker /\ view' = view /\ journal' = journal
      /\ step \in [Workers -> [at : Places, nonce : Nat]]
  BY MovesAreSilent DEF pipelineVars, RelayerInv, StepOK
<1>2. RunAt(v)' = RunAt(v) /\ (SnapshotOpen(v)' <=> SnapshotOpen(v)) /\ (ChecksPass(v)' <=> ChecksPass(v))
  BY <1>1 DEF RunAt, SnapshotOpen, ChecksPass
<1> DEFINE kind == KindOf[worker[v].cmd]
<1>3. ASSUME NEW p \in Places \ {"start"}, step'[v].at = p, ChecksPass(v),
             kind = "SUBMIT_RELAYER" => SnapshotOpen(v),
             p \in SubmitSteps => kind = "SUBMIT_RELAYER",
             p \in BroadcastSteps => kind = "BROADCAST_RELAYER_TRANSACTION",
             \/ p = "mark"
             \/ p = "return" /\ kind = "BROADCAST_RELAYER_TRANSACTION"
             => RunAt(v) \in network
      PROVE  HandlerOK(v)' /\ ObservedBy(v)'
  BY <1>1, <1>2, <1>3 DEF HandlerOK, ObservedBy
<1>4. step[v].at # "start" =>
        /\ ChecksPass(v) /\ RunAt(v) \in Runs
        /\ kind = "SUBMIT_RELAYER" => SnapshotOpen(v)
        /\ step[v].at \in SubmitSteps => kind = "SUBMIT_RELAYER"
        /\ step[v].at \in BroadcastSteps => kind = "BROADCAST_RELAYER_TRANSACTION"
  BY RunAtType DEF HandlerOK, PipelineInv, QueueFacts, RelayerInv
<1>5. ASSUME NEW p, Proceed(v, p) PROVE step'[v].at = p
  BY <1>1, <1>5 DEF Proceed
<1> HIDE DEF kind
<1>6. CASE FindForRun(v)
  <2>1. worker[v].pc = "running" /\ kind = "SUBMIT_RELAYER" /\ ChecksPass(v) /\ ~Terminal(Context(v).events)
    BY <1>6 DEF FindForRun, Handling, kind
  <2>2. SnapshotOpen(v)
    BY <2>1, OpenSnapshot
  <2>3. step'[v].at \in {"sign", "return"}
    BY <1>5, <1>6 DEF FindForRun
  <2> QED BY <1>3, <2>1, <2>2, <2>3 DEF Places, SubmitSteps, BroadcastSteps
<1>7. CASE Sign(v)
  <2>1. step[v].at = "sign" /\ step'[v].at = "persist"
    BY <1>1, <1>7 DEF Sign
  <2> QED BY <1>3, <1>4, <2>1 DEF Places, SubmitSteps, BroadcastSteps
<1>8. CASE Persist(v)
  <2>1. step[v].at = "persist" /\ step'[v].at = "return"
    BY <1>5, <1>8 DEF Persist
  <2> QED BY <1>3, <1>4, <2>1 DEF Places, SubmitSteps, BroadcastSteps
<1>9. CASE FindToBroadcast(v)
  <2>1. worker[v].pc = "running" /\ kind = "BROADCAST_RELAYER_TRANSACTION" /\ ChecksPass(v)
    BY <1>9 DEF FindToBroadcast, Handling, kind
  <2>2. RunAt(v) \in Runs
    BY <2>1, QueueAssumption DEF RunAt, Busy, PipelineInv, QueueFacts, QueueInv, ClaimsOK
  <2>3. transaction[RunAt(v)].status \in {"signed", "attempted", "broadcast"}
        /\ step'[v].at = PlaceFor(transaction[RunAt(v)].status)
    BY <1>5, <1>9, <2>2 DEF FindToBroadcast, RelayerInv, RowsOK, Progress
  <2>4. step'[v].at \in {"claim", "resolve"} \/ (step'[v].at = "return" /\ RunAt(v) \in network)
    BY <2>2, <2>3 DEF PlaceFor, MarkedIsTaken
  <2> QED BY <1>3, <2>1, <2>4 DEF Places, SubmitSteps, BroadcastSteps
<1>10. CASE ClaimAttempt(v)
  <2>1. step[v].at = "claim" /\ step'[v].at \in {"send", "reread"}
    BY <1>5, <1>10 DEF ClaimAttempt
  <2> QED BY <1>3, <1>4, <2>1 DEF Places, SubmitSteps, BroadcastSteps
<1>11. CASE Reread(v)
  <2>1. step[v].at = "reread" /\ transaction[RunAt(v)].status \in {"attempted", "broadcast"}
        /\ step'[v].at = PlaceFor(transaction[RunAt(v)].status)
    BY <1>5, <1>11 DEF Reread
  <2>2. step'[v].at = "resolve" \/ (step'[v].at = "return" /\ RunAt(v) \in network)
    BY <1>4, <2>1 DEF PlaceFor, MarkedIsTaken
  <2> QED BY <1>3, <1>4, <2>1, <2>2 DEF Places, SubmitSteps, BroadcastSteps
<1>12. CASE Resolve(v)
  <2>1. step[v].at = "resolve" /\ step'[v].at = "mark" /\ RunAt(v) \in network
    BY <1>5, <1>12 DEF Resolve
  <2> QED BY <1>3, <1>4, <2>1 DEF Places, SubmitSteps, BroadcastSteps
<1>13. CASE Send(v)
  <2>1. step[v].at = "send" /\ step'[v].at = "answer"
    BY <1>5, <1>13 DEF Send
  <2> QED BY <1>3, <1>4, <2>1 DEF Places, SubmitSteps, BroadcastSteps
<1>14. CASE Answered(v)
  <2>1. step[v].at = "answer" /\ step'[v].at = "mark" /\ RunAt(v) \in network
    BY <1>5, <1>14 DEF Answered
  <2> QED BY <1>3, <1>4, <2>1 DEF Places, SubmitSteps, BroadcastSteps
<1>15. CASE Mark(v)
  <2>1. step[v].at = "mark" /\ step'[v].at = "return"
    BY <1>5, <1>15 DEF Mark
  <2>2. RunAt(v) \in network
    BY <2>1 DEF ObservedBy
  <2> QED BY <1>3, <1>4, <2>1, <2>2 DEF Places, SubmitSteps, BroadcastSteps
<1> QED
  BY <1>6, <1>7, <1>8, <1>9, <1>10, <1>11, <1>12, <1>13, <1>14, <1>15 DEF Moves

LEMMA HandlersStep ==
  ASSUME PipelineInv, RelayerInv, HandlersInv, MarkedIsTaken, [RelayerNext]_RelayerAllVars
  PROVE  HandlersInv'
<1> SUFFICES ASSUME NEW v \in Workers PROVE HandlerOK(v)' /\ ObservedBy(v)'
  BY DEF HandlersInv
<1>1. [PipelineNext]_pipelineVars /\ network \subseteq network' /\ HandlerOK(v) /\ ObservedBy(v)
  BY RelayerStepIsPipelineStep, NetworkGrows DEF HandlersInv
<1>2. CASE step'[v] = Begin
  BY <1>2 DEF HandlerOK, ObservedBy, Begin
<1>3. CASE step'[v] = step[v] /\ (step[v].at # "start" => worker'[v] = worker[v])
  BY <1>1, <1>3, StandingWorker
<1>4. CASE Moves(v)
  BY <1>1, <1>4, MovingWorker
<1> QED
  BY <1>2, <1>3, <1>4, StepOfWorker

\* A row becomes broadcast when its worker has observed the transaction.
LEMMA MarkedStep ==
  ASSUME PipelineInv, RelayerInv, HandlersInv, MarkedIsTaken, [RelayerNext]_RelayerAllVars
  PROVE  MarkedIsTaken'
<1>1. network \subseteq network' /\ transaction \in [Runs -> [status : Progress, nonce : Nat]]
  BY NetworkGrows DEF RelayerInv, RowsOK
<1>2. CASE transaction' = transaction
  BY <1>1, <1>2 DEF MarkedIsTaken
<1>3. ASSUME NEW w \in Workers, Persist(w) PROVE MarkedIsTaken'
  BY <1>1, <1>3 DEF Persist, MarkedIsTaken
<1>4. ASSUME NEW w \in Workers, ClaimAttempt(w) PROVE MarkedIsTaken'
  BY <1>1, <1>4 DEF ClaimAttempt, MarkedIsTaken
<1>5. ASSUME NEW w \in Workers, Mark(w) PROVE MarkedIsTaken'
  <2>1. RunAt(w) \in network
    BY <1>5 DEF HandlersInv, ObservedBy, Mark
  <2> QED BY <1>1, <1>5, <2>1 DEF Mark, MarkedIsTaken
<1>6. \/ transaction' = transaction
      \/ \E w \in Workers : Persist(w) \/ ClaimAttempt(w) \/ Mark(w)
  BY DEF RelayerNext, RelayerTurn, RelayerAllVars, relayerVars, FindForRun, Sign, FindToBroadcast,
         Reread, Resolve, Send, Answered, SubmitReturns, BroadcastReturns, Break, Arrive
<1> QED
  BY <1>2, <1>3, <1>4, <1>5, <1>6

\* Only the broadcast command of a run sends its transaction.
LEMMA SentStep ==
  ASSUME PipelineInv, RelayerInv, HandlersInv, SentByCommand, [RelayerNext]_RelayerAllVars
  PROVE  SentByCommand'
<1>1. [PipelineNext]_pipelineVars
  BY RelayerStepIsPipelineStep
<1>2. \A d \in Commands : Scheduled(d) => Scheduled(d)'
  BY <1>1, ScheduledStays
<1>3. ASSUME NEW w \in Workers, Send(w)
      PROVE  /\ inFlight' \cup network' = inFlight \cup network \cup {RunAt(w)}
             /\ \E c \in OfKind("BROADCAST_RELAYER_TRANSACTION") : RunOf[c] = RunAt(w) /\ Scheduled(c)
  <2>1. inFlight' \cup network' = inFlight \cup network \cup {RunAt(w)}
    BY <1>3 DEF Send
  <2> DEFINE c == worker[w].cmd
  <2>2. KindOf[c] = "BROADCAST_RELAYER_TRANSACTION"
    BY <1>3 DEF Send, HandlersInv, HandlerOK, BroadcastSteps
  <2>3. c \in Commands /\ cmd[c].attempts \in Nat /\ worker[w].token \in 1..cmd[c].attempts
    BY <1>3 DEF Send, RelayerInv, StepOK, Handling, Busy, PipelineInv, QueueFacts, QueueInv, ClaimsOK,
                QueueTypeOK, CommandRow
  <2>4. cmd[c].attempts # 0
    BY <2>3
  <2>5. Scheduled(c)
    BY <2>3, <2>4 DEF Scheduled, RowOK, PipelineInv, QueueFacts, QueueInv, QueueTypeOK
  <2> QED BY <2>1, <2>2, <2>3, <2>5 DEF OfKind, RunAt
<1>4. \/ inFlight' \cup network' = inFlight \cup network
      \/ \E w \in Workers : Send(w)
  BY DEF RelayerNext, RelayerTurn, RelayerAllVars, relayerVars, FindForRun, Sign, Persist,
         FindToBroadcast, ClaimAttempt, Reread, Resolve, Answered, Mark, SubmitReturns,
         BroadcastReturns, Break, Arrive
<1>5. ASSUME NEW r, \E c \in OfKind("BROADCAST_RELAYER_TRANSACTION") : RunOf[c] = r /\ Scheduled(c)
      PROVE  \E c \in OfKind("BROADCAST_RELAYER_TRANSACTION") : RunOf[c] = r /\ Scheduled(c)'
  BY <1>2, <1>5 DEF OfKind
<1> QED
  BY <1>3, <1>4, <1>5 DEF SentByCommand

\* A broadcast command delivers in no step but the end of its handler.
LEMMA DeliveryIsReturn ==
  ASSUME PipelineInv, RelayerInv, [RelayerNext]_RelayerAllVars, NEW w \in Workers, NEW res, Delivers(w, res),
         KindOf[worker[w].cmd] = "BROADCAST_RELAYER_TRANSACTION"
  PROVE  BroadcastReturns(w)
<1>1. QueueInv /\ QueueTypeOK
  BY DEF PipelineInv, QueueFacts, QueueInv
<1>2. worker[w].pc = "running" /\ Handling(w, RelayerKinds)
  BY DEF Delivers, Handling, RelayerKinds
<1>3. worker'[w] # worker[w]
  BY <1>1, <1>2 DEF Delivers, Complete, Idle, QueueTypeOK
<1>4. cmd' # cmd
  <2>1. worker[w].cmd \in Commands /\ cmd[worker[w].cmd].status = "leased"
    BY <1>1, <1>2 DEF QueueInv, ClaimsOK, Busy, Delivers, Complete, CompletionAccepted, LeaseLive
  <2>2. cmd'[worker[w].cmd].status = "succeeded"
    BY <1>1, <2>1 DEF Delivers, Complete, Released, QueueTypeOK, CommandRow
  <2> QED BY <2>1, <2>2
<1>5. ASSUME NEW v \in Workers, Turn(v) PROVE v = w
  BY <1>1, <1>3, <1>5, TurnIsOwn
<1>6. ~UNCHANGED pipelineVars
  BY <1>3 DEF pipelineVars
<1>7. ~Surroundings
  BY <1>1, <1>3, SurroundingsAreQueueSteps
<1>8. ASSUME NEW v \in Workers, ~Handling(v, RelayerKinds), PipelineTurn(v) PROVE FALSE
  BY <1>1, <1>2, <1>5, <1>8, PipelineTurnIsTurn
<1>9. ASSUME NEW v \in Workers, CrashTurn(v) PROVE FALSE
  BY <1>4, <1>9 DEF CrashTurn, Crash
<1>10. ASSUME NEW v \in Workers, RelayerTurn(v) PROVE BroadcastReturns(w)
  <2>1. ~Moves(v)
    BY <1>6, MovesAreSilent
  <2>2. SubmitReturns(v) \/ BroadcastReturns(v) \/ Break(v)
    BY <1>10, <2>1 DEF RelayerTurn, Moves
  <2>3. v = w
    BY <1>1, <1>5, <2>2, EndIsTurn
  <2>4. ~Break(v)
    BY <1>4 DEF Break, Fail, HandlerThrows
  <2>5. ~SubmitReturns(w)
    BY DEF SubmitReturns, Handling
  <2> QED BY <2>2, <2>3, <2>4, <2>5
<1>11. ASSUME NEW r \in Runs, Arrive(r) PROVE FALSE
  BY <1>6, <1>11 DEF Arrive
<1> QED
  BY <1>6, <1>7, <1>8, <1>9, <1>10, <1>11 DEF RelayerNext, RelayerAllVars

\* A relayer run's request is reported by its broadcast command, which has observed
\* the transaction.
LEMMA ReportedStep ==
  ASSUME PipelineInv, RelayerInv, HandlersInv, ReportedIsTaken, [RelayerNext]_RelayerAllVars
  PROVE  ReportedIsTaken'
<1>1. [PipelineNext]_pipelineVars /\ network \subseteq network'
  BY RelayerStepIsPipelineStep, NetworkGrows
<1>2. CASE Lingering
  BY <1>1, <1>2 DEF Lingering, Lingers, ReportedIsTaken, Passed
<1>3. ASSUME NEW w \in Workers, NEW res, Delivers(w, res), NEW c, NEW x, c = worker[w].cmd,
             Delivered(c, x, res)
      PROVE  ReportedIsTaken'
  <2> SUFFICES ASSUME NEW r \in Runs, ModeOf[r] = "relayer", Passed(r, 3)'
               PROVE  r \in network'
    BY DEF ReportedIsTaken
  <2>1. CASE Passed(r, 3)
    BY <1>1, <2>1 DEF ReportedIsTaken
  <2>2. CASE ~Passed(r, 3)
    <3>1. r = RunOf[c] /\ "REQUEST_SUBMITTED" \in TypesOf(res.events)
      BY <1>3, <2>2, NewIsSaid, LifecycleNames
    <3>2. GrantFacts(KindOf[c], x, res) /\ x.mode = "relayer"
      BY <1>3, <3>1 DEF Delivered, Facts
    <3>3. ASSUME NEW kind \in SubmissionKinds \ {"SUBMIT_RELAYER"} PROVE ModeFor(kind) # "relayer"
      BY DEF SubmissionKinds, ModeFor
    <3>4. KindOf[c] = "BROADCAST_RELAYER_TRANSACTION"
      BY <3>1, <3>2, <3>3 DEF GrantFacts
    <3>5. BroadcastReturns(w)
      BY <1>3, <3>4, DeliveryIsReturn
    <3>6. step[w].at = "return" /\ ObservedBy(w)
      BY <3>5 DEF BroadcastReturns, HandlersInv
    <3>7. RunAt(w) = r
      BY <1>3, <3>1 DEF RunAt
    <3> QED BY <1>1, <1>3, <3>4, <3>6, <3>7 DEF ObservedBy
  <2> QED BY <2>1, <2>2
<1> QED
  BY <1>1, <1>2, <1>3, LingeringOrDelivery

LEMMA BroadcastStep ==
  BroadcastInv /\ [RelayerNext]_RelayerAllVars => BroadcastInv'
<1> SUFFICES ASSUME BroadcastInv, [RelayerNext]_RelayerAllVars PROVE BroadcastInv'
  OBVIOUS
<1>1. /\ PipelineInv /\ RelayerInv /\ HandlersInv
      /\ MarkedIsTaken /\ SentByCommand /\ ReportedIsTaken
  BY DEF BroadcastInv
<1>2. QueueInv
  BY <1>1 DEF PipelineInv, QueueFacts
<1>3. PipelineInv'
  BY <1>1, RelayerStepIsPipelineStep, PipelineStep
<1>4. RelayerInv'
  BY <1>1, <1>2, RelayerStepInv
<1>5. HandlersInv' /\ MarkedIsTaken' /\ SentByCommand' /\ ReportedIsTaken'
  BY <1>1, HandlersStep, MarkedStep, SentStep, ReportedStep
<1> QED
  BY <1>3, <1>4, <1>5 DEF BroadcastInv

LEMMA BroadcastStart == RelayerInit => BroadcastInv
<1> SUFFICES ASSUME RelayerInit PROVE BroadcastInv
  OBVIOUS
<1>1. PipelineInit /\ PipelineInv /\ RelayerInv
  BY PipelineStart, RelayerInitInv DEF RelayerInit
<1>2. HandlersInv
  BY DEF RelayerInit, HandlersInv, HandlerOK, ObservedBy, Begin
<1>3. MarkedIsTaken /\ SentByCommand
  BY DEF RelayerInit, MarkedIsTaken, SentByCommand
<1>4. ReportedIsTaken
  <2>1. ASSUME NEW r \in Runs PROVE ~Passed(r, 3)
    <3>1. \A i \in DOMAIN journal[r] : journal[r][i] = RunCreated
      BY <1>1 DEF PipelineInit, QueueInit
    <3>2. RunCreated.type # Lifecycle[3]
      BY LifecycleNames DEF RunCreated
    <3> QED BY <3>1, <3>2 DEF Passed, Reached
  <2> QED BY <2>1 DEF ReportedIsTaken
<1> QED
  BY <1>1, <1>2, <1>3, <1>4 DEF BroadcastInv

LEMMA BroadcastInvariant == RelayerSpec => []BroadcastInv
  BY BroadcastStart, BroadcastStep, PTL DEF RelayerSpec, RelayerAllVars

---------------------------------------------------------------------------
(* Results.                                                                *)

\* Taken apart into their calls, with crashes, other workers and the network
\* between any two of them, the two relayer handlers still do only what RunPipeline
\* says of them (live-runtime.ts and postgres.ts against worker.ts).
THEOREM RelayerImplementsPipeline == RelayerSpec => ImplementsPipeline
<1>1. RelayerInit => PipelineInit
  BY DEF RelayerInit
<1>2. BroadcastInv /\ [RelayerNext]_RelayerAllVars => [PipelineNext]_pipelineVars
  BY RelayerStepIsPipelineStep DEF BroadcastInv
<1> QED
  BY <1>1, <1>2, BroadcastInvariant, PTL
  DEF RelayerSpec, RelayerAllVars, ImplementsPipeline, PipelineSpec

\* The state stays well typed: a worker outside a relayer handler stands at its
\* start, and only persisted transactions were ever sent.
THEOREM RelayerTyped == RelayerSpec => []RelayerTypeOK
<1>1. BroadcastInv => RelayerTypeOK
  <2> SUFFICES ASSUME BroadcastInv PROVE RelayerTypeOK
    OBVIOUS
  <2>1. PipelineTypeOK /\ RelayerInv /\ HandlersInv
    BY DEF BroadcastInv, PipelineInv
  <2>2. \A w \in Workers : worker[w].pc # "running" => step[w] = Begin
    BY <2>1 DEF RelayerInv, StepOK, Handling, HandlersInv, HandlerOK
  <2> QED BY <2>1, <2>2 DEF RelayerTypeOK, RelayerInv, StepOK, RowsOK, Rows
<1> QED
  BY <1>1, BroadcastInvariant, PTL

\* Whoever crashes, overtakes or repeats whom, a relayer run reports its request
\* only when the network has taken the transaction (broadcastRelayerTransaction
\* and resolveRecordedTransaction in live-runtime.ts).
THEOREM ReportsWhatIsTaken == RelayerSpec => []SubmittedIsTaken
<1>1. BroadcastInv => SubmittedIsTaken
  BY DEF BroadcastInv, MarkedIsTaken, ReportedIsTaken, Passed, SubmittedIsTaken
<1> QED
  BY <1>1, BroadcastInvariant, PTL

\* An open run never forgets a transaction the network has taken: its broadcast
\* command can be claimed until the run says that it is submitted.
THEOREM NothingForgotten == RelayerSpec => []TakenIsFollowed
<1>1. BroadcastInv => TakenIsFollowed
  <2> SUFFICES ASSUME BroadcastInv, NEW r \in Runs, r \in network, ~Terminal(journal[r]), ~Passed(r, 3)
               PROVE  \E c \in OfKind("BROADCAST_RELAYER_TRANSACTION") :
                        RunOf[c] = r /\ cmd[c].status \in {"queued", "leased"} /\ Reclaimable(c)
    BY DEF TakenIsFollowed, Passed
  <2>1. PipelineInv /\ ScheduledInTurn /\ WorkDone
    BY DEF BroadcastInv, PipelineInv, Chain
  <2>2. PICK c \in OfKind("BROADCAST_RELAYER_TRANSACTION") : RunOf[c] = r /\ Scheduled(c)
    BY DEF BroadcastInv, SentByCommand
  <2>3. c \in Commands /\ KindOf[c] \in WorkAt(2) /\ 2 \in 2..5 /\ 2 + 1 = 3
    BY <2>2 DEF OfKind, WorkAt
  <2>4. Passed(RunOf[c], 2) /\ cmd[c].status # "succeeded"
    BY <2>1, <2>2, <2>3 DEF ScheduledInTurn, WorkDone, OfKind
  <2>5. ~Terminal(JournalOf(c))
    BY <2>2 DEF JournalOf
  <2>6. cmd[c].status \in {"queued", "leased"} /\ Reclaimable(c)
    BY <2>1, <2>2, <2>3, <2>4, <2>5, WaitingIsReclaimable
  <2> QED BY <2>2, <2>6
<1> QED
  BY <1>1, BroadcastInvariant, PTL
=============================================================================
