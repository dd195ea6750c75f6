---------------------------- MODULE RunPipeline -----------------------------
(***************************************************************************)
(* Runs from creation to proof bundle: the command queue with the handlers *)
(* of the worker (createProductionCommandHandlers), the evidence they      *)
(* persist, and the API that admits submissions and verifications          *)
(* (enqueue in production-service.ts).                                     *)
(*                                                                         *)
(* A handler reads the run's journal and artifacts in one snapshot, talks  *)
(* to the outside world and returns events, artifacts and child commands,  *)
(* or throws.  It is an operator here: from the snapshot to the set of     *)
(* results it may have.  What the outside world answers is left open.      *)
(***************************************************************************)
EXTENDS CommandQueue

CONSTANTS
  KindOf,   \* the kind of a command
  ModeOf    \* submission mode of a run's manifest

SubmissionKinds == {"SUBMIT_RELAYER", "ATTACH_WALLET_TRANSACTION", "APPLY_REPLAY_EVIDENCE"}

Kinds == SubmissionKinds \cup
  {"RUN_PREFLIGHT", "BROADCAST_RELAYER_TRANSACTION", "POLL_TRANSACTION_RECEIPT",
   "POLL_RELAY_FINALIZATION", "FETCH_DA_PROOF", "VERIFY_PROOF", "VERIFY_CONSUMER",
   "VERIFY_DEPLOYED_CONSUMER", "BUILD_PROOF_BUNDLE"}

Modes == {"wallet", "relayer", "replay"}

Evidence == {"preflight-evidence", "replay-source", "receipt-evidence", "relay-evidence",
             "proof-evidence", "verification-evidence", "consumer-evidence",
             "safe-consumer", "deployed-consumer-evidence", "proof-bundle"}

\* The stage a terminal failure of a command is charged to.
FailureStage(kind) ==
  CASE kind \in SubmissionKinds \cup {"BROADCAST_RELAYER_TRANSACTION"} -> "request"
    [] kind \in {"POLL_TRANSACTION_RECEIPT", "POLL_RELAY_FINALIZATION"} -> "round"
    [] kind = "FETCH_DA_PROOF" -> "proof"
    [] kind = "VERIFY_PROOF" -> "verify"
    [] kind \in {"VERIFY_CONSUMER", "BUILD_PROOF_BUNDLE"} -> "consumer"
    [] OTHER -> "preflight"

ModeFor(kind) ==
  CASE kind = "SUBMIT_RELAYER" -> "relayer"
    [] kind = "ATTACH_WALLET_TRANSACTION" -> "wallet"
    [] kind = "APPLY_REPLAY_EVIDENCE" -> "replay"
    [] OTHER -> "any"

OfKind(kind) == {c \in Commands : KindOf[c] = kind}

ASSUME PipelineAssumption ==
  /\ KindOf \in [Commands -> Kinds]
  /\ ModeOf \in [Runs -> Modes]
  /\ StageOf = [c \in Commands |-> FailureStage(KindOf[c])]
  /\ Auxiliary = OfKind("VERIFY_DEPLOYED_CONSUMER")
  /\ Roots = OfKind("RUN_PREFLIGHT")
  /\ ApiCommands = UNION {OfKind(k) : k \in SubmissionKinds \cup
                            {"VERIFY_CONSUMER", "VERIFY_DEPLOYED_CONSUMER"}}

VARIABLES
  artifacts,   \* kinds of the artifacts persisted for a run
  view,        \* artifacts in the snapshot a worker's handler loaded
  admitted     \* API requests past their checks and before their INSERT

pipelineVars == <<journal, cmd, worker, artifacts, view, admitted>>

\* Types of the state; the artifacts of a run and of a snapshot are kinds of
\* evidence, and only API requests are ever admitted.
PipelineTypeOK ==
  /\ QueueTypeOK
  /\ artifacts \in [Runs -> SUBSET Evidence]
  /\ view \in [Workers -> SUBSET Evidence]
  /\ admitted \subseteq ApiCommands

PipelineInit ==
  /\ QueueInit
  /\ artifacts = [r \in Runs |-> {}]
  /\ view = [w \in Workers |-> {}]
  /\ admitted = {}

---------------------------------------------------------------------------
(* Handlers.  A context x is the snapshot: journal, artifacts and mode.     *)

Has(x, type) == \E i \in DOMAIN x.events : x.events[i].type = type

Done(events, adds, next) == [throws |-> "none", events |-> events, adds |-> adds, next |-> next]

Throw(failure) == [throws |-> failure, events |-> <<>>, adds |-> {}, next |-> {}]

Effect(type) == [type |-> type, info |-> "none"]

\* A lifecycle event, unless the snapshot shows that it was already appended.
Unless(x, type) == IF Has(x, type) THEN <<>> ELSE <<Effect(type)>>

Verdicts == {"passed", "rejected"}

RunPreflight(x) ==
  IF Has(x, "PREFLIGHT_ACCEPTED") THEN {Done(<<>>, {}, {})}
  ELSE {Throw("retry"), Throw("terminal")} \cup
       IF x.mode = "replay"
       THEN {Done(<<Effect("PREFLIGHT_ACCEPTED")>>, {"replay-source", "preflight-evidence"}, {})}
       ELSE {Done(<<Effect("PREFLIGHT_ACCEPTED")>>, {"preflight-evidence"}, {}),
             Done(<<[type |-> "RUN_FAILED", info |-> "preflight"]>>, {}, {})}

\* The lifecycle events of a recorded run.  Its recovery events, which the code
\* copies along, belong to commands of the recording that nobody claims here.
ReplayEffects(verdict) ==
  << Effect("REQUEST_SUBMITTED"), Effect("ROUND_FINALIZED"), Effect("PROOF_AVAILABLE"),
     Effect("PROOF_VERIFIED"), [type |-> "CONSUMER_VERIFIED", info |-> verdict] >>

\* Fault: the bundle is left to a later repetition of the command.
ApplyReplayWithoutChild(x) ==
  IF x.mode # "replay" THEN {Throw("terminal")}
  ELSE IF Has(x, "CONSUMER_VERIFIED") THEN {Done(<<>>, {}, {"BUILD_PROOF_BUNDLE"})}
  ELSE {Done(ReplayEffects(v),
             {"proof-evidence", "verification-evidence", "consumer-evidence", "safe-consumer"},
             {}) : v \in Verdicts}

\* The rest of a recorded run at once; the recorded graph must fit the journal.
ApplyReplayEvidence(x) ==
  IF x.mode # "replay" THEN {Throw("terminal")}
  ELSE IF Has(x, "CONSUMER_VERIFIED") THEN {Done(<<>>, {}, {"BUILD_PROOF_BUNDLE"})}
  ELSE IF "replay-source" \notin x.artifacts THEN {Throw("retry")}
  ELSE IF Terminal(x.events) \/ Reached(x.events) # 1..2 THEN {Throw("terminal")}
  ELSE {Throw("terminal")} \cup
       {Done(ReplayEffects(v),
             {"proof-evidence", "verification-evidence", "consumer-evidence", "safe-consumer"},
             {"BUILD_PROOF_BUNDLE"}) : v \in Verdicts}

\* Signing and persisting the transaction; Relayer details are left open.
SubmitRelayer(x) ==
  IF x.mode # "relayer" THEN {Throw("terminal")}
  ELSE IF Terminal(x.events) \/ "preflight-evidence" \notin x.artifacts THEN {Throw("retry")}
  ELSE {Throw("retry"), Throw("terminal"), Done(<<>>, {}, {"BROADCAST_RELAYER_TRANSACTION"})}

BroadcastRelayerTransaction(x) ==
  IF x.mode # "relayer" THEN {Throw("terminal")}
  ELSE IF "preflight-evidence" \notin x.artifacts THEN {Throw("retry")}
  ELSE {Throw("retry"), Throw("terminal"),
        Done(Unless(x, "REQUEST_SUBMITTED"), {}, {"POLL_TRANSACTION_RECEIPT"})}

AttachWalletTransaction(x) ==
  IF x.mode # "wallet" THEN {Throw("terminal")}
  ELSE IF "preflight-evidence" \notin x.artifacts THEN {Throw("retry")}
  ELSE {Throw("retry"), Throw("terminal"),
        Done(Unless(x, "REQUEST_SUBMITTED"), {}, {"POLL_TRANSACTION_RECEIPT"})}

PollTransactionReceipt(x) ==
  IF "receipt-evidence" \in x.artifacts
  THEN {Done(<<>>, {}, {"POLL_RELAY_FINALIZATION"})}
  ELSE {Throw("retry"), Throw("wait"), Throw("terminal"),
        Done(<<>>, {"receipt-evidence"}, {"POLL_RELAY_FINALIZATION"})}

\* Fault: the finalized round schedules nothing.
PollRelayWithoutChild(x) ==
  IF "receipt-evidence" \notin x.artifacts THEN {Throw("retry")}
  ELSE {Throw("retry"), Throw("wait"), Throw("terminal"),
        Done(Unless(x, "ROUND_FINALIZED"), {"relay-evidence"}, {})}

PollRelayFinalization(x) ==
  IF "receipt-evidence" \notin x.artifacts THEN {Throw("retry")}
  ELSE {Throw("retry"), Throw("wait"), Throw("terminal"),
        Done(Unless(x, "ROUND_FINALIZED"), {"relay-evidence"}, {"FETCH_DA_PROOF"})}

\* Fault: the proof is reported and not persisted.
FetchDaProofUnsaved(x) ==
  IF Has(x, "PROOF_AVAILABLE") THEN {Done(<<>>, {}, {"VERIFY_PROOF"})}
  ELSE {Throw("retry"), Throw("wait"), Throw("terminal"),
        Done(<<Effect("PROOF_AVAILABLE")>>, {}, {"VERIFY_PROOF"})}

FetchDaProof(x) ==
  IF Has(x, "PROOF_AVAILABLE") THEN {Done(<<>>, {}, {"VERIFY_PROOF"})}
  ELSE IF ~Has(x, "ROUND_FINALIZED") \/ ~({"preflight-evidence", "receipt-evidence"} \subseteq x.artifacts)
  THEN {Throw("retry")}
  ELSE {Throw("retry"), Throw("wait"), Throw("terminal"),
        Done(<<Effect("PROOF_AVAILABLE")>>, {"proof-evidence"}, {"VERIFY_PROOF"})}

VerifyProof(x) ==
  IF Has(x, "PROOF_VERIFIED") THEN {Done(<<>>, {}, {})}
  ELSE IF ~({"preflight-evidence", "proof-evidence"} \subseteq x.artifacts) THEN {Throw("retry")}
  ELSE {Throw("retry"), Throw("terminal"),
        Done(<<Effect("PROOF_VERIFIED")>>, {"verification-evidence"}, {})}

\* Nothing here waits for the proof to be verified: the journal refuses the
\* event of a verification that comes too early.
VerifyConsumer(x) ==
  IF Has(x, "CONSUMER_VERIFIED") THEN {Done(<<>>, {}, {"BUILD_PROOF_BUNDLE"})}
  ELSE IF "proof-evidence" \notin x.artifacts THEN {Throw("retry")}
  ELSE {Throw("retry"), Throw("terminal")} \cup
       {Done(<<[type |-> "CONSUMER_VERIFIED", info |-> v]>>,
             {"consumer-evidence", "safe-consumer"}, {"BUILD_PROOF_BUNDLE"}) : v \in Verdicts}

VerifyDeployedConsumer(x) ==
  IF ~Has(x, "CONSUMER_VERIFIED") \/ ~Terminal(x.events) THEN {Throw("terminal")}
  ELSE IF ~({"safe-consumer", "preflight-evidence"} \subseteq x.artifacts) THEN {Throw("retry")}
  ELSE {Throw("retry"), Done(<<>>, {"deployed-consumer-evidence"}, {})}

BuildProofBundle(x) ==
  IF "proof-bundle" \in x.artifacts THEN {Done(<<>>, {}, {})}
  ELSE IF ~({"preflight-evidence", "proof-evidence"} \subseteq x.artifacts) THEN {Throw("retry")}
  ELSE IF "safe-consumer" \notin x.artifacts THEN {Throw("terminal")}
  ELSE IF ~Has(x, "CONSUMER_VERIFIED") THEN {Throw("retry")}
  ELSE {Done(<<>>, {"proof-bundle"}, {})}

\* Any handler may fail to load its snapshot, or lose its lease's heartbeat.
Handle(kind, x) ==
  {Throw("retry")} \cup
  CASE kind = "RUN_PREFLIGHT"                 -> RunPreflight(x)
    [] kind = "APPLY_REPLAY_EVIDENCE"         -> ApplyReplayEvidence(x)
    [] kind = "SUBMIT_RELAYER"                -> SubmitRelayer(x)
    [] kind = "BROADCAST_RELAYER_TRANSACTION" -> BroadcastRelayerTransaction(x)
    [] kind = "ATTACH_WALLET_TRANSACTION"     -> AttachWalletTransaction(x)
    [] kind = "POLL_TRANSACTION_RECEIPT"      -> PollTransactionReceipt(x)
    [] kind = "POLL_RELAY_FINALIZATION"       -> PollRelayFinalization(x)
    [] kind = "FETCH_DA_PROOF"                -> FetchDaProof(x)
    [] kind = "VERIFY_PROOF"                  -> VerifyProof(x)
    [] kind = "VERIFY_CONSUMER"               -> VerifyConsumer(x)
    [] kind = "VERIFY_DEPLOYED_CONSUMER"      -> VerifyDeployedConsumer(x)
    [] kind = "BUILD_PROOF_BUNDLE"            -> BuildProofBundle(x)

\* What handlers append to the journal.
HandlerOutcomes ==
  {<<>>, <<[type |-> "RUN_FAILED", info |-> "preflight"]>>}
    \cup {<<Effect(t)>> : t \in {"PREFLIGHT_ACCEPTED", "REQUEST_SUBMITTED", "ROUND_FINALIZED",
                                "PROOF_AVAILABLE", "PROOF_VERIFIED"}}
    \cup {<<[type |-> "CONSUMER_VERIFIED", info |-> v]>> : v \in Verdicts}
    \cup {ReplayEffects(v) : v \in Verdicts}

\* The queue is not asked for anything else.
ASSUME OutcomeAssumption == HandlerOutcomes \subseteq Outcomes

Context(w) ==
  LET r == RunOf[worker[w].cmd] IN
  [events    |-> SubSeq(journal[r], 1, worker[w].seen),
   artifacts |-> view[w],
   mode      |-> ModeOf[r]]

Children(r, kinds) == {d \in Commands : RunOf[d] = r /\ KindOf[d] \in kinds}

---------------------------------------------------------------------------
(* The API: a request is checked against one read of the run, and inserts   *)
(* its command in a later statement.                                       *)

ActiveSubmission(r) ==
  \E d \in Commands : /\ RunOf[d] = r /\ KindOf[d] \in SubmissionKinds
                      /\ cmd[d].status \notin {"absent", "cancelled"}

Admissible(c) ==
  LET j == JournalOf(c)
      k == KindOf[c] IN
  /\ IF c \in Auxiliary THEN Terminal(j) /\ StageStatus(j, "consumer") = "completed"
                       ELSE ~Terminal(j)
  /\ k \in SubmissionKinds =>
       /\ ModeFor(k) = ModeOf[RunOf[c]]
       /\ StageStatus(j, "preflight") = "completed"
       /\ ~ActiveSubmission(RunOf[c])

Admit(c) ==
  /\ c \notin admitted /\ cmd[c].status = "absent"
  /\ Admissible(c)
  /\ admitted' = admitted \cup {c}
  /\ UNCHANGED <<journal, cmd, worker, artifacts, view>>

\* Fault: no unique index, the check before the insert is trusted.
InsertUnchecked(c) ==
  /\ c \in admitted
  /\ Enqueue(c)
  /\ admitted' = admitted \ {c}
  /\ UNCHANGED <<artifacts, view>>

\* A second active submission of a run violates the unique index.
Insert(c) ==
  /\ c \in admitted
  /\ ~(KindOf[c] \in SubmissionKinds /\ ActiveSubmission(RunOf[c]))
  /\ Enqueue(c)
  /\ admitted' = admitted \ {c}
  /\ UNCHANGED <<artifacts, view>>

InsertRefused(c) ==
  /\ c \in admitted
  /\ KindOf[c] \in SubmissionKinds /\ ActiveSubmission(RunOf[c])
  /\ admitted' = admitted \ {c}
  /\ UNCHANGED <<journal, cmd, worker, artifacts, view>>

---------------------------------------------------------------------------
(* The worker.                                                             *)

\* Steps that involve no artifact; a worker that goes on keeps its snapshot.
Aside(w) ==
  /\ view' = [view EXCEPT ![w] = IF worker'[w].pc = "running" THEN @ ELSE {}]
  /\ UNCHANGED <<artifacts, admitted>>

\* Fault: the handler starts before the lease is renewed.
LoadUnrenewed(w) ==
  /\ worker[w].pc = "claimed"
  /\ worker' = [worker EXCEPT ![w].pc = "running",
                              ![w].seen = Len(JournalOf(worker[w].cmd))]
  /\ view' = [view EXCEPT ![w] = artifacts[RunOf[worker[w].cmd]]]
  /\ UNCHANGED <<journal, cmd, artifacts, admitted>>

LoadContext(w) ==
  /\ Load(w)
  /\ view' = [view EXCEPT ![w] = artifacts[RunOf[worker[w].cmd]]]
  /\ UNCHANGED <<artifacts, admitted>>

\* A result is committed or refused as a whole.
Return(w, res) ==
  /\ res.throws = "none"
  /\ LET r == RunOf[worker[w].cmd] IN
     \/ /\ Complete(w, res.events, Children(r, res.next))
        /\ artifacts' = [artifacts EXCEPT ![r] = @ \cup res.adds]
     \/ /\ CompletionRefused(w, res.events)
        /\ UNCHANGED artifacts
  /\ view' = [view EXCEPT ![w] = {}]
  /\ UNCHANGED admitted

Fail(w, res) ==
  /\ res.throws # "none"
  /\ HandlerThrows(w, res.throws)
  /\ Aside(w)

HandlerEnds(w) ==
  /\ worker[w].pc = "running"
  /\ \E res \in Handle(KindOf[worker[w].cmd], Context(w)) : Return(w, res) \/ Fail(w, res)

PipelineTurn(w) ==
  \/ \E c \in Commands : Claim(w, c) /\ Aside(w)
  \/ Renew(w) /\ Aside(w)
  \/ LoadContext(w)
  \/ HandlerEnds(w)
  \/ Retry(w) /\ Aside(w)
  \/ RetryRefused(w) /\ Aside(w)

DeadlineTurn(c) == DeadlinePasses(c) /\ UNCHANGED <<artifacts, view, admitted>>

CrashTurn(w) == Crash(w) /\ Aside(w)

\* Steps that no worker takes.
Surroundings ==
  \/ \E c \in ApiCommands : Admit(c) \/ Insert(c) \/ InsertRefused(c)
  \/ \E c \in Commands : DeadlineTurn(c)

PipelineNext ==
  \/ Surroundings
  \/ \E w \in Workers : PipelineTurn(w) \/ CrashTurn(w)

PipelineSpec == PipelineInit /\ [][PipelineNext]_pipelineVars

---------------------------------------------------------------------------
(* Fairness: a worker process runs, or is started again, and goes on with   *)
(* its turn (runWorkerLoop; the platform restarts it); backoffs and leases  *)
(* run out.  Nobody has to send a request.                                  *)

LiveSpec ==
  /\ PipelineSpec
  /\ \A w \in Workers : WF_pipelineVars(PipelineTurn(w))
  /\ \A c \in Commands : WF_pipelineVars(DeadlineTurn(c))

---------------------------------------------------------------------------
(* Properties.                                                             *)

\* A run never claims a stage without its evidence: what the bundle is built
\* from is persisted with, or before, the event that reports the stage
\* ("completion atomically appends events, persists artifacts", docs/slices/003).
StagesHaveEvidence ==
  \A r \in Runs :
    LET reached == Reached(journal[r]) IN
    /\ 2 \in reached => "preflight-evidence" \in artifacts[r]
    /\ 4 \in reached /\ ModeOf[r] # "replay" => {"receipt-evidence", "relay-evidence"} \subseteq artifacts[r]
    /\ 5 \in reached => "proof-evidence" \in artifacts[r]
    /\ 6 \in reached => "verification-evidence" \in artifacts[r]
    /\ 7 \in reached => {"consumer-evidence", "safe-consumer"} \subseteq artifacts[r]

Submissions(r) ==
  {c \in Commands : /\ RunOf[c] = r /\ KindOf[c] \in SubmissionKinds
                    /\ cmd[c].status \notin {"absent", "cancelled"}}

\* Nothing is submitted on behalf of a run without an explicit submission of its
\* own mode that took effect, and a run has at most one submission in force,
\* under concurrent requests and cancellations (createSubmission,
\* attachTransaction, the unique index of migration 005).
OneExplicitSubmission ==
  \A r \in Runs :
    /\ \A c, d \in Submissions(r) : c = d
    /\ 3 \in Reached(journal[r]) =>
         \E c \in Submissions(r) : ModeFor(KindOf[c]) = ModeOf[r] /\ cmd[c].status = "succeeded"

\* A run between its submission and its verified proof never waits for nobody:
\* some command of its chain can be claimed, now or when its lease or backoff
\* has run out (the child commands of the handlers).
OpenRunHasWork ==
  \A r \in Runs :
    LET reached == Reached(journal[r]) IN
    3 \in reached /\ 6 \notin reached /\ ~Terminal(journal[r]) =>
      \E c \in Commands : /\ RunOf[c] = r /\ KindOf[c] # "VERIFY_CONSUMER"
                          /\ cmd[c].status \in {"queued", "leased"}
                          /\ Reclaimable(c)

\* Only a concluded run has a proof bundle, and a concluded run has one or had a
\* command to build it (VERIFY_CONSUMER and APPLY_REPLAY_EVIDENCE schedule it in
\* the transaction that concludes the run).
BundleOfConcludedRun ==
  \A r \in Runs :
    LET concluded == 7 \in Reached(journal[r]) IN
    /\ "proof-bundle" \in artifacts[r] => concluded
    /\ concluded =>
         \/ "proof-bundle" \in artifacts[r]
         \/ \E c \in OfKind("BUILD_PROOF_BUNDLE") :
              RunOf[c] = r /\ cmd[c].status # "absent"

\* The handlers and the API use the queue as CommandQueue allows.
ImplementsQueue == QueueSpec

\* A submitted run whose workers and clocks go on gets its proof verified or
\* ends ("resume after worker restarts", docs/slices/003); a verification of the
\* consumer that comes too early is left out of the runs that check this.
SubmittedRunsAdvance ==
  \A r \in Runs :
    3 \in Reached(journal[r]) ~> (6 \in Reached(journal[r]) \/ Terminal(journal[r]))

---------------------------------------------------------------------------
(* What the documents say and the code does not do.                        *)

\* "Expired leases are reclaimable with SKIP LOCKED" (docs/slices/002).
ExpiredLeasesAreReclaimable ==
  \A c \in Commands : cmd[c].status = "leased" /\ cmd[c].elapsed => Reclaimable(c)

\* "... the same persisted command is retried automatically" (docs/adr/0019): a
\* retry announced by an open run can start.
AnnouncedRetriesCanStart ==
  \A c \in Commands :
    cmd[c].status = "queued" /\ cmd[c].attempts > 0 /\ ~Terminal(JournalOf(c)) => Reclaimable(c)

\* "A retry claim appends RUN_RESUMED in the same transaction that increments
\* the attempt and acquires the lease" (docs/adr/0019).
RetryClaimsTellResume ==
  \A w \in Workers :
    LET c == worker[w].cmd
        n == worker[w].token IN
    Busy(w) /\ LeaseLive(w) /\ n > 1 /\ c \notin Auxiliary =>
      \E i \in DOMAIN JournalOf(c) : JournalOf(c)[i] = RecoveryEvent("RUN_RESUMED", c, n)
=============================================================================
