--------------------------- MODULE MCRunPipeline ----------------------------
(***************************************************************************)
(* RunPipeline for TLC: one run, commands named after their kinds.         *)
(***************************************************************************)
EXTENDS RunPipeline, TLC

CONSTANTS run, mode

Proving == {"POLL_TRANSACTION_RECEIPT", "POLL_RELAY_FINALIZATION", "FETCH_DA_PROOF", "VERIFY_PROOF"}

Concluding == {"VERIFY_CONSUMER", "BUILD_PROOF_BUNDLE"}

WalletCommands == {"RUN_PREFLIGHT", "ATTACH_WALLET_TRANSACTION"} \cup Proving \cup Concluding

RelayerCommands ==
  {"RUN_PREFLIGHT", "SUBMIT_RELAYER", "BROADCAST_RELAYER_TRANSACTION"} \cup Proving

\* Two submissions compete.
ReplayCommands ==
  {"RUN_PREFLIGHT", "APPLY_REPLAY_EVIDENCE", "apply again", "VERIFY_DEPLOYED_CONSUMER"} \cup Concluding

\* A replay that nobody asks to verify its consumer.
PlainReplayCommands == {"RUN_PREFLIGHT", "APPLY_REPLAY_EVIDENCE", "BUILD_PROOF_BUNDLE"}

\* The consumer is verified too early.
EarlyCommands == {"RUN_PREFLIGHT", "VERIFY_CONSUMER"}

MCKindOf == [c \in Commands |->
               IF c = "apply again" THEN "APPLY_REPLAY_EVIDENCE" ELSE c]

MCRunOf   == [c \in Commands |-> run]
MCModeOf  == [r \in {run} |-> mode]
MCStageOf == [c \in Commands |-> FailureStage(KindOf[c])]

MCAuxiliary   == OfKind("VERIFY_DEPLOYED_CONSUMER")
MCRoots       == OfKind("RUN_PREFLIGHT")
MCApiCommands == UNION {OfKind(k) : k \in SubmissionKinds \cup
                          {"VERIFY_CONSUMER", "VERIFY_DEPLOYED_CONSUMER"}}

WorkerSymmetry == Permutations(Workers)
=============================================================================
