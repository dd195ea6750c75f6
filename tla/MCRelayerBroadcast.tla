------------------------- MODULE MCRelayerBroadcast -------------------------
(***************************************************************************)
(* RelayerBroadcast for TLC: the commands of a run up to the broadcast.    *)
(* In a scene of one run its workers crash and lose leases; in a scene of  *)
(* two runs a command fails or waits once, and leases hold.                *)
(***************************************************************************)
EXTENDS RelayerBroadcast, TLC

VARIABLE playing  \* the runs of the scene

MCCommands == Runs \X ({"RUN_PREFLIGHT"} \cup RelayerKinds)

MCKindOf  == [c \in Commands |-> c[2]]
MCRunOf   == [c \in Commands |-> c[1]]
MCModeOf  == [r \in Runs |-> "relayer"]
MCStageOf == [c \in Commands |-> FailureStage(KindOf[c])]

MCRoots       == OfKind("RUN_PREFLIGHT")
MCApiCommands == OfKind("SUBMIT_RELAYER")

Symmetric == Permutations(Workers) \cup Permutations(Runs)

InScene ==
  /\ \A c \in Commands : RunOf[c] \notin playing =>
       cmd'[c] = cmd[c] /\ (c \in admitted' => c \in admitted)
  /\ Cardinality(playing) = 2 =>
       /\ \A c \in Commands : cmd'[c].attempts < 3 /\ (cmd'[c].elapsed => cmd'[c].status = "queued")
       /\ \A w \in Workers : Busy(w) /\ worker'[w] = Idle => cmd'[worker[w].cmd].status # "leased"
  /\ UNCHANGED playing

MCRelayerInit ==
  /\ RelayerInit
  /\ playing \in {Runs} \cup {{r} : r \in Runs}

MCRelayerSpec ==
  /\ MCRelayerInit
  /\ [][RelayerNext /\ InScene]_<<pipelineVars, relayerVars, playing>>
=============================================================================
