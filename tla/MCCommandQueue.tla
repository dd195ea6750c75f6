--------------------------- MODULE MCCommandQueue ---------------------------
(***************************************************************************)
(* CommandQueue on small instances for TLC.  A behaviour is about one of   *)
(* two scenes: two workers and the two commands of a run, or one worker    *)
(* and a run that also has an auxiliary command and one of a kind without  *)
(* a handler.                                                              *)
(***************************************************************************)
EXTENDS CommandQueue, TLC

CONSTANTS pair, mixed, first, second, root, unknown, aux

VARIABLE scene

WorkerSymmetry == Permutations(Workers)

MCRunOf   == [c \in Commands |-> IF c \in {first, second} THEN pair ELSE mixed]
MCStageOf == [c \in Commands |-> IF c \in {second, unknown} THEN "consumer" ELSE "preflight"]

Ev(type, info) == [type |-> type, info |-> info]

\* A command without events, an accepted preflight, a blocked preflight, and a
\* replay, which appends the rest of the lifecycle in one transaction.
MCOutcomes ==
  { << >>,
    << Ev("PREFLIGHT_ACCEPTED", "none") >>,
    << Ev("RUN_FAILED", "preflight") >>,
    << Ev("REQUEST_SUBMITTED", "none"), Ev("ROUND_FINALIZED", "none"),
       Ev("PROOF_AVAILABLE", "none"), Ev("PROOF_VERIFIED", "none"),
       Ev("CONSUMER_VERIFIED", "passed") >> }

\* Only the run of the scene moves, and a mixed run has one worker at a time.
InScene ==
  /\ \A c \in Commands : RunOf[c] # scene => cmd'[c] = cmd[c]
  /\ scene = mixed => \A v, w \in Workers : v = w \/ Idle \in {worker'[v], worker'[w]}
  /\ UNCHANGED scene

MCQueueInit == QueueInit /\ scene \in Runs

MCQueueSpec ==
  /\ MCQueueInit
  /\ [][QueueNext /\ InScene]_<<queueVars, scene>>
=============================================================================
