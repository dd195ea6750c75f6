SPECIFICATION PipelineSpec
CONSTANTS
  NoCommand = NoCommand
  run = run
  mode = "wallet"
  Workers = {w1}
  Runs = {run}
  Commands <- WalletCommands
  KindOf <- MCKindOf
  ModeOf <- MCModeOf
  RunOf <- MCRunOf
  StageOf <- MCStageOf
  Auxiliary <- MCAuxiliary
  Roots <- MCRoots
  ApiCommands <- MCApiCommands
  Unhandled = {}
  Outcomes <- HandlerOutcomes
  MaxAttempts = 2
  ClaimBound = 2
INVARIANTS
  StagesHaveEvidence
  OpenRunHasWork
CHECK_DEADLOCK FALSE
