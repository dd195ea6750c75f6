SPECIFICATION PipelineSpec
CONSTANTS
  NoCommand = NoCommand
  run = run
  mode = "wallet"
  Workers = {w1}
  Runs = {run}
  Commands <- EarlyCommands
  KindOf <- MCKindOf
  ModeOf <- MCModeOf
  RunOf <- MCRunOf
  StageOf <- MCStageOf
  Auxiliary <- MCAuxiliary
  Roots <- MCRoots
  ApiCommands <- MCApiCommands
  Unhandled = {}
  Outcomes <- HandlerOutcomes
  MaxAttempts = 3
  ClaimBound = 3
INVARIANTS
  RetryClaimsTellResume
CHECK_DEADLOCK FALSE
