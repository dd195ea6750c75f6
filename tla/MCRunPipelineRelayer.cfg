SPECIFICATION LiveSpec
CONSTANTS
  NoCommand = NoCommand
  run = run
  mode = "relayer"
  Workers = {w1}
  Runs = {run}
  Commands <- RelayerCommands
  KindOf <- MCKindOf
  ModeOf <- MCModeOf
  RunOf <- MCRunOf
  StageOf <- MCStageOf
  Auxiliary <- MCAuxiliary
  Roots <- MCRoots
  ApiCommands <- MCApiCommands
  Unhandled = {}
  Outcomes <- HandlerOutcomes
  MaxAttempts = 2
  ClaimBound = 2
PROPERTIES
  SubmittedRunsAdvance
CHECK_DEADLOCK FALSE
