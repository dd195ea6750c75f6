SPECIFICATION PipelineSpec
CONSTANTS
  NoCommand = NoCommand
  run = run
  mode = "replay"
  Workers = {w1}
  Runs = {run}
  Commands <- ReplayCommands
  KindOf <- MCKindOf
  ModeOf <- MCModeOf
  RunOf <- MCRunOf
  StageOf <- MCStageOf
  Auxiliary <- MCAuxiliary
  Roots <- MCRoots
  ApiCommands <- MCApiCommands
  Unhandled = {}
  Outcomes <- HandlerOutcomes
  MaxAttempts = 2
  ClaimBound = 2
INVARIANTS
  PipelineTypeOK
  BundleOfConcludedRun
  OneExplicitSubmission
PROPERTIES
  ImplementsQueue
CHECK_DEADLOCK FALSE
