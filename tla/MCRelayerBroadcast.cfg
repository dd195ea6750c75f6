SPECIFICATION MCRelayerSpec
CONSTANTS
  NoCommand = NoCommand
  Workers = {w1, w2}
  Runs = {r1, r2}
  Commands <- MCCommands
  KindOf <- MCKindOf
  ModeOf <- MCModeOf
  RunOf <- MCRunOf
  StageOf <- MCStageOf
  Auxiliary = {}
  Roots <- MCRoots
  ApiCommands <- MCApiCommands
  Unhandled = {}
  Outcomes <- HandlerOutcomes
  MaxAttempts = 3
  ClaimBound = 3
SYMMETRY Symmetric
INVARIANTS
  RelayerTypeOK
  SentOnceAfterAttempt
  SubmittedIsTaken
  TakenIsFollowed
  UntakenIsNext
PROPERTIES
  ImplementsPipeline
CHECK_DEADLOCK FALSE
