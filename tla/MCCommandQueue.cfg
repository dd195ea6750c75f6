SPECIFICATION MCQueueSpec
CONSTANTS
  NoCommand = NoCommand
  pair = pair
  mixed = mixed
  root = root
  first = first
  second = second
  unknown = unknown
  aux = aux
  Workers = {w1, w2}
  Runs = {pair, mixed}
  Commands = {first, second, root, unknown, aux}
  RunOf <- MCRunOf
  StageOf <- MCStageOf
  Auxiliary = {aux}
  Roots = {first, root}
  ApiCommands = {second, unknown, aux}
  Unhandled = {unknown}
  Outcomes <- MCOutcomes
  MaxAttempts = 2
  ClaimBound = 3
SYMMETRY WorkerSymmetry
INVARIANTS
  QueueTypeOK
  SoleHolder
  EffectsAreFinal
  RecoveryViewAgrees
  ResumedBeforeWork
  LostWorkIsReported
PROPERTIES
  OnlyTheHolderReports
  ImplementsLifecycle
CHECK_DEADLOCK FALSE
