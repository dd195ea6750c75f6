SPECIFICATION OperationsSpec
CONSTANTS
  m1 = m1
  m2 = m2
  m3 = m3
  v1 = v1
  w1 = w1
  w2 = w2
  h1 = h1
  h2 = h2
  x1 = x1
  x2 = x2
  x3 = x3
  x4 = x4
  x5 = x5
  x6 = x6
  p1 = p1
  p2 = p2
  t1 = t1
  t2 = t2
  b1 = b1
  b2 = b2
  b3 = b3
  b4 = b4
  i1 = i1
  i2 = i2
  None = None
  Migrators = {m1, m2, m3}
  Servers = {v1}
  Workers = {w1, w2}
  PlanOf <- MCPlanOf
  StaleAfter = 1
  KeepFor = 2
  Proving = {"wallet", "relayer"}
  HowSubmitted <- MCHowSubmitted
  FeeCap <- MCFeeCap
  Fees = {1, 2}
  SampleCount = 2
  LastRound = 2
  MaxUpgrades = 1
  Exchanges = {x1, x2, x3, x4, x5, x6}
  AsksOf <- MCAsksOf
  Holders = {h1, h2}
  HolderOf <- MCHolderOf
  RunsKept = {1, 2}
  OwnerOf <- MCOwnerOf
  BodyLimit = 2
  Deadline = 2
  MaxReleases = 2
  Pilots = {p1, p2}
  OnHost = {p2}
  Ticks = {t1, t2}
  LastHour = 4
  MaxClears = 1
  MaxSkews = 1
  DailyJobs = {b1, b2}
  PilotJobs = {b3, b4}
  Retain = 1
  LastSegment = 8
  MaxAnew = 1
  Releases = {1, 2, 3}
  Codegen <- MCCodegen
  Sources <- MCSources
  RunBundle <- MCRunBundle
  Imports = {i1, i2}
  MaxRecorded = 2
  MaxStartups = 1
INVARIANTS
  OperationsTypeOK
  DeploymentPromise
  AttestationPromise
  HttpPromise
  PromotionPromise
  BackupsPromise
  RestorePromise
  DemoPromise
CHECK_DEADLOCK FALSE
