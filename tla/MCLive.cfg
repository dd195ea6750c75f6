SPECIFICATION LiveSpec
CONSTANTS
  c1 = c1
  c2 = c2
  c3 = c3
  c4 = c4
  k1 = k1
  k2 = k2
  k3 = k3
  wallet_run = wallet_run
  relayer_run = relayer_run
  replay_run = replay_run
  a1 = a1
  a2 = a2
  a3 = a3
  r1 = r1
  r2 = r2
  r3 = r3
  l1 = l1
  l2 = l2
  l3 = l3
  l4 = l4
  p1 = p1
  p2 = p2
  s1 = s1
  s2 = s2
  t1 = t1
  t2 = t2
  None = None
  Calls = {c1, c2, c3}
  Keys = {k1, k2}
  Manifests = {wallet_run, relayer_run, replay_run}
  Live = {wallet_run, relayer_run}
  KeyOf <- MCKeyOf
  ManifestOf <- MCManifestOf
  DayLimit <- MCDayLimit
  LiveLimit <- MCLiveLimit
  Colliding = {}
  LastDay = 1
  Global = Global
  Requests = {r1, r2}
  Logins = {l1, l2}
  Addresses = {a1}
  AddressOf <- MCAddressOf
  ChallengeOf <- MCChallengeOf
  Signed = {l1, l2}
  Connections = 1
  AddressLimit = 2
  GlobalLimit = 2
  Lifetime = 1
  Retention = 1
  LastMinute = 1
  Projects = {p1, p2}
  ProjectOf <- MCProjectOf
  SessionOf <- MCSessionOf
  PageLimit = 1
  SecondLength = 2
  Runs = {1, 2}
  Sessions = {s1}
  LastTick = 1
  MaxOpen = 1
  MaxShown = 2
  MaxPageCalls = 2
  Tokens = {t1, t2}
  MaxRevision = 2
  MaxCalls = 2
  Wallets = {a1, a3}
  Contracts = {a3}
  MaxAttempts = 3
  i1 = i1
  i2 = i2
  i3 = i3
  i4 = i4
  Issues = {i1, i2, i3, i4}
  IssueKeys = {k1, k2}
  IssueKeyOf <- MCIssueKeyOf
  IntentOf <- MCIntentOf
  Orphans = {i4}
  Tabs = {t1, t2}
  MaxTries = 1
  MaxGeneration = 1
  MaxPolls = 1
  MaxReports = 1
  tpl1 = tpl1
  tpl2 = tpl2
  Templates = {tpl1, tpl2}
  Landed = Landed
  Corrupt = Corrupt
  MaxEdits = 1
  MaxKeys = 1
  MaxVisits = 1
  MaxAsked = 1
  MaxMarker = 2
  MaxErrands = 1
  MaxLooks = 2
  g1 = g1
  g2 = g2
  g3 = g3
  lw = lw
  lr = lr
  rec = rec
  con = con
  val = val
  ja = ja
  jb = jb
  ma = ma
  mb = mb
  Clients = {g1, con}
  KindOf <- MCKindOf
  IdentityOf <- MCIdentityOf
  ContentOf <- MCContentOf
  RunIds = {1, 2}
  TimeLimit = 1
  MaxStarts = 2
PROPERTIES
  EverythingEnds
CHECK_DEADLOCK FALSE
