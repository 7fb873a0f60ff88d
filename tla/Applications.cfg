\* Each component on a small instance: two concurrent router turns, two agent rounds of three steps, two
\* sub-questions with two hits each, three browser actions, two fetch threads over a cache of one body.
SPECIFICATION AppSpec
CONSTANTS
  Turns = {t1, t2}
  Keyed = {"deepseek"}
  ViaLocal = FALSE
  Cooldown = 1
  MaxRetries = 1
  MaxSteps = 3
  MaxCalls = 2
  Sizes = {1, 3}
  Trigger = 6
  KeepRecent = 2
  MaxRounds = 2
  Notes = {n1}
  MaxTraces = 1
  MaxWrites = 2
  Tools = {"web_search", "fetch"}
  Urls = {u1, u2}
  NoUrl = NoUrl
  MaxQuestions = 2
  MaxActions = 3
  Values = {"admin", "secret"}
  Fetches = {f1, f2}
  Pages = {p1, p2}
  MaxRedirects = 1
  MaxBodies = 1
  Addresses = {a1, a2}
  NoAddress = NoAddress
  Limits = {0, 1, 2}
  Window = 1
  CleanupEvery = 2
  MaxTime = 4
  Runs = {r1, r2}
  Keys = {}
  NoKey = NoKey
  NoSession = NoSession
  Lease = 2
  HeartbeatEvery = 1
  MaxInflight = 1
  MaxDowns = 2
  Processes = {g, w}
  TableCount = 2
  MaxRows = 2
  MaxOffset = 1
  Named = {2, 3, 4}
  Numbers = {1, 3}
  MaxQueries = 1
  MaxDeaths = 1
  Writers = {i1, i2}
  TextVersions <- SourceTexts
  Target = 10
  Overlap = 3
  TopK = 2
  MaxChunks = 3
INVARIANTS
  AppTypeOK
  RouterSound
  CallsAnswered
  MessagesAlternate
  ResultFollowsRounds
  CostIsHonest
  EveryCallAudited
  SourcesCited
  SummaryGrows
  BrowseGuarded
  SessionsAgree
  BugsReproduced
  FetchesBounded
  LimiterSound
  DrainSettles
  BiSound
  HitsSound
PROPERTIES
  AllEnd
CHECK_DEADLOCK FALSE
