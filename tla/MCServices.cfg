SPECIFICATION Spec
CONSTANTS
  Conn = {c1, c2}
  MaxConns = 1
  MaxRedirects = 1
  Target <- McTarget
  Hosts = {"api", "*.apex", "10.0.0.1"}
  Credentials <- McCredentials
  Secret = {"k1", "k2", "k3"}
  Covers <- McCovers
  Under <- McUnder
  Wildcard = {"*.apex", "*.com"}
  Suffix = {"*.com"}
  Literal = {"10.0.0.1"}
  Address = {"93.1.1.1", "10.0.0.1"}
  Private = {"10.0.0.1"}
  MaxDirs = 3
  Ref = {r1, r2}
  Qualified = {r1}
  Required = TRUE
  NoRef = NoRef
  MaxStrikes = 1
  MaxNoise = 2
  node = node
  lib = lib
  link = link
  spare = spare
  good = good
  bad = bad
  Releases <- McReleases
  Paths = {node, lib, link, spare}
  Bits = {good, bad}
  NoPath = NoPath
  Outside = Outside
  MaxAttach = 2
  Id = {i1, i2}
  MaxSteps = 3
  ContextKey = {query, k1}
  Query = query
  NoOutput = NoOutput
  MaxChain = 2
  Requests = {q1, q2}
  Skill = {"s1", "s2", "s3"}
  Eligible = {"s1", "s2"}
  Score <- McScore
  NameMatch = {"s2"}
  KeywordMatch = {"s2", "s3"}
  TopK = 1
  MaxNamed = 1
  MaxKeyword = 2
  MaxAttempts = 2
  Loader = {p1, p2}
  SkillFile = {f1}
  MaxContent = 2
  Malformed = {2}
  MaxTicks = 3
  Proc = {p1}
  MaxNotes = 2
  MaxTime = 3
  MaxRuns = 1
  Change = {c1, c2}
  Risky = {c2}
  MaxHistory = 1
  MaxSeq = 2
  MaxVersion = 2
  MaxIds = 2
  Key = {k1}
  free = free
  pro = pro
  anyone = anyone
  Tier = {free, pro}
  FreeTier = free
  DayLimit <- McDayLimit
  MinuteLimit <- McMinuteLimit
  Anyone = anyone
  SaveEvery = 2
  Window = 2
  MaxClock = 3
  MaxDay = 1
  MaxLosses = 2
  m1 = m1
  m2 = m2
  m3 = m3
  peerA = peerA
  peerB = peerB
  Message = {m1, m2, m3}
  Peer = {peerA, peerB}
  From <- McFrom
  ById = {m2, m3}
  MaxMessages = 3
  Chat = {slack, telegram}
  PeerId = {x}
  MaxCodes = 3
  Chan = {"webchat", "slack", "telegram"}
  WebChat = "webchat"
  Kind <- McKind
  Http = "http"
  Caller = {"svc", "other"}
  Service = "svc"
  AgentCount = 2
INVARIANTS TypeOK LimitsExact OnlyGranted  OnDiskAsPromised NothingLost ResultsEarned
PROPERTY AllEnd
CHECK_DEADLOCK FALSE
