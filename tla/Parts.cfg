SPECIFICATION PartsSpec
CONSTANTS
  Ips = {i1}
  Auths = {a1, a2}
  Records = {r1, r2, r3}
  NoRecord = NoRecord
  MaxAttempts = 2
  Window = 1
  Block = 2
  MaxPerSession = 3
  SessionWindow = 2
  Members = {m1}
  Ops = {"get", "sign", "complete"}
  Requests = {q1, q2}
  NoSession = NoSession
  MaxOutages = 1
  Sessions = {g1, g2}
  NoEntry = NoEntry
  MaxSessions = 1
  Peers = {p1}
  Txs = {t1, t2}
  NoTx = NoTx
  Accounts = {a1, a2}
  Amounts = {1, 2}
  Hour = 2
  MaxHbar = 1
  Allowed = {a1}
  MaxPerHour = 1
  Keys = {k1, k2}
  Signers = 3
  Threshold = 2
  SafeFor = 1
  ValidFor = 2
  MaxPolls = 2
  AirTxs = {f1, f2}
  AirKeys = {h1, h2}
  NoAirTx = NoAirTx
  Bodies = 2
  AirThreshold = 2
  MaxTuples = 1
  ScheduleKeys = {k1, k2}
  Needed = 2
  MaxSigns = 2
  PollTxs = {x1, x2}
  NoPollTx = NoPollTx
  PollLimit = 2
  MaxRuns = 2
  MaxLate = 1
  Nodes = {n1, n2, n3}
  Elsewhere = n3
  MaxListed = 3
  CoordTxs = {c1, c2}
  NoCoordTx = NoCoordTx
  MaxCoordNews = 1
INVARIANTS
  PartsTypeOK
  FallbackIsLastResort
  SignaturesKept
  
  PromptPeersKept
  SignedWasApproved
  ApprovedWithinPolicy
  ApprovalsPerHour
  AnnouncedExpiryStops
  ThresholdVerified
  OutcomesTrue
  CountedSigned
  SignersToldTrue
  RecordIsCurrent
  LivelyFirst
  HistoryTrue
PROPERTIES
  ServerSettles
  SilentPeersLeave
  StartAndStopEnd
  ClientsSettle
CHECK_DEADLOCK FALSE
