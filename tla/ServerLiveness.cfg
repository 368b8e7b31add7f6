\* The same server under fairness, with one participant who may hold both
\* keys and two sockets.
SPECIFICATION FairSpec
CONSTANTS
  Pids = {p1}
  Agents = {}
  KeyPairs = {{k1}, {k2}}
  Eligible = {k1, k2}
  Txs = {t1}
  NoTx = NoTx
  Threshold = 2
  AutoExecute = FALSE
  ThresholdHandler = FALSE
  LocalInject = FALSE
  Unbounded = TRUE
  MaxRounds = 2
  MaxQueue = 2
  MaxSocks = 2
PROPERTIES
  LockReleased
  ThresholdLeadsToSubmission
  NoTransactionLingers
