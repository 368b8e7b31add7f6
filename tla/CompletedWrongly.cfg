\* A session completes with a transaction that never went out.
SPECIFICATION Spec
CONSTANTS
  Pids = {p1, p2}
  Agents = {}
  KeyPairs = {{k1}, {k2}}
  Eligible = {k1, k2}
  Txs = {t1, t2}
  NoTx = NoTx
  Threshold = 2
  AutoExecute = FALSE
  ThresholdHandler = FALSE
  LocalInject = FALSE
  Unbounded = TRUE
  MaxRounds = 2
  MaxQueue = 2
  MaxSocks = 1
INVARIANT
  CompletedMeansExecuted
