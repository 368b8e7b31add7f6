\* autoExecute set: the threshold is met and nothing is executed.
SPECIFICATION FairSpec
CONSTANTS
  Pids = {p1}
  Agents = {}
  KeyPairs = {{k1}, {k2}}
  Eligible = {k1, k2}
  Txs = {t1}
  NoTx = NoTx
  Threshold = 1
  AutoExecute = TRUE
  ThresholdHandler = FALSE
  LocalInject = FALSE
  Unbounded = TRUE
  MaxRounds = 1
  MaxQueue = 2
  MaxSocks = 1
PROPERTY
  ThresholdLeadsToSubmission
