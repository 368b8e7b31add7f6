\* A threshold of two is met by the two spellings of one key.
SPECIFICATION Spec
CONSTANTS
  Pids = {p1}
  Agents = {}
  KeyPairs = {{k1, k2}}
  Eligible = {k1}
  Txs = {t1}
  NoTx = NoTx
  Threshold = 2
  AutoExecute = FALSE
  ThresholdHandler = FALSE
  LocalInject = FALSE
  Unbounded = TRUE
  MaxRounds = 1
  MaxQueue = 2
  MaxSocks = 1
INVARIANT
  OneKeyOneSigner
