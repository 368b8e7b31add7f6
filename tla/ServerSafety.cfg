\* Two participants, two of two keys, two transactions: every interleaving of
\* injection, signing, rejection, expiry, reset and execution.
SPECIFICATION Spec
CONSTANTS
  Pids = {p1, p2}
  Agents = {}
  KeyPairs = {{k1}, {k2}}
  Eligible = {k1, k2}
  Txs = {t1, t2}
  NoTx = NoTx
  Threshold = 2
  AutoExecute = FALSE
  ThresholdHandler = FALSE
  LocalInject = FALSE
  Unbounded = TRUE
  MaxRounds = 2
  MaxQueue = 2
  MaxSocks = 1
SYMMETRY Symmetry
INVARIANTS
  TypeOK
  SignaturesMatchTransaction
  ExecutingIsUnderWay
  TimerMatchesTransaction
  NoStaleSignedStatus
PROPERTIES
  ImplementsCeremony
