\* A session that expires and is deleted while work goes on, injections by
\* the embedding process, an agent, an ineligible key, and an onThresholdMet
\* handler that executes.
SPECIFICATION Spec
CONSTANTS
  Pids = {p1}
  Agents = {p1}
  KeyPairs = {{k1, k2}, {k3}}
  Eligible = {k1}
  Txs = {t1, t2}
  NoTx = NoTx
  Threshold = 1
  AutoExecute = FALSE
  ThresholdHandler = TRUE
  LocalInject = TRUE
  Unbounded = FALSE
  MaxRounds = 2
  MaxQueue = 2
  MaxSocks = 1
SYMMETRY Symmetry
INVARIANTS
  StatusMatchesTransaction
  SubmissionsApproved
  SubmittedOnce
  SubmittedIsClosed
\* A deleted session whose sockets have closed has nothing left to do.
CHECK_DEADLOCK FALSE
