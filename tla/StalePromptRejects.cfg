SPECIFICATION ReviewSpec
CONSTANTS
  Txs = {t1, t2}
  NoTx = NoTx
PROPERTY CeremonyEndsByRefusal
CHECK_DEADLOCK FALSE
