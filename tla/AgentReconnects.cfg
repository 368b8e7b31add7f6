\* An agent whose connection is lost once, with attempts to spare.
SPECIFICATION FairReconnection
CONSTANTS
  Pids = {p1, p2, p3}
  Socks = {s1, s2, s3, s4}
  None = None
  MaxReady = 2
  Users = {u1}
  Client = "agent"
  MaxAttempts = 2
  MaxDrops = 1
  MaxSent = 1
PROPERTIES
  Rejoins
\* A user who left and a coordinator with nothing on offer may rest.
CHECK_DEADLOCK FALSE
