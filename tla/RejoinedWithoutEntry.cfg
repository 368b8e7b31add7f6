\* A participant whose connection is lost once before it has signed.
SPECIFICATION ReconnectionSpec
CONSTANTS
  Pids = {p1, p2, p3}
  Socks = {s1, s2, s3, s4}
  None = None
  MaxReady = 2
  Users = {u1}
  Client = "browser"
  MaxAttempts = 1
  MaxDrops = 1
  MaxSent = 1
INVARIANTS
  RejoinedCanSign
\* A user who left and a coordinator with nothing on offer may rest.
CHECK_DEADLOCK FALSE
