\* The browser client: one user, two connections lost at either end and at
\* any moment, a coordinator who offers and withdraws transactions.  Or, when
\* the user has left at once, three participant ids and three sockets, any of
\* which may be the coordinator's or take over an id while the socket before
\* it is still open, and name any status for it.  Or the page, with two
\* transactions, two tries and one connection broken.
SPECIFICATION FairConnections
CONSTANTS
  Pids = {p1, p2, p3}
  Socks = {s1, s2, s3, s4}
  None = None
  MaxReady = 3
  Users = {u1}
  Client = "browser"
  MaxAttempts = 1
  MaxDrops = 2
  MaxSent = 1
  PageTxs = {d1, d2}
  NoPageTx = NoPageTx
  ScheduleSign = ScheduleSign
  MaxTries = 2
  MaxReconnects = 1
  MaxBreaks = 1
  MaxNews = 1
INVARIANTS
  ConnectionsTypeOK
  ConnectedCountExact
  RegisteredIsLive
  TokenAgreed
  SubmittedWasApproved
PROPERTIES
  Rejoins
  HungUpForGood
\* A user who left and a coordinator with nothing on offer may rest.
CHECK_DEADLOCK FALSE
