------------------------------- MODULE MCParts -------------------------------
(* The components beside the session server, the registry and its connections, *)
(* in one instance.  Each behaviour exercises one of them (part), while the    *)
(* others stay as they start: what they share with the server is in their own  *)
(* modules, and they share nothing with one another here.                      *)
EXTENDS AuthRateLimit, RedisSessionStore, SessionTable, ServerProcess,
        ClientReview, TransactionReview, LocalCeremony, AirGapped,
        ScheduledSigning, MirrorPoll, NodeSelection, CoordinatorPage, TLC

VARIABLE part

serverSide == <<limitVars, storeVars, tableVars, processVars>>
dapp == <<pollVars, coordVars>>
clientSide == <<reviewVars, policyVars, dapp>>
tools == <<ceremonyVars, airVars, scheduleVars, nodeVars>>
partsVars == <<part, serverSide, clientSide, tools>>

Parts == {"limit", "store", "table", "process", "review", "policy", "ceremony",
          "air", "schedule", "poll", "nodes", "coord"}

PartsInit ==
  /\ part \in Parts
  /\ LimitInit /\ StoreInit /\ TableInit /\ ProcessInit /\ ReviewInit /\ PolicyInit
  /\ CeremonyInit /\ AirInit /\ ScheduleInit /\ PollInit /\ NodeInit
  /\ CoordInit
  /\ part = "limit" \/ ~suspends
  /\ part = "store" \/
       /\ ~bounded /\ redis.status = "waiting"
       /\ \A m \in Members : redis.entry[m] = "none"
  /\ part = "process" \/
       /\ tunnelOption = "none" /\ origins = "any"
       /\ \A p \in Peers : manner[p] = [prompt |-> TRUE, origin |-> "none"]
  /\ part = "review" \/ ~agent
  /\ part = "ceremony" \/ flow = "interactive"
  /\ part = "schedule" \/ waits

LimitPart ==
  /\ part = "limit" /\ LimitNext
  /\ UNCHANGED <<part, storeVars, tableVars, processVars, clientSide, tools>>
StorePart ==
  /\ part = "store" /\ StoreNext
  /\ UNCHANGED <<part, limitVars, tableVars, processVars, clientSide, tools>>
TablePart ==
  /\ part = "table" /\ TableNext
  /\ UNCHANGED <<part, limitVars, storeVars, processVars, clientSide, tools>>
ProcessPart ==
  /\ part = "process" /\ ProcessNext
  /\ UNCHANGED <<part, limitVars, storeVars, tableVars, clientSide, tools>>
ReviewPart ==
  /\ part = "review" /\ ReviewNext
  /\ UNCHANGED <<part, policyVars, dapp, serverSide, tools>>
PolicyPart ==
  /\ part = "policy" /\ PolicyNext
  /\ UNCHANGED <<part, reviewVars, dapp, serverSide, tools>>
PollPart ==
  /\ part = "poll" /\ PollNext
  /\ UNCHANGED <<part, reviewVars, policyVars, coordVars, serverSide, tools>>
CoordPart ==
  /\ part = "coord" /\ CoordNext
  /\ UNCHANGED <<part, reviewVars, policyVars, pollVars, serverSide, tools>>
CeremonyPart ==
  /\ part = "ceremony" /\ CeremonyNext
  /\ UNCHANGED <<part, airVars, scheduleVars, nodeVars, serverSide, clientSide>>
AirPart ==
  /\ part = "air" /\ AirNext
  /\ UNCHANGED <<part, ceremonyVars, scheduleVars, nodeVars, serverSide, clientSide>>
SchedulePart ==
  /\ part = "schedule" /\ ScheduleNext
  /\ UNCHANGED <<part, ceremonyVars, airVars, nodeVars, serverSide, clientSide>>
NodesPart ==
  /\ part = "nodes" /\ NodeNext
  /\ UNCHANGED <<part, ceremonyVars, airVars, scheduleVars, serverSide, clientSide>>

PartsNext ==
  \/ LimitPart \/ StorePart \/ TablePart \/ ProcessPart
  \/ ReviewPart \/ PolicyPart \/ PollPart \/ CoordPart
  \/ CeremonyPart \/ AirPart \/ SchedulePart \/ NodesPart

\* Each component's own fairness (LimitFairness, ...), where it is the one that
\* runs.
LimitPartFair ==
  /\ SF_limitVars(part = "limit" /\ LimitTick)
  /\ \A a \in Auths :
       WF_limitVars(part = "limit" /\ (RecordFailedAuth(a) \/ RecordSuccessfulAuth(a)))
StorePartFair ==
  /\ \A r \in Requests :
       WF_storeVars(part = "store" /\ (ChangeLoaded(r) \/ SaveToRedis(r) \/ SaveToFallback(r)))
  /\ WF_storeVars(part = "store" /\ (StoreTick \/ RedisEvicts))
  /\ WF_storeVars(part = "store" /\ CleanupExpiredSessions)
TablePartFair ==
  /\ \A i \in Sessions : WF_tableVars(part = "table" /\ TableTick(i))
  /\ WF_tableVars(part = "table" /\ CleanupSessions)
ProcessPartFair ==
  /\ WF_processVars(part = "process" /\ StartOrStopGoesOn)
  /\ WF_processVars(part = "process" /\ SendHeartbeats)
  /\ \A p \in Peers :
       /\ WF_processVars(part = "process" /\ Pong(p))
       /\ WF_processVars(part = "process" /\ SocketEnds(p))
ReviewPartFair == \A t \in Txs : WF_reviewVars(part = "review" /\ Proceed(t))
PollPartFair ==
  /\ WF_pollVars(part = "poll" /\ (FirstPoll \/ NextPoll))
  /\ WF_pollVars(part = "poll" /\ (\E f \in Fetches, a \in FetchAnswers : PollAnswered(f, a)))
CoordPartFair ==
  /\ WF_coordVars(part = "coord" /\ ConnectFails)
  /\ \A t \in CoordTxs : WF_coordVars(part = "coord" /\ InjectionTimesOut(t))

PartsFairness ==
  /\ LimitPartFair /\ StorePartFair /\ TablePartFair
  /\ ProcessPartFair /\ ReviewPartFair /\ PollPartFair /\ CoordPartFair

PartsSpec == PartsInit /\ [][PartsNext]_partsVars /\ PartsFairness

\* The type invariant: every component's.
PartsTypeOK ==
  /\ part \in Parts
  /\ LimitTypeOK /\ StoreTypeOK /\ TableTypeOK /\ ProcessTypeOK
  /\ ReviewTypeOK /\ PolicyTypeOK /\ PollTypeOK
  /\ CeremonyTypeOK /\ AirTypeOK /\ ScheduleTypeOK /\ NodeTypeOK
  /\ CoordTypeOK

\* What is temporary at the server ends: a lockout, a session past its deadline
\* in Redis, and in the in-memory table that is full.
ServerSettles == LockoutsEnd /\ ExpiredLeaves /\ RoomAgain

\* What a client waits for ends: the review of an offer, the browser's polling,
\* the coordinator's connecting and injecting.
ClientsSettle == ReviewsEnd /\ PollingEnds /\ CoordinatorWaitsEnd
=============================================================================
