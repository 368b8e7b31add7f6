--------------------------- MODULE RedisSessionStore ---------------------------
(***************************************************************************)
(* One session of RedisSessionStore: its JSON in Redis, its object in the  *)
(* in-memory fallback, and the requests at work on it.  Each request loads *)
(* the session, changes its own copy and saves it; the load and the save   *)
(* wait for Redis, and other requests, time and a loss of the connection   *)
(* come between.  Redis itself is external: it keeps what was set until    *)
(* the time to live has run out.                                           *)
(*                                                                         *)
(* The counters are those of ParticipantRegistry and are left out.         *)
(***************************************************************************)
EXTENDS Naturals, FiniteSets

CONSTANTS
  Members,     \* participant ids (a participant signs with a key of its own)
  Ops,         \* operations the requests are for
  Requests,    \* requests that can be under way at once
  NoSession,   \* null
  MaxOutages   \* bound on failures of Redis

ASSUME StoreAssumption == MaxOutages \in Nat

VARIABLES
  redis,     \* the session in Redis, or NoSession
  sessions,  \* the session in the fallback map, or NoSession
  connected, \* redisConnected
  work,      \* what each request does and the copy it works on
  age,       \* time: before expiresAt, past it, or five minutes past it
  bounded,   \* expiresAt # null
  outages,   \* failures of Redis so far
  kept       \* history, until Redis first fails: signatures that were saved when
             \* no request without the lock was under way, and not cleared since

storeVars == <<redis, sessions, connected, work, age, bounded, outages, kept>>

\* "signing" is also executing, failed and cancelled.
StoreStatuses == {"waiting", "transaction-received", "signing", "completed",
                  "expired"}
EntryStatuses == {"none", "joined", "signed", "rejected", "disconnected"}

StoredSessions == [status : StoreStatuses, entry : [Members -> EntryStatuses],
                   signatures : SUBSET Members]

\* What a request is for ("execute", "complete" and "cancel" are updateStatus).
\* "joined" is connected or ready.
Purposes ==
  {p \in [op : {"join", "leave", "ready", "reject", "sign"}, who : Members] \cup
        [op : {"get", "inject", "clear", "execute", "complete", "cancel"},
         who : {"all"}] :
     p.op \in Ops}

\* The calls of submitSignature and of the execution run under the session's
\* lock, load to save.
Locking(p) == p.op \in {"sign", "execute", "complete"}

\* How far a request is: it has loaded its copy; it has changed it and SETEX is
\* under way, with a time to live or with none, which Redis refuses.
SaveStages == {"loaded", "saving", "refused"}

NotAtWork == [for |-> NoSession, copy |-> NoSession, stage |-> "loaded"]
AtWork(p, copy, stage) == [for |-> p, copy |-> copy, stage |-> stage]

NewSession(status, entry) ==
  [status |-> status, entry |-> entry, signatures |-> {}]

\* createSession, in Redis, before anyone joins or after all have.
StoreInit ==
  /\ \E s \in {"waiting", "transaction-received"}, e \in {"none", "joined"} :
       redis = NewSession(s, [m \in Members |-> e])
  /\ sessions = NoSession
  /\ connected = TRUE
  /\ work = [r \in Requests |-> NotAtWork]
  /\ age = "valid"
  /\ bounded \in BOOLEAN
  /\ outages = 0
  /\ kept = {}

-----------------------------------------------------------------------------
(* What a request makes of the session it has loaded                       *)

\* clearTransactionState
Cleared(s) ==
  [s EXCEPT !.signatures = {},
            !.entry = [m \in Members |->
              IF @[m] \in {"signed", "rejected"} THEN "joined" ELSE @[m]]]

\* removeParticipant
Left(s, m) ==
  [s EXCEPT !.entry[m] = IF @ = "none" THEN "none"
                         ELSE IF @ = "signed" THEN "disconnected" ELSE "none"]

\* What the request p makes of the session it has loaded.
Change(p, s) ==
  CASE p.op = "get"    -> IF age # "valid" THEN [s EXCEPT !.status = "expired"] ELSE s
    [] p.op \in {"execute", "cancel"} -> [s EXCEPT !.status = "signing"]
    [] p.op = "complete" -> [s EXCEPT !.status = "completed"]
    [] p.op = "inject" -> [s EXCEPT !.status = "transaction-received"]
    [] p.op = "clear"  -> Cleared(s)
    [] p.op = "sign"   -> [s EXCEPT !.signatures = @ \cup {p.who},
                                    !.entry[p.who] = "signed"]
    [] p.op \in {"join", "ready"} -> [s EXCEPT !.entry[p.who] = "joined"]
    [] p.op = "reject" -> [s EXCEPT !.entry[p.who] = "rejected"]
    [] p.op = "leave"  -> Left(s, p.who)

\* A request that throws or returns before its save.
Pointless(p, s) ==
  \/ p.op = "get" /\ age = "valid"
  \/ p.op = "inject" /\ s.status # "waiting"
  \/ p.op \in {"sign", "ready", "reject"} /\ s.entry[p.who] = "none"
  \/ p.op = "join" /\ s.entry[p.who] # "none"

-----------------------------------------------------------------------------
(* Load, change, save                                                      *)

\* Mutation: submitSignature does not wait for the lock.
MayBeginUnlocked(p) == TRUE

\* submitSignature and executeTransaction wait for the lock.
MayBegin(p) ==
  Locking(p) => \A r \in Requests : work[r] # NotAtWork => ~Locking(work[r].for)

Outage == outages < MaxOutages /\ outages' = outages + 1 /\ kept' = {}
NoOutage == UNCHANGED <<outages, kept>>

\* Mutation: the five minutes are left out of the time to live.
AcceptedBeforeExpiry == age = "valid"

\* The time to live a save would have now is not zero.
Accepted == age # "over"

\* _saveSession up to its await, on the live connection.
Sent(p, copy) == AtWork(p, copy, IF Accepted THEN "saving" ELSE "refused")

\* _loadSession answered by Redis: the request has a copy of its own.
LoadFromRedis(r, p) ==
  /\ work[r] = NotAtWork /\ MayBegin(p)
  /\ connected /\ redis # NoSession
  /\ work' = [work EXCEPT ![r] = AtWork(p, redis, "loaded")]
  /\ UNCHANGED <<redis, sessions, connected, age, bounded, outages, kept>>

\* The answer is in: the request changes its copy and saves it, for which it
\* waits when Redis is there, or throws or returns.
ChangeLoaded(r) ==
  LET p == work[r].for
      s == work[r].copy IN
  /\ work[r] # NotAtWork /\ work[r].stage = "loaded"
  /\ work' = [work EXCEPT ![r] =
                IF connected /\ ~Pointless(p, s) THEN Sent(p, Change(p, s))
                ELSE NotAtWork]
  /\ sessions' = IF connected \/ Pointless(p, s) THEN sessions ELSE Change(p, s)
  /\ UNCHANGED <<redis, connected, age, bounded, outages, kept>>

\* _loadSession with no answer from Redis, be it down, failing or without the
\* session: the request changes the fallback's own object.  Then it still has
\* to save that to Redis, if it can.
LoadFromFallback(r, p) ==
  /\ work[r] = NotAtWork /\ MayBegin(p)
  /\ sessions # NoSession /\ ~Pointless(p, sessions)
  /\ \/ (~connected \/ redis = NoSession) /\ NoOutage
     \/ connected /\ redis # NoSession /\ Outage
  /\ sessions' = Change(p, sessions)
  /\ work' = IF connected THEN [work EXCEPT ![r] = Sent(p, sessions')] ELSE work
  /\ UNCHANGED <<redis, connected, age, bounded>>

\* What the save of r makes of the history.
KeptAfter(r) ==
  IF outages > 0 \/ work[r].for.op = "clear" THEN {}
  ELSE IF work[r].for.op = "sign" /\
          (\A q \in Requests : work[q] # NotAtWork => Locking(work[q].for))
  THEN kept \cup {work[r].for.who}
  ELSE kept

\* setex, which Redis carries out.
SaveToRedis(r) ==
  /\ work[r] # NotAtWork /\ work[r].stage = "saving"
  /\ connected
  /\ redis' = work[r].copy
  /\ work' = [work EXCEPT ![r] = NotAtWork]
  /\ kept' = KeptAfter(r)
  /\ UNCHANGED <<sessions, connected, age, bounded, outages>>

\* setex is refused, fails or gets no answer, in which case Redis may have
\* carried it out: into the fallback.
SaveToFallback(r) ==
  /\ work[r] # NotAtWork
  /\ \/ work[r].stage = "refused" /\ UNCHANGED redis /\ NoOutage
     \/ /\ work[r].stage = "saving"
        /\ redis' \in {redis, work[r].copy}
        /\ IF connected THEN Outage ELSE NoOutage
  /\ sessions' = work[r].copy
  /\ work' = [work EXCEPT ![r] = NotAtWork]
  /\ UNCHANGED <<connected, age, bounded>>

-----------------------------------------------------------------------------
(* Redis, time and cleanup                                                 *)

LoseRedis ==
  /\ connected /\ Outage
  /\ connected' = FALSE
  /\ UNCHANGED <<redis, sessions, work, age, bounded>>

RegainRedis ==
  /\ ~connected
  /\ connected' = TRUE
  /\ UNCHANGED <<redis, sessions, work, age, bounded, outages, kept>>

\* expiresAt passes, then the five minutes.
StoreTick ==
  /\ bounded /\ age # "over"
  /\ age' = IF age = "valid" THEN "past" ELSE "over"
  /\ UNCHANGED <<redis, sessions, connected, work, bounded, outages, kept>>

\* The time to live has run out: it was rounded up to the second, and counted
\* from when Redis got it, so that the five minutes are over by then.
RedisEvicts ==
  /\ age = "over" /\ redis # NoSession
  /\ redis' = NoSession
  /\ UNCHANGED <<sessions, connected, work, age, bounded, outages, kept>>

\* The sessions _cleanupExpiredSessions is about.
Cleans(s) == s.status # "completed"

\* _cleanupExpiredSessions, which walks the fallback only.
CleanupExpiredSessions ==
  /\ bounded /\ age # "valid"
  /\ sessions # NoSession /\ Cleans(sessions)
  /\ sessions' = IF age = "over" THEN NoSession
                 ELSE [sessions EXCEPT !.status = "expired"]
  /\ UNCHANGED <<redis, connected, work, age, bounded, outages, kept>>

StoreNext ==
  \/ \E r \in Requests :
       \/ \E p \in Purposes : LoadFromRedis(r, p) \/ LoadFromFallback(r, p)
       \/ ChangeLoaded(r) \/ SaveToRedis(r) \/ SaveToFallback(r)
  \/ LoseRedis \/ RegainRedis \/ StoreTick \/ RedisEvicts
  \/ CleanupExpiredSessions

\* A load and a save are answered, time passes, Redis evicts and the cleanup
\* runs.
StoreFairness ==
  /\ \A r \in Requests :
       WF_storeVars(ChangeLoaded(r) \/ SaveToRedis(r) \/ SaveToFallback(r))
  /\ WF_storeVars(StoreTick \/ RedisEvicts)
  /\ WF_storeVars(CleanupExpiredSessions)

StoreSpec == StoreInit /\ [][StoreNext]_storeVars /\ StoreFairness

-----------------------------------------------------------------------------
(* Properties *)

\* The type invariant.
StoreTypeOK ==
  /\ redis \in StoredSessions \cup {NoSession}
  /\ sessions \in StoredSessions \cup {NoSession}
  /\ connected \in BOOLEAN
  /\ \A r \in Requests :
       work[r] # NotAtWork =>
         work[r].copy \in StoredSessions /\ work[r].stage \in SaveStages
  /\ age \in {"valid", "past", "over"}
  /\ bounded \in BOOLEAN
  /\ outages \in 0..MaxOutages
  /\ kept \subseteq Members

\* Unless Redis fails, nothing goes to the fallback before the session's five
\* minutes past its deadline are over, however many requests straddle it: until
\* then Redis has the only copy.  After that a refused save makes a second one,
\* for as long as Redis has yet to evict the first.
FallbackIsLastResort == outages = 0 /\ sessions # NoSession => age = "over"

\* Each save overwrites the whole session, and yet a signature that was saved
\* is lost only to a request without the lock that was under way at that moment:
\* those with the lock, and all that load later, keep it until it is cleared.
SignaturesKept ==
  outages = 0 /\ redis # NoSession => kept \subseteq redis.signatures

InFallback == sessions # NoSession /\ sessions.status # "completed"

\* Whatever is still at work when the deadline passes, and wherever it saves, a
\* bounded session leaves Redis for good, and it never stays in the fallback
\* unless it is completed.
ExpiredLeaves ==
  /\ bounded ~> [](redis = NoSession)
  /\ (bounded /\ InFallback) ~> ~InFallback
=============================================================================
