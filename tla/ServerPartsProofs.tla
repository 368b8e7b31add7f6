--------------------------- MODULE ServerPartsProofs ---------------------------
(* Proofs about what the server stands on: the Redis store, the table of          *)
(* sessions, the rate limits and the process with its heartbeat, for any number   *)
(* of requests, sessions, addresses and peers.                                    *)
EXTENDS RedisSessionStore, SessionTable, AuthRateLimit, ServerProcess,
        FiniteSetTheorems, TLAPS

-----------------------------------------------------------------------------
(* RedisSessionStore: types                                                *)

\* Who is at work has a copy of the session, and is there for something.
StoreInv ==
  /\ StoreTypeOK
  /\ work \in [Requests -> {NotAtWork} \cup
                  [for : Purposes, copy : StoredSessions, stage : SaveStages]]

\* No change makes anything but a session of a session.
LEMMA ChangeTyped ==
  ASSUME NEW p \in Purposes, NEW s \in StoredSessions
  PROVE  Change(p, s) \in StoredSessions
<1>1. /\ s.status \in StoreStatuses /\ s.entry \in [Members -> EntryStatuses]
      /\ s.signatures \subseteq Members
      /\ s = [status |-> s.status, entry |-> s.entry, signatures |-> s.signatures]
  BY DEF StoredSessions
<1>2. ASSUME NEW status \in StoreStatuses PROVE [s EXCEPT !.status = status] \in StoredSessions
  BY <1>1 DEF StoredSessions
<1>3. ASSUME NEW entry \in [Members -> EntryStatuses], NEW signatures \in SUBSET Members
      PROVE  [s EXCEPT !.entry = entry, !.signatures = signatures] \in StoredSessions
  BY <1>1 DEF StoredSessions
<1>4. ASSUME NEW entry \in [Members -> EntryStatuses]
      PROVE  [s EXCEPT !.entry = entry] \in StoredSessions
  BY <1>1 DEF StoredSessions
<1>5. ASSUME NEW m \in Members, NEW e \in EntryStatuses
      PROVE  [s.entry EXCEPT ![m] = e] \in [Members -> EntryStatuses]
  BY <1>1
<1>6. CASE p.op \in {"get", "inject", "clear", "execute", "complete", "cancel"}
  <2>1. Cleared(s) \in StoredSessions
    <3> DEFINE entry == [m \in Members |-> IF s.entry[m] \in {"signed", "rejected"}
                                           THEN "joined" ELSE s.entry[m]]
    <3>1. Cleared(s) = [s EXCEPT !.signatures = {}, !.entry = entry]
      BY DEF Cleared
    <3>2. entry \in [Members -> EntryStatuses]
      BY <1>1 DEF EntryStatuses
    <3> HIDE DEF entry
    <3> QED BY <1>1, <3>1, <3>2 DEF StoredSessions
  <2> QED BY <1>2, <1>6, <2>1 DEF Change, StoreStatuses
<1>7. CASE p.op \in {"join", "leave", "ready", "reject", "sign"}
  <2>1. p.who \in Members
    BY <1>7 DEF Purposes
  <2>2. CASE p.op = "sign"
    <3>1. Change(p, s) = [s EXCEPT !.signatures = s.signatures \cup {p.who},
                                   !.entry = [s.entry EXCEPT ![p.who] = "signed"]]
      BY <2>2 DEF Change
    <3>2. /\ [s.entry EXCEPT ![p.who] = "signed"] \in [Members -> EntryStatuses]
          /\ s.signatures \cup {p.who} \subseteq Members
      BY <1>1, <1>5, <2>1 DEF EntryStatuses
    <3> QED BY <1>1, <3>1, <3>2 DEF StoredSessions
  <2>3. CASE p.op # "sign"
    <3>1. PICK e \in EntryStatuses : Change(p, s) = [s EXCEPT !.entry = [s.entry EXCEPT ![p.who] = e]]
      <4>1. CASE p.op = "leave"
        <5> DEFINE e == IF s.entry[p.who] = "none" THEN "none"
                        ELSE IF s.entry[p.who] = "signed" THEN "disconnected" ELSE "none"
        <5>1. e \in EntryStatuses
          BY DEF EntryStatuses
        <5>2. Change(p, s) = [s EXCEPT !.entry = [s.entry EXCEPT ![p.who] = e]]
          BY <4>1 DEF Change, Left
        <5> QED BY <5>1, <5>2
      <4>2. CASE p.op = "reject"
        BY <4>2 DEF Change, EntryStatuses
      <4>3. CASE p.op \in {"join", "ready"}
        BY <4>3 DEF Change, EntryStatuses
      <4> QED BY <1>7, <2>3, <4>1, <4>2, <4>3
    <3> QED BY <1>4, <1>5, <2>1, <3>1
  <2> QED BY <2>2, <2>3
<1> QED BY <1>6, <1>7 DEF Purposes

LEMMA StoreInvInit == StoreInit => StoreInv
<1> SUFFICES ASSUME StoreInit PROVE StoreInv
  OBVIOUS
<1>1. ASSUME NEW status \in {"waiting", "transaction-received"}, NEW e \in {"none", "joined"}
      PROVE  NewSession(status, [m \in Members |-> e]) \in StoredSessions
  BY DEF NewSession, StoredSessions, StoreStatuses, EntryStatuses
<1>2. redis \in StoredSessions /\ work = [r \in Requests |-> NotAtWork]
  BY <1>1 DEF StoreInit
<1> QED
  BY <1>2, StoreAssumption DEF StoreInit, StoreInv, StoreTypeOK

LEMMA StoreInvStep == StoreInv /\ [StoreNext]_storeVars => StoreInv'
<1> SUFFICES ASSUME StoreInv, [StoreNext]_storeVars PROVE StoreInv'
  OBVIOUS
<1> DEFINE Copies == [for : Purposes, copy : StoredSessions, stage : SaveStages]
\* A request begins with a copy, or ends.
<1>1. ASSUME NEW r \in Requests, NEW w \in {NotAtWork} \cup Copies,
             work' = [work EXCEPT ![r] = w]
      PROVE  /\ work' \in [Requests -> {NotAtWork} \cup Copies]
             /\ \A q \in Requests :
                  work'[q] # NotAtWork =>
                    work'[q].copy \in StoredSessions /\ work'[q].stage \in SaveStages
  BY <1>1 DEF StoreInv
<1>2. ASSUME Outage PROVE outages' \in 0..MaxOutages /\ kept' = {}
  BY <1>2, StoreAssumption DEF Outage, StoreInv, StoreTypeOK
<1>3. ASSUME NEW r \in Requests, work[r] # NotAtWork PROVE work[r] \in Copies
  BY <1>3 DEF StoreInv
<1>4. ASSUME NEW r \in Requests, NEW p \in Purposes, LoadFromRedis(r, p) PROVE StoreInv'
  <2>1. AtWork(p, redis, "loaded") \in Copies
    BY <1>4 DEF LoadFromRedis, AtWork, SaveStages, StoreInv, StoreTypeOK
  <2> QED BY <1>1, <1>4, <2>1 DEF LoadFromRedis, StoreInv, StoreTypeOK
<1>5. ASSUME NEW r \in Requests, ChangeLoaded(r) PROVE StoreInv'
  <2> DEFINE p == work[r].for
             c == Change(work[r].for, work[r].copy)
  <2>1. c \in StoredSessions
    BY <1>3, <1>5, ChangeTyped DEF ChangeLoaded
  <2>2. Sent(p, c) \in Copies
    BY <1>3, <1>5, <2>1 DEF ChangeLoaded, Sent, AtWork, SaveStages
  <2>3. PICK w \in {NotAtWork} \cup Copies : work' = [work EXCEPT ![r] = w]
    BY <1>5, <2>2 DEF ChangeLoaded
  <2>4. sessions' \in StoredSessions \cup {NoSession}
    BY <1>5, <2>1 DEF ChangeLoaded, StoreInv, StoreTypeOK
  <2> QED BY <1>1, <1>5, <2>3, <2>4 DEF ChangeLoaded, StoreInv, StoreTypeOK
<1>6. ASSUME NEW r \in Requests, NEW p \in Purposes, LoadFromFallback(r, p) PROVE StoreInv'
  <2>1. sessions' \in StoredSessions
    BY <1>6, ChangeTyped DEF LoadFromFallback, StoreInv, StoreTypeOK
  <2>2. Sent(p, sessions') \in Copies
    BY <2>1 DEF Sent, AtWork, SaveStages
  <2>3. outages' \in 0..MaxOutages /\ kept' \subseteq Members
    BY <1>2, <1>6 DEF LoadFromFallback, NoOutage, StoreInv, StoreTypeOK
  <2>4. /\ work' \in [Requests -> {NotAtWork} \cup Copies]
        /\ \A q \in Requests :
             work'[q] # NotAtWork =>
               work'[q].copy \in StoredSessions /\ work'[q].stage \in SaveStages
    BY <1>1, <1>6, <2>2 DEF LoadFromFallback, StoreInv, StoreTypeOK
  <2> QED BY <1>6, <2>1, <2>3, <2>4 DEF LoadFromFallback, StoreInv, StoreTypeOK
<1>7. ASSUME NEW r \in Requests, SaveToRedis(r) \/ SaveToFallback(r) PROVE StoreInv'
  <2>1. work[r] \in Copies /\ work' = [work EXCEPT ![r] = NotAtWork]
    BY <1>3, <1>7 DEF SaveToRedis, SaveToFallback
  <2>2. /\ work' \in [Requests -> {NotAtWork} \cup Copies]
        /\ \A q \in Requests :
             work'[q] # NotAtWork =>
               work'[q].copy \in StoredSessions /\ work'[q].stage \in SaveStages
    BY <1>1, <2>1
  <2>3. KeptAfter(r) \subseteq Members
    <3>1. work[r].for.op = "sign" => work[r].for.who \in Members
      BY <2>1 DEF Purposes
    <3> QED BY <3>1 DEF KeptAfter, StoreInv, StoreTypeOK
  <2>4. outages' \in 0..MaxOutages /\ kept' \subseteq Members
    BY <1>2, <1>7, <2>3 DEF SaveToRedis, SaveToFallback, NoOutage, StoreInv, StoreTypeOK
  <2> QED BY <1>7, <2>1, <2>2, <2>4 DEF SaveToRedis, SaveToFallback, StoreInv, StoreTypeOK
<1>8. ASSUME LoseRedis \/ RegainRedis PROVE StoreInv'
  BY <1>2, <1>8 DEF LoseRedis, RegainRedis, StoreInv, StoreTypeOK
<1>9. ASSUME StoreTick \/ RedisEvicts PROVE StoreInv'
  BY <1>9 DEF StoreTick, RedisEvicts, StoreInv, StoreTypeOK
<1>10. ASSUME CleanupExpiredSessions PROVE StoreInv'
  <2>1. sessions' \in StoredSessions \cup {NoSession}
    BY <1>10 DEF CleanupExpiredSessions, StoreInv, StoreTypeOK, StoredSessions, StoreStatuses
  <2> QED BY <1>10, <2>1 DEF CleanupExpiredSessions, StoreInv, StoreTypeOK
<1>11. ASSUME UNCHANGED storeVars PROVE StoreInv'
  BY <1>11 DEF storeVars, StoreInv, StoreTypeOK
<1> QED
  BY <1>4, <1>5, <1>6, <1>7, <1>8, <1>9, <1>10, <1>11 DEF StoreNext

\* Every variable of the store keeps its type: whatever a request saves, wherever
\* it loaded it, is a session.
THEOREM StoreTypeCorrect == StoreSpec => []StoreTypeOK
<1>1. StoreInv => StoreTypeOK
  BY DEF StoreInv
<1> QED BY StoreInvInit, StoreInvStep, <1>1, PTL DEF StoreSpec

-----------------------------------------------------------------------------
(* RedisSessionStore: where a session is, and what its signatures survive  *)

Busy(r) == work[r] # NotAtWork

\* Until Redis fails it is connected, and only the end of the five minutes sends
\* a request to the fallback.
Home ==
  /\ connected
  /\ sessions # NoSession => age = "over"
  /\ \A r \in Requests : Busy(r) /\ work[r].stage = "refused" => age = "over"

\* At most one request has the session's lock.
OneLocked ==
  \A q, r \in Requests :
    Busy(q) /\ Busy(r) /\ Locking(work[q].for) /\ Locking(work[r].for) => q = r

\* What r will put into Redis, if anything, does not undo a kept signature.
Preserves(r) ==
  \/ work[r].for.op = "clear"
  \/ work[r].stage = "refused"
  \/ kept \subseteq work[r].copy.signatures

\* The kept signatures are in Redis and in every copy on its way there.
Keeping ==
  /\ redis # NoSession => kept \subseteq redis.signatures
  /\ \A r \in Requests : Busy(r) =>
       /\ Preserves(r)
       /\ work[r].stage = "saving" /\ work[r].for.op = "sign"
            => work[r].for.who \in work[r].copy.signatures

KeepInv == StoreInv /\ OneLocked /\ (outages = 0 => Home /\ Keeping)

LEMMA KeepInvInit == StoreInit => KeepInv
<1> SUFFICES ASSUME StoreInit PROVE KeepInv
  OBVIOUS
<1>1. StoreInv
  BY StoreInvInit
<1>2. \A r \in Requests : ~Busy(r)
  BY DEF StoreInit, Busy
<1> QED BY <1>1, <1>2 DEF StoreInit, KeepInv, Home, OneLocked, Keeping

\* Only clearTransactionState takes a signature out of a session.
LEMMA ChangeKeeps ==
  ASSUME NEW p \in Purposes, NEW s \in StoredSessions
  PROVE  /\ p.op # "clear" => s.signatures \subseteq Change(p, s).signatures
         /\ p.op = "sign" => p.who \in Change(p, s).signatures
<1>1. /\ s.signatures \subseteq Members
      /\ s = [status |-> s.status, entry |-> s.entry, signatures |-> s.signatures]
  BY DEF StoredSessions
<1>2. CASE p.op = "sign"
  BY <1>1, <1>2 DEF Change
<1>3. CASE p.op \in {"get", "inject", "execute", "complete", "cancel"}
  BY <1>1, <1>3 DEF Change
<1>4. CASE p.op \in {"join", "ready", "reject", "leave"}
  BY <1>1, <1>4 DEF Change, Left
<1>5. CASE p.op = "clear"
  BY <1>5
<1> QED BY <1>2, <1>3, <1>4, <1>5 DEF Purposes

\* While one request with the lock is at work no other begins.
LEMMA OneLockedStep == StoreInv /\ OneLocked /\ [StoreNext]_storeVars => OneLocked'
<1> SUFFICES ASSUME StoreInv, OneLocked, [StoreNext]_storeVars PROVE OneLocked'
  OBVIOUS
<1>1. work \in [Requests -> {NotAtWork} \cup
                  [for : Purposes, copy : StoredSessions, stage : SaveStages]]
  BY DEF StoreInv
<1>2. ASSUME NEW r \in Requests, NEW w, work' = [work EXCEPT ![r] = w],
             \/ w = NotAtWork
             \/ w.for = work[r].for /\ Busy(r)
             \/ MayBegin(w.for)
      PROVE  OneLocked'
  BY <1>1, <1>2 DEF OneLocked, Busy, MayBegin
<1>3. ASSUME work' = work PROVE OneLocked'
  BY <1>3 DEF OneLocked, Busy
<1>4. ASSUME NEW r \in Requests, NEW p \in Purposes, LoadFromRedis(r, p) PROVE OneLocked'
  BY <1>2, <1>4 DEF LoadFromRedis, AtWork
<1>5. ASSUME NEW r \in Requests, ChangeLoaded(r) PROVE OneLocked'
  BY <1>2, <1>5 DEF ChangeLoaded, Sent, AtWork, Busy
<1>6. ASSUME NEW r \in Requests, NEW p \in Purposes, LoadFromFallback(r, p) PROVE OneLocked'
  BY <1>2, <1>3, <1>6 DEF LoadFromFallback, Sent, AtWork
<1>7. ASSUME NEW r \in Requests, SaveToRedis(r) \/ SaveToFallback(r) PROVE OneLocked'
  BY <1>2, <1>7 DEF SaveToRedis, SaveToFallback
<1>8. ASSUME \/ LoseRedis \/ RegainRedis \/ StoreTick \/ RedisEvicts
             \/ CleanupExpiredSessions \/ UNCHANGED storeVars
      PROVE  OneLocked'
  BY <1>3, <1>8
     DEF LoseRedis, RegainRedis, StoreTick, RedisEvicts, CleanupExpiredSessions, storeVars
<1> QED BY <1>4, <1>5, <1>6, <1>7, <1>8 DEF StoreNext

\* Every step that leaves Redis unfailed keeps the rest.
LEMMA KeepInvStep == KeepInv /\ [StoreNext]_storeVars => KeepInv'
<1> SUFFICES ASSUME KeepInv, [StoreNext]_storeVars, outages' = 0 PROVE (Home /\ Keeping)'
  BY StoreInvStep, OneLockedStep DEF KeepInv
<1> DEFINE Copies == [for : Purposes, copy : StoredSessions, stage : SaveStages]
<1>1. /\ StoreInv /\ work \in [Requests -> {NotAtWork} \cup Copies]
      /\ outages \in Nat /\ OneLocked
      /\ redis \in StoredSessions \cup {NoSession}
      /\ sessions \in StoredSessions \cup {NoSession}
  BY StoreAssumption DEF KeepInv, StoreInv, StoreTypeOK
<1>2. ~Outage
  BY <1>1 DEF Outage
<1>3. outages = 0
  <2>1. Outage \/ outages' = outages
    BY DEF StoreNext, storeVars, LoadFromRedis, LoadFromFallback, ChangeLoaded, SaveToRedis,
           SaveToFallback, LoseRedis, RegainRedis, StoreTick, RedisEvicts,
           CleanupExpiredSessions, NoOutage
  <2> QED BY <1>2, <2>1
<1>4. Home /\ Keeping
  BY <1>3 DEF KeepInv
<1>5. ASSUME NEW r \in Requests, NEW p \in Purposes, LoadFromRedis(r, p)
      PROVE  (Home /\ Keeping)'
  BY <1>1, <1>4, <1>5 DEF LoadFromRedis, AtWork, Busy, Home, Keeping, Preserves
<1>6. ASSUME NEW r \in Requests, ChangeLoaded(r) PROVE (Home /\ Keeping)'
  <2> DEFINE p == work[r].for
             c == Change(work[r].for, work[r].copy)
  <2>1. /\ Busy(r) /\ work[r].stage = "loaded"
        /\ p \in Purposes /\ work[r].copy \in StoredSessions
    BY <1>1, <1>6 DEF ChangeLoaded, Busy
  <2>2. /\ p.op # "clear" => work[r].copy.signatures \subseteq c.signatures
        /\ p.op = "sign" => p.who \in c.signatures
    BY <2>1, ChangeKeeps
  <2>3. Preserves(r)
    BY <1>4, <2>1 DEF Keeping
  <2>4. connected /\ UNCHANGED <<redis, connected, age, kept>> /\ sessions' = sessions
    BY <1>4, <1>6 DEF ChangeLoaded, Home
  <2>5. work' = [work EXCEPT ![r] = NotAtWork] \/ work' = [work EXCEPT ![r] = Sent(p, c)]
    BY <1>6 DEF ChangeLoaded
  <2> HIDE DEF p, c
  <2>6. Sent(p, c) = [for |-> p, copy |-> c, stage |-> IF Accepted THEN "saving" ELSE "refused"]
    BY DEF Sent, AtWork
  <2>7. \A q \in Requests : q # r => work'[q] = work[q]
    BY <1>1, <2>5
  <2>8. work'[r] = NotAtWork \/ work'[r] = Sent(p, c)
    BY <1>1, <2>5
  <2>9. Home'
    BY <1>4, <2>4, <2>6, <2>7, <2>8 DEF Home, Busy, Accepted
  <2>10. work'[r] = Sent(p, c) =>
           /\ Preserves(r)'
           /\ work'[r].stage = "saving" /\ work'[r].for.op = "sign"
                => work'[r].for.who \in work'[r].copy.signatures
    BY <2>1, <2>2, <2>3, <2>4, <2>6 DEF Preserves, p
  <2>11. \A q \in Requests : q # r => (Busy(q)' <=> Busy(q)) /\ (Preserves(q)' <=> Preserves(q))
    BY <2>4, <2>7 DEF Busy, Preserves
  <2>12. Keeping'
    BY <1>4, <2>4, <2>7, <2>8, <2>10, <2>11 DEF Keeping, Busy
  <2> QED BY <2>9, <2>12
\* A request that finds the session in the fallback comes after the five minutes;
\* Redis will refuse its save.
<1>7. ASSUME NEW r \in Requests, NEW p \in Purposes, LoadFromFallback(r, p)
      PROVE  (Home /\ Keeping)'
  <2>1. /\ age = "over" /\ ~Accepted /\ connected /\ redis = NoSession
        /\ UNCHANGED <<redis, connected, age, kept>>
        /\ work' = [work EXCEPT ![r] = Sent(p, sessions')]
    BY <1>2, <1>4, <1>7 DEF LoadFromFallback, Home, NoOutage, Accepted
  <2>2. Sent(p, sessions') = [for |-> p, copy |-> sessions', stage |-> "refused"]
    BY <2>1 DEF Sent, AtWork
  <2>3. \A q \in Requests : q # r => work'[q] = work[q]
    BY <1>1, <2>1
  <2>4. work'[r].stage = "refused"
    BY <1>1, <2>1, <2>2
  <2> QED BY <1>4, <2>1, <2>3, <2>4 DEF Home, Keeping, Busy, Preserves
\* A signature is added when its save has the session to itself.
<1>8. ASSUME NEW r \in Requests, SaveToRedis(r) PROVE (Home /\ Keeping)'
  <2>1. /\ Busy(r) /\ work[r].stage = "saving" /\ redis' = work[r].copy
        /\ work' = [work EXCEPT ![r] = NotAtWork]
        /\ kept' = KeptAfter(r)
        /\ UNCHANGED <<sessions, connected, age>>
    BY <1>8 DEF SaveToRedis, Busy
  <2>2. \A q \in Requests : Busy(q)' => q # r /\ Busy(q) /\ work'[q] = work[q]
    BY <1>1, <2>1 DEF Busy
  <2>3. Home'
    BY <1>4, <2>1, <2>2 DEF Home
  <2>4. CASE work[r].for.op = "clear"
    <3>1. kept' = {}
      BY <2>1, <2>4 DEF KeptAfter
    <3>2. Keeping'
      BY <1>4, <2>1, <2>2, <3>1 DEF Keeping, Preserves
    <3> QED BY <2>3, <3>2
  <2>5. CASE /\ work[r].for.op = "sign"
             /\ \A q \in Requests : work[q] # NotAtWork => Locking(work[q].for)
    <3>1. \A q \in Requests : ~Busy(q)'
      BY <1>1, <2>1, <2>2, <2>5 DEF OneLocked, Busy
    <3>2. kept' = kept \cup {work[r].for.who}
      BY <1>3, <2>1, <2>5 DEF KeptAfter
    <3>3. kept' \subseteq work[r].copy.signatures
      BY <1>4, <2>1, <2>5, <3>2 DEF Keeping, Preserves
    <3> QED BY <2>1, <2>3, <3>1, <3>3 DEF Keeping
  <2>6. CASE /\ work[r].for.op # "clear"
             /\ ~(/\ work[r].for.op = "sign"
                  /\ \A q \in Requests : work[q] # NotAtWork => Locking(work[q].for))
    <3>1. kept' = kept
      BY <1>3, <2>1, <2>6 DEF KeptAfter
    <3>2. kept' \subseteq work[r].copy.signatures
      BY <1>4, <2>1, <2>6, <3>1 DEF Keeping, Preserves
    <3> QED BY <1>4, <2>1, <2>2, <2>3, <3>1, <3>2 DEF Keeping, Preserves
  <2> QED BY <2>4, <2>5, <2>6
<1>9. ASSUME NEW r \in Requests, SaveToFallback(r) PROVE (Home /\ Keeping)'
  <2>1. /\ Busy(r) /\ work[r].stage = "refused"
        /\ work' = [work EXCEPT ![r] = NotAtWork]
        /\ UNCHANGED <<redis, connected, age, kept>>
    BY <1>2, <1>4, <1>9 DEF SaveToFallback, NoOutage, Home, Busy
  <2>2. \A q \in Requests : Busy(q)' => q # r /\ Busy(q) /\ work'[q] = work[q]
    BY <1>1, <2>1 DEF Busy
  <2> QED BY <1>4, <2>1, <2>2 DEF Home, Keeping, Preserves
<1>10. CASE \/ LoseRedis \/ RegainRedis \/ StoreTick \/ RedisEvicts
            \/ CleanupExpiredSessions \/ UNCHANGED storeVars
  BY <1>1, <1>2, <1>4, <1>10
     DEF LoseRedis, RegainRedis, StoreTick, RedisEvicts, CleanupExpiredSessions, storeVars,
         Home, Keeping, Busy, Preserves
<1> QED
  BY <1>5, <1>6, <1>7, <1>8, <1>9, <1>10 DEF StoreNext

\* Unless Redis fails, nothing goes to the fallback before the five minutes are
\* over, for any number of requests.
THEOREM FallbackIsLastResortAlways == StoreSpec => []FallbackIsLastResort
<1>1. KeepInv => FallbackIsLastResort
  BY DEF KeepInv, Home, FallbackIsLastResort
<1> QED BY KeepInvInit, KeepInvStep, <1>1, PTL DEF StoreSpec

\* Unless Redis fails, a signature that was saved with no request without the lock
\* under way stays in Redis until it is cleared, whatever the later saves overwrite.
THEOREM SignaturesKeptAlways == StoreSpec => []SignaturesKept
<1>1. KeepInv => SignaturesKept
  BY DEF KeepInv, Keeping, SignaturesKept
<1> QED BY KeepInvInit, KeepInvStep, <1>1, PTL DEF StoreSpec

-----------------------------------------------------------------------------
(* SessionTable: the limit                                                 *)

TableInv == TableTypeOK /\ IsFiniteSet(Present)

LEMMA TableInvInit == TableInit => TableInv
<1> SUFFICES ASSUME TableInit PROVE TableInv
  OBVIOUS
<1>1. Present = {}
  BY DEF TableInit, Present
<1>2. IsFiniteSet(Present) /\ Cardinality(Present) <= MaxSessions
  BY <1>1, FS_EmptySet, TableAssumption
<1> QED BY <1>2 DEF TableInit, TableInv, TableTypeOK, Deadlines, Sockets

LEMMA TableInvStep == TableInv /\ [TableNext]_tableVars => TableInv'
<1> SUFFICES ASSUME TableInv, [TableNext]_tableVars PROVE TableInv'
  OBVIOUS
<1> USE DEF TableInv, TableTypeOK
<1>1. Cardinality(Present) \in Nat /\ MaxSessions \in Nat
  BY FS_CardinalityType, TableAssumption
\* No session is added.
<1>2. ASSUME Present' \subseteq Present, table' \in [Sessions -> TableEntries \cup {NoEntry}],
             deadline' \in [Sessions -> Deadlines], socket' \in [Sessions -> Sockets]
      PROVE  TableInv'
  <2>1. /\ IsFiniteSet(Present') /\ Cardinality(Present') <= Cardinality(Present)
        /\ Cardinality(Present') \in Nat
    BY <1>2, FS_Subset, FS_CardinalityType
  <2> QED BY <1>1, <1>2, <2>1
<1>3. ASSUME NEW i \in Sessions, NEW e \in TableEntries, table' = [table EXCEPT ![i] = e]
      PROVE  /\ table' \in [Sessions -> TableEntries \cup {NoEntry}]
             /\ Present' \subseteq Present \cup {i}
  BY <1>3 DEF Present
<1>4. ASSUME NEW i \in Sessions, NEW s \in {"waiting", "transaction-received"}, NEW b \in BOOLEAN,
             CreateSession(i, s, b)
      PROVE  TableInv'
  <2>1. [status |-> s, bounded |-> b] \in TableEntries
    BY DEF TableEntries, TableStatuses
  <2>2. table' \in [Sessions -> TableEntries \cup {NoEntry}] /\ Present' \subseteq Present \cup {i}
    BY <1>3, <1>4, <2>1 DEF CreateSession
  <2>3. /\ IsFiniteSet(Present \cup {i})
        /\ Cardinality(Present \cup {i}) <= Cardinality(Present) + 1
        /\ Cardinality(Present \cup {i}) \in Nat
    <3>1. /\ IsFiniteSet(Present \cup {i})
          /\ Cardinality(Present \cup {i}) = IF i \in Present THEN Cardinality(Present)
                                             ELSE Cardinality(Present) + 1
      BY FS_AddElement
    <3> QED BY <1>1, <3>1, FS_CardinalityType
  <2>4. /\ IsFiniteSet(Present') /\ Cardinality(Present') <= Cardinality(Present \cup {i})
        /\ Cardinality(Present') \in Nat
    BY <2>2, <2>3, FS_Subset, FS_CardinalityType
  <2>5. Cardinality(Present') <= MaxSessions
    BY <1>1, <1>4, <2>3, <2>4 DEF CreateSession, HasRoom
  <2> QED BY <1>4, <2>2, <2>4, <2>5 DEF CreateSession
<1>5. ASSUME NEW i \in Sessions, GetSession(i) \/ Complete(i) PROVE TableInv'
  <2>1. i \in Present /\ table[i] \in TableEntries /\ UNCHANGED <<deadline, socket>>
    BY <1>5 DEF GetSession, Complete, Present
  <2>2. PICK s \in {"expired", "completed"} : table' = [table EXCEPT ![i].status = s]
    BY <1>5 DEF GetSession, Complete
  <2>3. [table[i] EXCEPT !.status = s] \in TableEntries
    BY <2>1 DEF TableEntries, TableStatuses
  <2>4. table' = [table EXCEPT ![i] = [table[i] EXCEPT !.status = s]]
    BY <2>2
  <2>5. table' \in [Sessions -> TableEntries \cup {NoEntry}] /\ Present' \subseteq Present \cup {i}
    BY <1>3, <2>3, <2>4
  <2> QED BY <1>2, <2>1, <2>5
<1>6. ASSUME NEW i \in Sessions, Join(i) \/ Return(i) \/ TableTick(i) PROVE TableInv'
  <2>1. table' = table
    BY <1>6 DEF Join, Return, TableTick
  <2>2. deadline' \in [Sessions -> Deadlines] /\ socket' \in [Sessions -> Sockets]
    BY <1>6 DEF Join, Return, TableTick, Deadlines, Sockets
  <2>3. Present' = Present
    BY <2>1 DEF Present
  <2> QED BY <1>2, <2>1, <2>2, <2>3
<1>7. ASSUME CleanupSessions PROVE TableInv'
  <2>1. ASSUME NEW i \in Reaped
        PROVE  i \in Present /\ [table[i] EXCEPT !.status = "expired"] \in TableEntries
    BY <2>1 DEF Reaped, Present, TableEntries, TableStatuses
  <2>2. table' = [i \in Sessions |-> IF i \notin Reaped THEN table[i]
                                     ELSE IF Deletes(i) THEN NoEntry
                                     ELSE [table[i] EXCEPT !.status = "expired"]]
    BY <1>7 DEF CleanupSessions
  <2>3. table' \in [Sessions -> TableEntries \cup {NoEntry}]
    BY <2>1, <2>2
  <2>4. Present' \subseteq Present
    BY <2>1, <2>2 DEF Present
  <2>5. deadline' \in [Sessions -> Deadlines] /\ socket' \in [Sessions -> Sockets]
    BY <1>7 DEF CleanupSessions, Sockets
  <2> QED BY <1>2, <2>3, <2>4, <2>5
<1>8. ASSUME UNCHANGED tableVars PROVE TableInv'
  BY <1>8 DEF tableVars, Present
<1> QED
  BY <1>4, <1>5, <1>6, <1>7, <1>8 DEF TableNext

\* The table never has more sessions than maxSessions, for any number of ids.
THEOREM TableTypeCorrect == TableSpec => []TableTypeOK
<1>1. TableInv => TableTypeOK
  BY DEF TableInv
<1> QED BY TableInvInit, TableInvStep, <1>1, PTL DEF TableSpec

-----------------------------------------------------------------------------
(* ServerProcess: the heartbeat                                            *)

\* A prompt peer that was not heard of since the last ping still owes the pong,
\* and the heartbeat waits for that.
PromptOwe ==
  /\ isAlive \in [Peers -> BOOLEAN]
  /\ conn \in [Peers -> {"none", "open", "closed", "terminated"}]
  /\ \A p \in Peers : p \in Open /\ manner[p].prompt /\ ~isAlive[p] => p \in owes

ProcessInv == PromptOwe /\ PromptPeersKept

LEMMA ProcessInvInit == ProcessInit => ProcessInv
  BY DEF ProcessInit, ProcessInv, PromptOwe, PromptPeersKept, Open

LEMMA ProcessInvStep == ProcessInv /\ [ProcessNext]_processVars => ProcessInv'
<1> SUFFICES ASSUME ProcessInv, [ProcessNext]_processVars PROVE ProcessInv'
  OBVIOUS
<1> USE DEF ProcessInv, PromptOwe, PromptPeersKept, Open
<1>1. ASSUME UNCHANGED <<conn, isAlive, owes, manner>> PROVE ProcessInv'
  BY <1>1
<1>2. ASSUME \/ StartRefused \/ Listen \/ TunnelOpens \/ LocaltunnelOpens \/ TunnelFails
             \/ StartFails \/ Stop \/ StopListening \/ Stopped \/ UNCHANGED processVars
      PROVE  UNCHANGED <<conn, isAlive, owes, manner>>
  BY <1>2 DEF StartRefused, Listen, TunnelOpens, LocaltunnelOpens, TunnelFails,
              StartFails, Stop, StopListening, Stopped, processVars
\* Whoever connects is alive.
<1>3. ASSUME NEW p \in Peers, Connect(p) PROVE ProcessInv'
  BY <1>3 DEF Connect
<1>4. ASSUME NEW p \in Peers, PeerCloses(p) \/ SocketEnds(p) PROVE ProcessInv'
  BY <1>4 DEF PeerCloses, SocketEnds
<1>5. ASSUME NEW p \in Peers, Pong(p) PROVE ProcessInv'
  BY <1>5 DEF Pong, Answered
\* The dead are not prompt, for no prompt peer owes a pong now; all who are
\* pinged owe one.
<1>6. ASSUME SendHeartbeats PROVE ProcessInv'
  BY <1>6 DEF SendHeartbeats, Dead
<1> QED
  BY <1>1, <1>2, <1>3, <1>4, <1>5, <1>6 DEF ProcessNext

\* The heartbeat cuts off nobody who answers within its interval.
THEOREM PromptPeersKeptAlways == ProcessSpec => []PromptPeersKept
<1>1. ProcessInv => PromptPeersKept
  BY DEF ProcessInv
<1> QED BY ProcessInvInit, ProcessInvStep, <1>1, PTL DEF ProcessSpec

\* What the process is at; a tunnel is only waited for when one was asked for.
ProcessTypes ==
  /\ ProcessTypeOK
  /\ tunnelOption \in {"none", "auto", "ngrok", "localtunnel"}
  /\ phase = "listening" => tunnelOption # "none"

LEMMA ProcessTypesInit == ProcessInit => ProcessTypes
  BY DEF ProcessInit, ProcessTypes, ProcessTypeOK, Phases

LEMMA ProcessTypesStep == ProcessTypes /\ [ProcessNext]_processVars => ProcessTypes'
<1> SUFFICES ASSUME ProcessTypes, [ProcessNext]_processVars PROVE ProcessTypes'
  OBVIOUS
<1> USE DEF ProcessTypes, ProcessTypeOK, Phases
<1>1. CASE StartRefused \/ Listen
  BY <1>1 DEF StartRefused, Listen
<1>2. CASE TunnelOpens \/ LocaltunnelOpens \/ TunnelFails \/ StartFails
  BY <1>2 DEF TunnelOpens, LocaltunnelOpens, TunnelFails, StartFails
<1>3. CASE Stop \/ StopListening \/ Stopped
  BY <1>3 DEF Stop, StopListening, TunnelStopped, TimersStopped, Stopped
<1>4. ASSUME NEW p \in Peers, Connect(p) \/ PeerCloses(p) \/ Pong(p) \/ SocketEnds(p)
      PROVE  ProcessTypes'
  BY <1>4 DEF Connect, PeerCloses, Pong, Answered, SocketEnds
<1>5. CASE SendHeartbeats
  BY <1>5 DEF SendHeartbeats, Open
<1>6. CASE UNCHANGED processVars
  BY <1>6 DEF processVars
<1> QED BY <1>1, <1>2, <1>3, <1>4, <1>5, <1>6 DEF ProcessNext

\* Every variable of the process keeps its type.
THEOREM ProcessTypeCorrect == ProcessSpec => []ProcessTypeOK
<1>1. ProcessTypes => ProcessTypeOK
  BY DEF ProcessTypes
<1> QED BY ProcessTypesInit, ProcessTypesStep, <1>1, PTL DEF ProcessSpec

-----------------------------------------------------------------------------
(* AuthRateLimit: types, and how often an address fails                    *)

UnderWay(a) == auth[a] # NoAuth

\* On the in-memory store one AUTH is under way at a time.
OneAuth ==
  ~suspends => \A a, b \in Auths : UnderWay(a) /\ UnderWay(b) => a = b

LimitTypes ==
  /\ attempts \in [Ips -> Records \cup {NoRecord}]
  /\ record \in [Records -> AttemptRecords]
  /\ auth \in [Auths -> [ip : Ips \cup {"none"}, rec : Records \cup {NoRecord}]]
  /\ \A a \in Auths : UnderWay(a) => auth[a].ip \in Ips /\ auth[a].rec \in Records
  /\ missed \in [Ips -> SUBSET Misses]
  /\ \A i \in Ips : IsFiniteSet(missed[i])

LimitInv == LimitTypes /\ OneAuth

LEMMA LimitNumbers ==
  /\ MaxAttempts \in Nat /\ Window \in Nat /\ Block \in Nat /\ Block > 0
  /\ NoRecord \notin Records /\ FreshRecord \in AttemptRecords /\ FreshRecord.block = 0
  BY LimitAssumption DEF FreshRecord, AttemptRecord, AttemptRecords

\* A stored record is what was made of it, or fresh.
LEMMA StoreGives ==
  ASSUME NEW contents \in [Records -> AttemptRecords], Store(contents)
  PROVE  /\ record' \in [Records -> AttemptRecords]
         /\ \A r \in Records : record'[r] = contents[r] \/ record'[r].block = 0
         /\ \A i \in Ips : attempts'[i] \in Records
              => record'[attempts'[i]] = contents[attempts'[i]]
  BY LimitNumbers DEF Store, Held

LEMMA LimitInvInit == LimitInit => LimitInv
  BY LimitNumbers, FS_EmptySet DEF LimitInit, LimitInv, LimitTypes, OneAuth, UnderWay, NoAuth

\* What each step makes of the records is well typed.
LEMMA CheckedTyped ==
  ASSUME LimitInv, NEW r \in Records
  PROVE  CheckedContents(r) \in [Records -> AttemptRecords]
  BY LimitNumbers DEF LimitInv, LimitTypes, CheckedContents

LEMMA FailedTyped ==
  ASSUME NEW rec \in AttemptRecords
  PROVE  /\ Failed(rec) \in AttemptRecords
         /\ Failed(rec).count = rec.count + 1 /\ Failed(rec).left = rec.left
         /\ Failed(rec).block = IF rec.count + 1 >= MaxAttempts THEN Block ELSE rec.block
<1> DEFINE b == IF rec.count + 1 >= MaxAttempts THEN Block ELSE rec.block
<1>1. Failed(rec) = [rec EXCEPT !.count = rec.count + 1, !.block = b]
  BY DEF Failed
<1>2. b \in 0..Block /\ rec.count + 1 \in Nat
  BY LimitNumbers DEF AttemptRecords
<1> HIDE DEF b
<1>3. /\ Failed(rec) \in AttemptRecords /\ Failed(rec).count = rec.count + 1
      /\ Failed(rec).left = rec.left /\ Failed(rec).block = b
  BY <1>1, <1>2 DEF AttemptRecords
<1> QED BY <1>3 DEF b

\* A tick for one record.
TickedOn(rec) ==
  [rec EXCEPT !.left = IF @ > -1 THEN @ - 1 ELSE @, !.block = Less(@)]

LEMMA TickedOnTyped ==
  ASSUME NEW rec \in AttemptRecords
  PROVE  /\ TickedOn(rec) \in AttemptRecords /\ TickedOn(rec).count = rec.count
         /\ TickedOn(rec).left = IF rec.left > -1 THEN rec.left - 1 ELSE rec.left
         /\ TickedOn(rec).block = Less(rec.block)
<1> DEFINE w == IF rec.left > -1 THEN rec.left - 1 ELSE rec.left
<1>1. w \in -1..Window /\ Less(rec.block) \in 0..Block
  BY LimitNumbers DEF AttemptRecords, Less
<1>2. TickedOn(rec) = [rec EXCEPT !.left = w, !.block = Less(rec.block)]
  BY DEF TickedOn
<1> HIDE DEF w
<1>3. /\ TickedOn(rec) \in AttemptRecords /\ TickedOn(rec).count = rec.count
      /\ TickedOn(rec).left = w /\ TickedOn(rec).block = Less(rec.block)
  BY <1>1, <1>2 DEF AttemptRecords
<1> QED BY <1>3 DEF w

\* One failure more.
LEMMA MissedGrows ==
  ASSUME LimitInv, NEW i \in Ips
  PROVE  /\ IsFiniteSet(Missed(i)) /\ Missed(i) \subseteq Misses
         /\ \E m \in Misses : m.age = 0 /\ Missed(i) = missed[i] \cup {m}
<1>1. missed[i] \subseteq Misses /\ IsFiniteSet(missed[i])
  BY DEF LimitInv, LimitTypes
<1> DEFINE new == {m \in missed[i] : m.age = 0}
           m   == [no |-> Cardinality(new), age |-> 0]
<1>2. Cardinality(new) \in Nat
  BY <1>1, FS_Subset, FS_CardinalityType
<1>3. m \in Misses /\ m.age = 0 /\ Missed(i) = missed[i] \cup {m}
  BY <1>2, LimitNumbers DEF Missed, Misses
<1>4. IsFiniteSet(missed[i] \cup {m})
  BY <1>1, FS_AddElement
<1> HIDE DEF m
<1> QED BY <1>1, <1>3, <1>4

\* A tick forgets some failures, and makes the others older.
LEMMA LaterShrinks ==
  ASSUME NEW ms \in SUBSET Misses, IsFiniteSet(ms)
  PROVE  /\ Later(ms) \in SUBSET Misses /\ IsFiniteSet(Later(ms))
         /\ Cardinality(Later(ms)) <= Cardinality(ms)
<1> DEFINE young == {x \in ms : x.age < Window}
           up(m) == [m EXCEPT !.age = m.age + 1]
<1>1. IsFiniteSet(young) /\ Cardinality(young) <= Cardinality(ms)
  BY FS_Subset
<1>2. Later(ms) = {up(m) : m \in young}
  BY DEF Later
<1>3. ASSUME NEW m \in young PROVE up(m) \in Misses
  BY LimitNumbers DEF Misses
<1> DEFINE f == [m \in young |-> up(m)]
<1>4. IsFiniteSet(Later(ms)) /\ Cardinality(Later(ms)) <= Cardinality(young)
  <2>1. f \in Surjection(young, Later(ms))
    BY <1>2 DEF Surjection
  <2> QED BY <1>1, <2>1, FS_Surjection
<1>5. /\ Cardinality(young) \in Nat /\ Cardinality(ms) \in Nat
      /\ Cardinality(Later(ms)) \in Nat
  BY <1>1, <1>2, <1>4, FS_CardinalityType
<1> HIDE DEF up, young, f
<1> QED BY <1>1, <1>2, <1>3, <1>4, <1>5

LEMMA LimitInvStep == LimitInv /\ [LimitNext]_limitVars => LimitInv'
<1> SUFFICES ASSUME LimitInv, [LimitNext]_limitVars PROVE LimitInv'
  OBVIOUS
<1> USE LimitNumbers
<1>1. ASSUME NEW a \in Auths, NEW i \in Ips, NEW t \in BOOLEAN, ReceiveAuth(a, i, t)
      PROVE  LimitInv'
  <2>1. PICK r \in Records :
          /\ auth' = IF Refused(i, t) THEN auth
                     ELSE [auth EXCEPT ![a] = [ip |-> i, rec |-> r]]
          /\ Store(CheckedContents(r))
    BY <1>1 DEF ReceiveAuth
  <2>2. /\ UNCHANGED <<suspends, attempts, missed>> /\ ~UnderWay(a)
        /\ \A b \in Auths : ~UnderWay(b) \/ suspends
    BY <1>1 DEF ReceiveAuth, UnderWay
  <2>3. record' \in [Records -> AttemptRecords]
    BY <2>1, CheckedTyped, StoreGives
  <2>4. CASE auth' = auth
    BY <2>2, <2>3, <2>4 DEF LimitInv, LimitTypes, OneAuth, UnderWay
  <2>5. CASE auth' = [auth EXCEPT ![a] = [ip |-> i, rec |-> r]]
    <3>1. LimitTypes'
      BY <2>2, <2>3, <2>5 DEF LimitInv, LimitTypes, UnderWay
    <3>2. OneAuth'
      BY <2>2, <2>5 DEF LimitInv, LimitTypes, OneAuth, UnderWay
    <3> QED BY <3>1, <3>2 DEF LimitInv
  <2> QED BY <2>1, <2>4, <2>5
\* One AUTH less is under way, and there was one at most.
<1>2. ASSUME NEW a \in Auths, UnderWay(a), auth' = [auth EXCEPT ![a] = NoAuth],
             attempts' \in [Ips -> Records \cup {NoRecord}],
             record' \in [Records -> AttemptRecords], UNCHANGED suspends,
             missed' \in [Ips -> SUBSET Misses], \A i \in Ips : IsFiniteSet(missed'[i])
      PROVE  LimitInv'
  <2>1. NoAuth \in [ip : Ips \cup {"none"}, rec : Records \cup {NoRecord}]
    BY DEF NoAuth
  <2>2. \A b \in Auths : UnderWay(b)' => b # a /\ UnderWay(b) /\ auth'[b] = auth[b]
    BY <1>2 DEF LimitInv, LimitTypes, UnderWay
  <2>3. LimitTypes'
    BY <1>2, <2>1, <2>2 DEF LimitInv, LimitTypes, UnderWay
  <2>4. ~suspends => \A b \in Auths : b # a => ~UnderWay(b)
    BY <1>2 DEF LimitInv, OneAuth
  <2>5. ~suspends => \A b \in Auths : ~UnderWay(b)'
    BY <2>2, <2>4 DEF UnderWay
  <2>6. OneAuth'
    BY <1>2, <2>5 DEF OneAuth, UnderWay
  <2> QED BY <2>3, <2>6 DEF LimitInv
<1>3. ASSUME NEW a \in Auths, RecordFailedAuth(a) PROVE LimitInv'
  <2>1. auth[a].rec \in Records /\ auth[a].ip \in Ips
    BY <1>3 DEF RecordFailedAuth, LimitInv, LimitTypes, UnderWay
  <2>2. [record EXCEPT ![auth[a].rec] = Failed(@)] \in [Records -> AttemptRecords]
    BY <2>1, FailedTyped DEF LimitInv, LimitTypes
  <2>3. record' \in [Records -> AttemptRecords]
    BY <1>3, <2>2, StoreGives DEF RecordFailedAuth
  <2>4. missed' \in [Ips -> SUBSET Misses] /\ \A i \in Ips : IsFiniteSet(missed'[i])
    BY <1>3, <2>1, MissedGrows DEF RecordFailedAuth, LimitInv, LimitTypes
  <2> QED BY <1>2, <1>3, <2>1, <2>3, <2>4 DEF RecordFailedAuth, UnderWay, LimitInv, LimitTypes
<1>4. ASSUME NEW a \in Auths, RecordSuccessfulAuth(a) PROVE LimitInv'
  <2>1. record' \in [Records -> AttemptRecords]
    BY <1>4, StoreGives DEF RecordSuccessfulAuth, LimitInv, LimitTypes
  <2>2. missed' \in [Ips -> SUBSET Misses] /\ \A i \in Ips : IsFiniteSet(missed'[i])
    BY <1>4, FS_EmptySet DEF RecordSuccessfulAuth, LimitInv, LimitTypes
  <2> QED BY <1>2, <1>4, <2>1, <2>2 DEF RecordSuccessfulAuth, UnderWay, LimitInv, LimitTypes
<1>5. ASSUME RateLimitCleanup PROVE LimitInv'
  <2>1. /\ attempts' = [i \in Ips |->
                         IF attempts[i] # NoRecord /\ record[attempts[i]].left < 0
                         THEN NoRecord ELSE attempts[i]]
        /\ UNCHANGED <<suspends, auth, missed>> /\ Store(record)
    BY <1>5 DEF RateLimitCleanup
  <2>2. record' \in [Records -> AttemptRecords]
    BY <2>1, StoreGives DEF LimitInv, LimitTypes
  <2> QED BY <2>1, <2>2 DEF LimitInv, LimitTypes, OneAuth, UnderWay
<1>6. ASSUME LimitTick PROVE LimitInv'
  <2>1. /\ UNCHANGED <<suspends, attempts, auth>>
        /\ Store([r \in Records |-> TickedOn(record[r])])
        /\ missed' = [i \in Ips |-> Later(missed[i])]
    BY <1>6 DEF LimitTick, TickedOn
  <2>2. [r \in Records |-> TickedOn(record[r])] \in [Records -> AttemptRecords]
    BY TickedOnTyped DEF LimitInv, LimitTypes
  <2>3. record' \in [Records -> AttemptRecords]
    BY <2>1, <2>2, StoreGives
  <2>4. missed' \in [Ips -> SUBSET Misses] /\ \A i \in Ips : IsFiniteSet(missed'[i])
    BY <2>1, LaterShrinks DEF LimitInv, LimitTypes
  <2> QED BY <2>1, <2>3, <2>4 DEF LimitInv, LimitTypes, OneAuth, UnderWay
<1>7. ASSUME UNCHANGED limitVars PROVE LimitInv'
  BY <1>7 DEF limitVars, LimitInv, LimitTypes, OneAuth, UnderWay
<1> QED
  BY <1>1, <1>3, <1>4, <1>5, <1>6, <1>7 DEF LimitNext

\* What is known of an address's failures and its record: some are from before the
\* record's window and older than it, at most maxAttempts, and the others counted.
InWindow(ms, rec) ==
  \E old \in SUBSET ms :
    /\ \A m \in old : m.age >= Window - rec.left
    /\ Cardinality(old) <= MaxAttempts
    /\ Cardinality(ms \ old) <= rec.count

\* A full record is blocked beyond its window.
Honest(rec) ==
  /\ rec.count <= MaxAttempts
  /\ rec.count = MaxAttempts => rec.block > rec.left

Accounted(ms, rec) == Honest(rec) /\ InWindow(ms, rec)

Few(ms) == Cardinality(ms) <= MaxAttempts

\* An AUTH under way holds a record of its address alone, which is not blocked.
Holds(a) ==
  /\ record[auth[a].rec].block = 0 /\ record[auth[a].rec].left >= 0
  /\ Accounted(missed[auth[a].ip], record[auth[a].rec])
  /\ attempts[auth[a].ip] \in {auth[a].rec, NoRecord}
  /\ \A j \in Ips : attempts[j] = auth[a].rec => j = auth[a].ip

PerAddress(i) ==
  IF attempts[i] = NoRecord THEN Few(missed[i])
  ELSE Accounted(missed[i], record[attempts[i]])

Apart == \A i, j \in Ips : attempts[i] # NoRecord /\ attempts[i] = attempts[j] => i = j

BoundInv ==
  /\ LimitInv
  /\ \A r \in Records : r \notin Held => record[r] = FreshRecord
  /\ suspends => \A i \in Ips : missed[i] = {}
  /\ ~suspends /\ Block > Window =>
       /\ \A i \in Ips : PerAddress(i)
       /\ Apart
       /\ \A a \in Auths : UnderWay(a) => Holds(a)

\* One more failure, counted.
LEMMA CountFailure ==
  ASSUME NEW ms \in SUBSET Misses, IsFiniteSet(ms), NEW m \in Misses,
         NEW rec \in AttemptRecords, InWindow(ms, rec)
  PROVE  InWindow(ms \cup {m}, Failed(rec))
<1>1. PICK old \in SUBSET ms : /\ \A x \in old : x.age >= Window - rec.left
                               /\ Cardinality(old) <= MaxAttempts
                               /\ Cardinality(ms \ old) <= rec.count
  BY DEF InWindow
<1>2. Failed(rec).count = rec.count + 1 /\ Failed(rec).left = rec.left /\ rec.count \in Nat
  BY FailedTyped DEF AttemptRecords
<1> DEFINE young == ms \ old
           now   == (ms \cup {m}) \ old
<1>3. IsFiniteSet(young) /\ Cardinality(young) \in Nat
  BY FS_Subset, FS_CardinalityType
<1>4. /\ IsFiniteSet(young \cup {m}) /\ Cardinality(young \cup {m}) \in Nat
      /\ Cardinality(young \cup {m}) <= Cardinality(young) + 1
  <2> HIDE DEF young
  <2>1. /\ IsFiniteSet(young \cup {m})
        /\ Cardinality(young \cup {m}) = IF m \in young THEN Cardinality(young)
                                          ELSE Cardinality(young) + 1
    BY <1>3, FS_AddElement
  <2>2. Cardinality(young \cup {m}) \in Nat
    BY <2>1, FS_CardinalityType
  <2> QED BY <1>3, <2>1, <2>2
<1>5. now \in SUBSET (young \cup {m})
  OBVIOUS
<1>6. IsFiniteSet(now) /\ Cardinality(now) <= Cardinality(young \cup {m})
  BY <1>4, <1>5, FS_Subset
<1>7. Cardinality(now) \in Nat
  BY <1>6, FS_CardinalityType
<1>8. Cardinality(now) <= Failed(rec).count
  BY <1>1, <1>2, <1>3, <1>4, <1>6, <1>7
<1>9. old \in SUBSET (ms \cup {m}) /\ \A x \in old : x.age >= Window - Failed(rec).left
  BY <1>1, <1>2
<1> QED BY <1>1, <1>8, <1>9 DEF InWindow

\* A tick: what is older than the window stays so.
LEMMA CountTick ==
  ASSUME NEW ms \in SUBSET Misses, IsFiniteSet(ms), NEW rec \in AttemptRecords,
         InWindow(ms, rec)
  PROVE  InWindow(Later(ms), TickedOn(rec))
<1>1. PICK old \in SUBSET ms : /\ \A x \in old : x.age >= Window - rec.left
                               /\ Cardinality(old) <= MaxAttempts
                               /\ Cardinality(ms \ old) <= rec.count
  BY DEF InWindow
<1>2. /\ TickedOn(rec).count = rec.count
      /\ TickedOn(rec).left = IF rec.left > -1 THEN rec.left - 1 ELSE rec.left
      /\ rec.left \in -1..Window /\ rec.count \in Nat
  BY TickedOnTyped DEF AttemptRecords
<1>3. IsFiniteSet(old) /\ IsFiniteSet(ms \ old)
  BY FS_Subset
<1>4. /\ Cardinality(Later(old)) <= Cardinality(old)
      /\ IsFiniteSet(Later(ms \ old))
      /\ Cardinality(Later(ms \ old)) <= Cardinality(ms \ old)
      /\ IsFiniteSet(Later(old))
  BY <1>3, LaterShrinks
<1>5. /\ Later(old) \in SUBSET Later(ms)
      /\ (Later(ms) \ Later(old)) \in SUBSET Later(ms \ old)
  BY DEF Later
<1>6. /\ IsFiniteSet(Later(ms) \ Later(old))
      /\ Cardinality(Later(ms) \ Later(old)) <= Cardinality(Later(ms \ old))
  BY <1>4, <1>5, FS_Subset
<1>7. /\ Cardinality(old) \in Nat /\ Cardinality(ms \ old) \in Nat
      /\ Cardinality(Later(old)) \in Nat /\ Cardinality(Later(ms \ old)) \in Nat
      /\ Cardinality(Later(ms) \ Later(old)) \in Nat
  BY <1>3, <1>4, <1>6, FS_CardinalityType
<1>8. ASSUME NEW x \in Later(old) PROVE x.age >= Window - TickedOn(rec).left
  <2>1. PICK y \in old : y.age < Window /\ x = [y EXCEPT !.age = y.age + 1]
    BY DEF Later
  <2>2. y.age \in 0..Window /\ y.age >= Window - rec.left /\ x.age = y.age + 1
    BY <1>1, <2>1 DEF Misses
  <2> QED BY <1>2, <2>1, <2>2, LimitNumbers
<1>9. Cardinality(Later(old)) <= MaxAttempts
  BY <1>1, <1>4, <1>7, LimitNumbers
<1>10. Cardinality(Later(ms) \ Later(old)) <= TickedOn(rec).count
  BY <1>1, <1>2, <1>4, <1>6, <1>7
<1> QED BY <1>5, <1>8, <1>9, <1>10 DEF InWindow

\* The failures of a record that is not over its count are at most twice
\* maxAttempts, and once its window is over at most maxAttempts.
LEMMA CountWhole ==
  ASSUME NEW ms \in SUBSET Misses, IsFiniteSet(ms), NEW rec \in AttemptRecords,
         Accounted(ms, rec)
  PROVE  /\ Cardinality(ms) <= 2 * MaxAttempts
         /\ rec.left < 0 => Few(ms)
<1>1. PICK old \in SUBSET ms : /\ \A x \in old : x.age >= Window - rec.left
                               /\ Cardinality(old) <= MaxAttempts
                               /\ Cardinality(ms \ old) <= rec.count
  BY DEF Accounted, InWindow
<1>2. IsFiniteSet(old) /\ IsFiniteSet(ms \ old)
  BY FS_Subset
<1>3. Cardinality(ms) = Cardinality(old) + Cardinality(ms \ old)
  <2>1. ms = old \cup (ms \ old) /\ old \cap (ms \ old) = {}
    OBVIOUS
  <2>2. Cardinality(old \cup (ms \ old)) = Cardinality(old) + Cardinality(ms \ old)
                                            - Cardinality(old \cap (ms \ old))
    BY <1>2, FS_Union
  <2>3. /\ Cardinality(old \cap (ms \ old)) = 0
        /\ Cardinality(old) \in Nat /\ Cardinality(ms \ old) \in Nat
    BY <1>2, <2>1, FS_EmptySet, FS_CardinalityType
  <2>4. Cardinality(old \cup (ms \ old)) = Cardinality(old) + Cardinality(ms \ old)
    BY <2>2, <2>3
  <2>5. Cardinality(ms) = Cardinality(old \cup (ms \ old))
    BY <2>1
  <2> QED BY <2>4, <2>5
<1>4. /\ Cardinality(old) \in Nat /\ Cardinality(ms \ old) \in Nat
      /\ rec.count \in Nat /\ rec.count <= MaxAttempts
  BY <1>2, FS_CardinalityType DEF Accounted, Honest, AttemptRecords
<1>5. Cardinality(ms) <= 2 * MaxAttempts
  BY <1>1, <1>3, <1>4, LimitNumbers
<1>6. ASSUME rec.left < 0 PROVE Few(ms)
  <2>1. \A x \in old : FALSE
    BY <1>1, <1>6, LimitNumbers DEF Misses, AttemptRecords
  <2>2. ms \ old = ms
    BY <2>1
  <2>3. Cardinality(ms) = Cardinality(ms \ old)
    BY <2>2
  <2>4. Cardinality(ms \ old) <= MaxAttempts
    BY <1>1, <1>4, LimitNumbers
  <2> QED BY <2>3, <2>4 DEF Few
<1> QED BY <1>5, <1>6

\* A fresh record does for an address of few failures.
LEMMA CountFresh ==
  ASSUME NEW ms \in SUBSET Misses, Few(ms)
  PROVE  Accounted(ms, FreshRecord)
<1>1. /\ FreshRecord.count = 0 /\ FreshRecord.left = Window
      /\ \A m \in ms : m.age >= 0
  BY LimitNumbers DEF FreshRecord, AttemptRecord, Misses
<1>2. Cardinality(ms \ ms) <= FreshRecord.count
  BY <1>1, FS_EmptySet
<1>3. \A m \in ms : m.age >= Window - FreshRecord.left
  BY <1>1, LimitNumbers
<1>4. InWindow(ms, FreshRecord)
  <2>1. ms \in SUBSET ms /\ Cardinality(ms) <= MaxAttempts
    BY DEF Few
  <2> QED BY <1>2, <1>3, <2>1, Zenon DEF InWindow
<1>5. Honest(FreshRecord)
  BY <1>1, LimitNumbers, LimitAssumption DEF Honest
<1> QED BY <1>4, <1>5 DEF Accounted

LEMMA BoundInvInit == LimitInit => BoundInv
<1> SUFFICES ASSUME LimitInit PROVE BoundInv
  OBVIOUS
<1>1. Few({})
  BY FS_EmptySet, LimitNumbers DEF Few
<1> QED
  BY <1>1, LimitInvInit
     DEF LimitInit, BoundInv, PerAddress, Apart, UnderWay, NoAuth

\* An AUTH's record, once checked, is as good as the address's failures are few.
LEMMA CheckedGood ==
  ASSUME BoundInv, ~suspends, Block > Window, NEW i \in Ips, NEW r \in Records,
         CheckedRecord(i, r)
  PROVE  /\ Accounted(missed[i], CheckedContents(r)[r])
         /\ ~Blocked(i) => /\ CheckedContents(r)[r].block = 0
                           /\ CheckedContents(r)[r].left >= 0
<1>1. /\ missed[i] \in SUBSET Misses /\ IsFiniteSet(missed[i]) /\ record[r] \in AttemptRecords
      /\ PerAddress(i)
  BY DEF BoundInv, LimitInv, LimitTypes
<1>2. CheckedContents(r)[r] = IF record[r].block = 0 /\ record[r].left < 0
                              THEN FreshRecord ELSE record[r]
  BY DEF CheckedContents, BoundInv, LimitInv, LimitTypes
<1>3. FreshRecord.block = 0 /\ FreshRecord.left = Window /\ Window >= 0
  BY LimitNumbers DEF FreshRecord, AttemptRecord
<1>4. CASE attempts[i] = NoRecord
  <2>1. record[r] = FreshRecord
    BY <1>4 DEF CheckedRecord, BoundInv
  <2>2. Few(missed[i])
    BY <1>1, <1>4 DEF PerAddress
  <2> QED BY <1>1, <1>2, <1>3, <2>1, <2>2, CountFresh
<1>5. CASE attempts[i] # NoRecord
  <2>1. r = attempts[i] /\ Accounted(missed[i], record[r])
    BY <1>1, <1>5 DEF CheckedRecord, PerAddress
  <2>2. record[r].left < 0 => Accounted(missed[i], FreshRecord)
    BY <1>1, <2>1, CountWhole, CountFresh
  <2>3. /\ record[r].left \in Int /\ record[r].block \in Nat
        /\ ~Blocked(i) => record[r].block = 0
    BY <1>1, <1>5, <2>1, LimitNumbers DEF Blocked, AttemptRecords
  <2> QED BY <1>2, <1>3, <2>1, <2>2, <2>3
<1> QED BY <1>4, <1>5

LEMMA BoundInvStep == BoundInv /\ [LimitNext]_limitVars => BoundInv'
<1> SUFFICES ASSUME BoundInv, [LimitNext]_limitVars PROVE BoundInv'
  OBVIOUS
<1>0. /\ LimitInv /\ LimitInv' /\ LimitTypes /\ suspends' = suspends
  <2>1. suspends' = suspends
    BY DEF LimitNext, limitVars, ReceiveAuth, RecordFailedAuth, RecordSuccessfulAuth,
           RateLimitCleanup, LimitTick
  <2> QED BY <2>1, LimitInvStep DEF BoundInv, LimitInv
\* What is not referred to is fresh.
<1>1. ASSUME NEW contents, Store(contents)
      PROVE  /\ \A r \in Records : r \notin Held' => record'[r] = FreshRecord
             /\ \A r \in Records : r \in Held' => record'[r] = contents[r]
  BY <1>1 DEF Store
<1>2. /\ \A i \in Ips : attempts'[i] \in Held'
      /\ \A a \in Auths : auth'[a].rec \in Held'
  BY DEF Held
<1>3. \A r \in Records : r \notin Held' => record'[r] = FreshRecord
  <2>1. CASE UNCHANGED limitVars
    BY <2>1 DEF limitVars, Held, BoundInv
  <2>2. ASSUME NEW contents, Store(contents)
        PROVE  \A r \in Records : r \notin Held' => record'[r] = FreshRecord
    BY <1>1, <2>2
  <2> QED
    BY <2>1, <2>2
       DEF LimitNext, ReceiveAuth, RecordFailedAuth, RecordSuccessfulAuth, RateLimitCleanup,
           LimitTick
<1>4. suspends' => \A i \in Ips : missed'[i] = {}
  <2>1. Later({}) = {}
    BY DEF Later
  <2> QED
    BY <1>0, <2>1
       DEF BoundInv, LimitTypes, LimitNext, limitVars, ReceiveAuth, RecordFailedAuth,
           RecordSuccessfulAuth, RateLimitCleanup, LimitTick
<1> SUFFICES ASSUME ~suspends, Block > Window
             PROVE  /\ (\A i \in Ips : PerAddress(i))'
                    /\ Apart'
                    /\ (\A a \in Auths : UnderWay(a) => Holds(a))'
  BY <1>0, <1>3, <1>4 DEF BoundInv
<1>5. /\ \A i \in Ips : PerAddress(i)
      /\ Apart
      /\ \A a \in Auths : UnderWay(a) => Holds(a)
      /\ \A a, b \in Auths : UnderWay(a) /\ UnderWay(b) => a = b
  BY <1>0 DEF BoundInv, LimitInv, OneAuth
<1>6. /\ NoRecord \notin Records
      /\ attempts \in [Ips -> Records \cup {NoRecord}]
      /\ attempts' \in [Ips -> Records \cup {NoRecord}]
      /\ record \in [Records -> AttemptRecords]
      /\ missed \in [Ips -> SUBSET Misses] /\ \A i \in Ips : IsFiniteSet(missed[i])
      /\ \A a \in Auths : UnderWay(a) => auth[a].ip \in Ips /\ auth[a].rec \in Records
      /\ auth \in [Auths -> [ip : Ips \cup {"none"}, rec : Records \cup {NoRecord}]]
  BY <1>0, LimitNumbers DEF LimitInv, LimitTypes
<1>7. ASSUME NEW a \in Auths, NEW i \in Ips, NEW t \in BOOLEAN, ReceiveAuth(a, i, t)
      PROVE  /\ (\A j \in Ips : PerAddress(j))'
             /\ Apart'
             /\ (\A b \in Auths : UnderWay(b) => Holds(b))'
  <2>1. PICK r \in Records :
          /\ CheckedRecord(i, r)
          /\ auth' = IF Refused(i, t) THEN auth
                     ELSE [auth EXCEPT ![a] = [ip |-> i, rec |-> r]]
          /\ Store(CheckedContents(r))
    BY <1>7 DEF ReceiveAuth
  <2>2. UNCHANGED <<attempts, missed>> /\ \A b \in Auths : ~UnderWay(b)
    BY <1>7 DEF ReceiveAuth, UnderWay
  <2>3. /\ Accounted(missed[i], CheckedContents(r)[r])
        /\ ~Blocked(i) => CheckedContents(r)[r].block = 0 /\ CheckedContents(r)[r].left >= 0
    BY <2>1, CheckedGood
  <2>4. /\ \A x \in Records : x # r => CheckedContents(r)[x] = record[x]
        /\ attempts[i] \in {r, NoRecord}
        /\ \A j \in Ips : attempts[j] = r => j = i
    BY <1>5, <1>6, <2>1 DEF CheckedContents, CheckedRecord, Apart, Held
  <2>5. ASSUME NEW j \in Ips PROVE PerAddress(j)'
    <3>1. CASE attempts[j] = NoRecord
      BY <1>5, <2>2, <3>1 DEF PerAddress
    <3>2. CASE attempts[j] # NoRecord
      <4>1. record'[attempts[j]] = CheckedContents(r)[attempts[j]]
        BY <1>1, <1>2, <1>6, <2>1, <2>2, <3>2
      <4>2. Accounted(missed[j], CheckedContents(r)[attempts[j]])
        BY <1>5, <1>6, <2>3, <2>4, <3>2 DEF PerAddress
      <4> QED BY <2>2, <3>2, <4>1, <4>2 DEF PerAddress
    <3> QED BY <3>1, <3>2
  <2>6. ASSUME NEW b \in Auths, UnderWay(b)' PROVE Holds(b)'
    <3>1. ~Refused(i, t) /\ b = a /\ auth'[b] = [ip |-> i, rec |-> r]
      BY <1>6, <2>1, <2>2, <2>6 DEF UnderWay
    <3>2. record'[r] = CheckedContents(r)[r]
      BY <1>1, <1>2, <2>1, <3>1
    <3> QED BY <2>2, <2>3, <2>4, <3>1, <3>2 DEF Holds, Refused
  <2>7. Apart'
    BY <1>5, <2>2 DEF Apart
  <2> QED BY <2>5, <2>6, <2>7
\* The one AUTH under way is answered.
<1>8. ASSUME NEW a \in Auths, UnderWay(a), auth' = [auth EXCEPT ![a] = NoAuth]
      PROVE  (\A b \in Auths : UnderWay(b) => Holds(b))'
  BY <1>5, <1>6, <1>8 DEF UnderWay
<1>9. ASSUME NEW a \in Auths, RecordFailedAuth(a)
      PROVE  /\ (\A i \in Ips : PerAddress(i))'
             /\ Apart'
             /\ (\A b \in Auths : UnderWay(b) => Holds(b))'
  <2> DEFINE i == auth[a].ip
             r == auth[a].rec
  <2>1. /\ UnderWay(a) /\ auth' = [auth EXCEPT ![a] = NoAuth]
        /\ attempts' = [attempts EXCEPT ![i] = r]
        /\ Store([record EXCEPT ![r] = Failed(@)])
        /\ missed' = [missed EXCEPT ![i] = Missed(i)]
    BY <1>9 DEF RecordFailedAuth, UnderWay
  <2>2. i \in Ips /\ r \in Records /\ Holds(a)
    BY <1>5, <1>6, <2>1
  <2>3. record'[r] = Failed(record[r]) /\ missed'[i] = Missed(i) /\ attempts'[i] = r
    <3>1. r \in Held'
      BY <1>2, <1>6, <2>1, <2>2
    <3> DEFINE contents == [record EXCEPT ![r] = Failed(@)]
    <3>2. contents[r] = Failed(record[r]) /\ Store(contents)
      BY <1>6, <2>1, <2>2
    <3> HIDE DEF contents
    <3>3. record'[r] = contents[r]
      BY <1>1, <2>2, <3>1, <3>2
    <3>4. missed'[i] = Missed(i) /\ attempts'[i] = r
      BY <1>6, <2>1, <2>2
    <3> QED BY <3>2, <3>3, <3>4
  <2>4. Accounted(Missed(i), Failed(record[r]))
    <3>1. /\ record[r] \in AttemptRecords /\ Accounted(missed[i], record[r])
          /\ record[r].block = 0 /\ record[r].left >= 0
      BY <1>6, <2>2 DEF Holds
    <3>2. record[r].count < MaxAttempts /\ record[r].count \in Nat /\ record[r].left \in -1..Window
      BY <3>1, LimitNumbers DEF Accounted, Honest, AttemptRecords
    <3>3. Honest(Failed(record[r]))
      BY <3>1, <3>2, FailedTyped, LimitNumbers DEF Honest
    <3>4. PICK m \in Misses : Missed(i) = missed[i] \cup {m}
      BY <1>0, <2>2, MissedGrows
    <3>5. InWindow(missed[i] \cup {m}, Failed(record[r]))
      BY <1>6, <2>2, <3>1, CountFailure DEF Accounted
    <3> QED BY <3>3, <3>4, <3>5 DEF Accounted
  <2> HIDE DEF i, r
  <2>5. ASSUME NEW j \in Ips PROVE PerAddress(j)'
    <3>1. CASE j = i
      BY <1>6, <2>2, <2>3, <2>4, <3>1 DEF PerAddress
    <3>2. CASE j # i /\ attempts[j] = NoRecord
      BY <1>5, <1>6, <2>1, <3>2 DEF PerAddress
    <3>3. CASE j # i /\ attempts[j] # NoRecord
      <4>1. attempts[j] # r /\ attempts[j] \in Records
        BY <1>6, <2>2, <3>3 DEF Holds, i, r
      <4>2. attempts'[j] = attempts[j] /\ missed'[j] = missed[j]
        BY <1>6, <2>1, <3>3
      <4>3. record'[attempts[j]] = [record EXCEPT ![r] = Failed(@)][attempts[j]]
        BY <1>1, <1>2, <2>1, <4>1, <4>2
      <4>4. record'[attempts[j]] = record[attempts[j]]
        BY <1>6, <4>1, <4>3
      <4> QED BY <1>5, <3>3, <4>2, <4>4 DEF PerAddress
    <3> QED BY <3>1, <3>2, <3>3
  <2>6. Apart'
    BY <1>5, <1>6, <2>1, <2>2 DEF Apart, Holds, i, r
  <2> QED BY <1>8, <2>1, <2>5, <2>6
<1>10. ASSUME NEW a \in Auths, RecordSuccessfulAuth(a)
       PROVE  /\ (\A i \in Ips : PerAddress(i))'
              /\ Apart'
              /\ (\A b \in Auths : UnderWay(b) => Holds(b))'
  <2> DEFINE i == auth[a].ip
  <2>1. /\ UnderWay(a) /\ auth' = [auth EXCEPT ![a] = NoAuth]
        /\ attempts' = [attempts EXCEPT ![i] = NoRecord]
        /\ Store(record)
        /\ missed' = [missed EXCEPT ![i] = {}]
        /\ i \in Ips
    BY <1>6, <1>10 DEF RecordSuccessfulAuth, UnderWay
  <2> HIDE DEF i
  <2>2. Few({})
    BY FS_EmptySet, LimitNumbers DEF Few
  <2>3. ASSUME NEW j \in Ips PROVE PerAddress(j)'
    <3>1. CASE j = i
      BY <1>6, <2>1, <2>2, <3>1 DEF PerAddress
    <3>2. CASE j # i /\ attempts[j] = NoRecord
      BY <1>5, <1>6, <2>1, <3>2 DEF PerAddress
    <3>3. CASE j # i /\ attempts[j] # NoRecord
      <4>1. attempts'[j] = attempts[j] /\ missed'[j] = missed[j]
        BY <1>6, <2>1, <3>3
      <4>2. record'[attempts[j]] = record[attempts[j]]
        BY <1>1, <1>2, <1>6, <2>1, <3>3, <4>1
      <4> QED BY <1>5, <3>3, <4>1, <4>2 DEF PerAddress
    <3> QED BY <3>1, <3>2, <3>3
  <2>4. Apart'
    BY <1>5, <1>6, <2>1 DEF Apart
  <2> QED BY <1>8, <2>1, <2>3, <2>4
<1>11. CASE RateLimitCleanup
  <2>1. /\ attempts' = [i \in Ips |->
                         IF attempts[i] # NoRecord /\ record[attempts[i]].left < 0
                         THEN NoRecord ELSE attempts[i]]
        /\ UNCHANGED <<auth, missed>> /\ Store(record)
    BY <1>11 DEF RateLimitCleanup
  <2>2. ASSUME NEW j \in Ips PROVE PerAddress(j)'
    <3>1. CASE attempts[j] = NoRecord
      BY <1>5, <2>1, <3>1 DEF PerAddress
    <3>2. CASE attempts[j] # NoRecord /\ record[attempts[j]].left < 0
      BY <1>5, <1>6, <2>1, <3>2, CountWhole DEF PerAddress
    <3>3. CASE attempts[j] # NoRecord /\ ~(record[attempts[j]].left < 0)
      <4>1. attempts'[j] = attempts[j] /\ record'[attempts[j]] = record[attempts[j]]
        BY <1>1, <1>2, <1>6, <2>1, <3>3
      <4> QED BY <1>5, <2>1, <3>3, <4>1 DEF PerAddress
    <3> QED BY <3>1, <3>2, <3>3
  <2>3. ASSUME NEW a \in Auths, UnderWay(a)' PROVE Holds(a)'
    <3>1. UnderWay(a) /\ Holds(a) /\ auth[a].ip \in Ips /\ auth[a].rec \in Records
      BY <1>5, <1>6, <2>1, <2>3 DEF UnderWay
    <3>2. record'[auth[a].rec] = record[auth[a].rec]
      BY <1>1, <1>2, <2>1, <3>1
    <3>3. record[auth[a].rec].left \in Int
      BY <1>6, <3>1 DEF AttemptRecords
    <3>4. attempts'[auth[a].ip] = attempts[auth[a].ip] \/ attempts'[auth[a].ip] = NoRecord
      BY <2>1, <3>1
    <3>5. \A j \in Ips : attempts'[j] = auth[a].rec => attempts[j] = auth[a].rec
      BY <1>6, <2>1, <3>1
    <3> QED BY <2>1, <3>1, <3>2, <3>3, <3>4, <3>5 DEF Holds
  <2>4. Apart'
    BY <1>5, <1>6, <2>1 DEF Apart
  <2> QED BY <2>2, <2>3, <2>4
<1>12. CASE LimitTick
  <2>1. /\ UNCHANGED <<attempts, auth>> /\ \A a \in Auths : ~UnderWay(a)
        /\ Store([r \in Records |-> TickedOn(record[r])])
        /\ missed' = [i \in Ips |-> Later(missed[i])]
    BY <1>12 DEF LimitTick, TickedOn, UnderWay
  <2>2. ASSUME NEW j \in Ips PROVE PerAddress(j)'
    <3>1. /\ missed'[j] = Later(missed[j])
          /\ missed[j] \in SUBSET Misses /\ IsFiniteSet(missed[j])
      BY <1>6, <2>1
    <3>2. CASE attempts[j] = NoRecord
      <4>1. /\ Cardinality(Later(missed[j])) <= Cardinality(missed[j])
            /\ IsFiniteSet(Later(missed[j]))
        BY <3>1, LaterShrinks
      <4>2. Cardinality(missed[j]) \in Nat /\ Cardinality(Later(missed[j])) \in Nat
        BY <3>1, <4>1, FS_CardinalityType
      <4>3. Cardinality(missed[j]) <= MaxAttempts
        BY <1>5, <3>2 DEF PerAddress, Few
      <4>4. Few(Later(missed[j]))
        BY <4>1, <4>2, <4>3, LimitNumbers DEF Few
      <4> QED BY <2>1, <3>1, <3>2, <4>4 DEF PerAddress
    <3>3. CASE attempts[j] # NoRecord
      <4> DEFINE rec == record[attempts[j]]
      <4>1. rec \in AttemptRecords /\ Accounted(missed[j], rec)
        BY <1>5, <1>6, <3>3 DEF PerAddress
      <4>2. record'[attempts[j]] = TickedOn(rec)
        BY <1>1, <1>2, <1>6, <2>1, <3>3
      <4> HIDE DEF rec
      <4>3. InWindow(Later(missed[j]), TickedOn(rec))
        BY <3>1, <4>1, CountTick DEF Accounted
      <4>4. Honest(TickedOn(rec))
        <5>1. /\ TickedOn(rec).count = rec.count /\ TickedOn(rec).block = Less(rec.block)
              /\ TickedOn(rec).left = IF rec.left > -1 THEN rec.left - 1 ELSE rec.left
          BY <4>1, TickedOnTyped
        <5>2. rec.count \in Nat /\ rec.left \in -1..Window /\ rec.block \in 0..Block
          BY <4>1 DEF AttemptRecords
        <5> QED BY <4>1, <5>1, <5>2, LimitNumbers DEF Accounted, Honest, Less
      <4> QED BY <2>1, <3>1, <3>3, <4>2, <4>3, <4>4 DEF PerAddress, Accounted
    <3> QED BY <3>2, <3>3
  <2>3. Apart' /\ \A a \in Auths : ~UnderWay(a)'
    BY <1>5, <2>1 DEF Apart, UnderWay
  <2> QED BY <2>2, <2>3
<1>13. CASE UNCHANGED limitVars
  BY <1>5, <1>13 DEF limitVars, PerAddress, Apart, UnderWay, Holds, Accounted, InWindow, Honest, Few
<1> QED
  BY <1>7, <1>9, <1>10, <1>11, <1>12, <1>13 DEF LimitNext

LEMMA BoundInvGives == BoundInv => FailuresBounded
<1> SUFFICES ASSUME BoundInv, Block > Window, NEW i \in Ips
             PROVE  Cardinality(missed[i]) <= 2 * MaxAttempts
  BY DEF FailuresBounded
<1>1. /\ missed[i] \in SUBSET Misses /\ IsFiniteSet(missed[i])
      /\ attempts[i] # NoRecord => record[attempts[i]] \in AttemptRecords
  BY DEF BoundInv, LimitInv, LimitTypes
<1>2. CASE suspends
  BY <1>2, FS_EmptySet, LimitNumbers DEF BoundInv
<1>3. CASE ~suspends /\ attempts[i] = NoRecord
  <2>1. Cardinality(missed[i]) <= MaxAttempts
    BY <1>3 DEF BoundInv, PerAddress, Few
  <2> QED BY <1>1, <2>1, FS_CardinalityType, LimitNumbers
<1>4. CASE ~suspends /\ attempts[i] # NoRecord
  BY <1>1, <1>4, CountWhole DEF BoundInv, PerAddress
<1> QED BY <1>2, <1>3, <1>4

\* On the in-memory store, with a block longer than the window, no address fails
\* more than twice maxAttempts in a window's length, wherever windows begin, blocks
\* end and sweeps forget, for any number of addresses and any limits.
THEOREM FailuresBoundedAlways == LimitSpec => []FailuresBounded
  BY BoundInvInit, BoundInvStep, BoundInvGives, PTL DEF LimitSpec

\* The session's own limit.
SessionLimitTyped ==
  /\ suspends \in BOOLEAN
  /\ sessionLimit \in [count : 0..MaxPerSession, left : -1..SessionWindow]

LEMMA SessionLimitNumbers ==
  /\ MaxPerSession \in Nat \ {0} /\ SessionWindow \in Nat
  /\ NoLimit \in [count : 0..MaxPerSession, left : -1..SessionWindow]
  BY LimitAssumption DEF NoLimit

LEMMA SessionLimitInit == LimitInit => SessionLimitTyped
  BY SessionLimitNumbers DEF LimitInit, SessionLimitTyped

LEMMA SessionLimitStep == SessionLimitTyped /\ [LimitNext]_limitVars => SessionLimitTyped'
<1> SUFFICES ASSUME SessionLimitTyped, [LimitNext]_limitVars PROVE SessionLimitTyped'
  OBVIOUS
<1> USE SessionLimitNumbers DEF SessionLimitTyped
<1>1. ASSUME NEW a \in Auths, NEW i \in Ips, NEW t \in BOOLEAN, ReceiveAuth(a, i, t)
      PROVE  SessionLimitTyped'
  BY <1>1 DEF ReceiveAuth, SessionChecked
<1>2. ASSUME NEW a \in Auths, RecordFailedAuth(a) PROVE SessionLimitTyped'
  BY <1>2 DEF RecordFailedAuth, SessionFailure
<1>3. ASSUME NEW a \in Auths, RecordSuccessfulAuth(a) PROVE SessionLimitTyped'
  BY <1>3 DEF RecordSuccessfulAuth
<1>4. CASE RateLimitCleanup
  BY <1>4 DEF RateLimitCleanup
<1>5. CASE LimitTick
  <2> DEFINE w == IF sessionLimit.left > -1 THEN sessionLimit.left - 1 ELSE sessionLimit.left
  <2>1. w \in -1..SessionWindow
    OBVIOUS
  <2>2. sessionLimit' = [sessionLimit EXCEPT !.left = w] /\ suspends' = suspends
    BY <1>5 DEF LimitTick
  <2> HIDE DEF w
  <2> QED BY <2>1, <2>2
<1>6. CASE UNCHANGED limitVars
  BY <1>6 DEF limitVars
<1> QED BY <1>1, <1>2, <1>3, <1>4, <1>5, <1>6 DEF LimitNext

\* Every variable of the two limits keeps its type: no window and no block is ever
\* longer than what it was set to, whichever AUTHs share a record.
THEOREM LimitTypeCorrect == LimitSpec => []LimitTypeOK
<1>1. LimitInv /\ SessionLimitTyped => LimitTypeOK
  BY DEF LimitInv, LimitTypes, SessionLimitTyped, LimitTypeOK
<1> QED
  BY LimitInvInit, LimitInvStep, SessionLimitInit, SessionLimitStep, <1>1, PTL DEF LimitSpec
=============================================================================
