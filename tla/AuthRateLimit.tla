---------------------------- MODULE AuthRateLimit ----------------------------
(***************************************************************************)
(* The limits WebSocketServer puts on failed AUTH messages: one record per *)
(* client address, with a counting window and a block, and one per session *)
(* with a window.  Time is what is left of each window and block.          *)
(*                                                                         *)
(* An AUTH reads its address's record, authenticates, and then writes that *)
(* record back.  On the in-memory store nothing comes between; on Redis    *)
(* the authentication waits for I/O while other AUTHs are handled, and the *)
(* record it holds is an object that the others may share or replace.      *)
(***************************************************************************)
EXTENDS Integers, FiniteSets

CONSTANTS
  Ips,          \* client addresses
  Auths,        \* AUTH messages that can be under way at once
  Records,      \* attempt records (JavaScript objects)
  NoRecord,     \* undefined
  MaxAttempts,  \* authRateLimit.maxAttempts
  Window,       \* authRateLimit.windowMs
  Block,        \* authRateLimit.blockDurationMs
  MaxPerSession,\* sessionRateLimit.maxAttempts
  SessionWindow \* sessionRateLimit.windowMs

ASSUME LimitAssumption ==
  /\ {MaxAttempts, Window, Block, MaxPerSession, SessionWindow} \subseteq Nat \ {0}
  /\ NoRecord \notin Records

VARIABLES
  suspends,    \* the store answers from I/O: an AUTH may be overtaken
  attempts,    \* authAttempts: the record of each address
  record,      \* what each record holds
  auth,        \* the AUTHs under way
  sessionLimit,\* sessionAuthAttempts of the session
  missed       \* history, on the in-memory store: the failures of each address
               \* since its last success, for as long as a window

limitVars == <<suspends, attempts, record, auth, sessionLimit, missed>>

\* resetTime < now is left < 0; blockUntil > now is block > 0.
AttemptRecord(c, w, b) == [count |-> c, left |-> w, block |-> b]
FreshRecord == AttemptRecord(0, Window, 0)
NoLimit     == [count |-> 0, left |-> -1]
NoAuth      == [ip |-> "none", rec |-> NoRecord]

\* Nothing caps the count: where the window outlasts the block, an address goes
\* on failing, one block after the other, until the window is over.
AttemptRecords == [count : Nat, left : -1..Window, block : 0..Block]

\* A failure is as old as it is; those of the same age are numbered.
Misses == [no : Nat, age : 0..Window]

LimitInit ==
  /\ suspends \in BOOLEAN
  /\ attempts = [i \in Ips |-> NoRecord]
  /\ record = [r \in Records |-> FreshRecord]
  /\ auth = [a \in Auths |-> NoAuth]
  /\ sessionLimit = NoLimit
  /\ missed = [i \in Ips |-> {}]

Held == {attempts[i] : i \in Ips} \cup {auth[a].rec : a \in Auths}

Blocked(i) == attempts[i] # NoRecord /\ record[attempts[i]].block > 0

\* The session's gate, which an AUTH with a reconnection token is spared.
SessionLocked == sessionLimit.left >= 0 /\ sessionLimit.count >= MaxPerSession

\* What a record holds once nothing refers to it is lost.
Store(contents) ==
  record' = [r \in Records |-> IF r \in Held' THEN contents[r] ELSE FreshRecord]

\* _checkRateLimit: the record an AUTH from i goes on with ...
CheckedRecord(i, r) ==
  IF attempts[i] = NoRecord
  THEN r \notin Held /\ r = CHOOSE x \in Records : x \notin Held
  ELSE r = attempts[i]

\* ... and what it then holds.  A blocked address's is left alone.
CheckedContents(r) ==
  [record EXCEPT ![r] = IF @.block = 0 /\ @.left < 0 THEN FreshRecord ELSE @]

\* Mutation: one failure more than maxAttempts before the block.
FailedOver(rec) ==
  [rec EXCEPT !.count = @ + 1,
              !.block = IF rec.count + 1 > MaxAttempts THEN Block ELSE @]

Failed(rec) ==
  [rec EXCEPT !.count = @ + 1,
              !.block = IF rec.count + 1 >= MaxAttempts THEN Block ELSE @]

\* The count stops at MaxPerSession, past which nothing tells values apart.
SessionFailure ==
  sessionLimit' =
    IF sessionLimit = NoLimit THEN [count |-> 1, left |-> SessionWindow]
    ELSE [sessionLimit EXCEPT !.count = IF @ < MaxPerSession THEN @ + 1 ELSE @]

\* The check of the session's limit drops a record whose window is over.
SessionChecked ==
  IF sessionLimit.left < 0 THEN sessionLimit' = NoLimit
  ELSE UNCHANGED sessionLimit

\* The two limits.
Refused(i, token) == Blocked(i) \/ (SessionLocked /\ ~token)

\* An AUTH arrives.  Refused by either limit it changes nothing that counts.
ReceiveAuth(a, i, token) ==
  /\ auth[a] = NoAuth
  /\ \A b \in Auths : auth[b] = NoAuth \/ suspends
  /\ UNCHANGED <<suspends, attempts, missed>>
  /\ \E r \in Records :
       /\ CheckedRecord(i, r)
       /\ auth' = IF Refused(i, token) THEN auth
                  ELSE [auth EXCEPT ![a] = [ip |-> i, rec |-> r]]
       /\ Store(CheckedContents(r))
  /\ IF Blocked(i) \/ token THEN UNCHANGED sessionLimit ELSE SessionChecked

Missed(i) ==
  missed[i] \cup {[no |-> Cardinality({m \in missed[i] : m.age = 0}), age |-> 0]}

\* _recordFailedAuth, with the record captured when the AUTH arrived.
RecordFailedAuth(a) ==
  /\ auth[a] # NoAuth
  /\ attempts' = [attempts EXCEPT ![auth[a].ip] = auth[a].rec]
  /\ auth' = [auth EXCEPT ![a] = NoAuth]
  /\ Store([record EXCEPT ![auth[a].rec] = Failed(@)])
  /\ SessionFailure
  /\ missed' = IF suspends THEN missed
               ELSE [missed EXCEPT ![auth[a].ip] = Missed(auth[a].ip)]
  /\ UNCHANGED suspends

\* _recordSuccessfulAuth
RecordSuccessfulAuth(a) ==
  /\ auth[a] # NoAuth
  /\ attempts' = [attempts EXCEPT ![auth[a].ip] = NoRecord]
  /\ auth' = [auth EXCEPT ![a] = NoAuth]
  /\ Store(record)
  /\ missed' = [missed EXCEPT ![auth[a].ip] = {}]
  /\ UNCHANGED <<suspends, sessionLimit>>

\* rate-limit-cleanup: an address whose window is over is forgotten, be it
\* blocked or not.
RateLimitCleanup ==
  /\ attempts' = [i \in Ips |->
                    IF attempts[i] # NoRecord /\ record[attempts[i]].left < 0
                    THEN NoRecord ELSE attempts[i]]
  /\ UNCHANGED <<suspends, auth, sessionLimit, missed>>
  /\ Store(record)

\* The failures that a window still reaches, a tick later.
Later(ms) == {[m EXCEPT !.age = @ + 1] : m \in {x \in ms : x.age < Window}}

Less(n) == IF n > 0 THEN n - 1 ELSE 0

\* Time passes, for every window and block.  On the in-memory store none
\* passes while an AUTH is handled.
LimitTick ==
  /\ suspends \/ \A a \in Auths : auth[a] = NoAuth
  /\ UNCHANGED <<suspends, attempts, auth>>
  /\ Store([r \in Records |->
             [record[r] EXCEPT !.left = IF @ > -1 THEN @ - 1 ELSE @,
                               !.block = Less(@)]])
  /\ sessionLimit' = [sessionLimit EXCEPT !.left = IF @ > -1 THEN @ - 1 ELSE @]
  /\ missed' = [i \in Ips |-> Later(missed[i])]

LimitNext ==
  \/ \E a \in Auths, i \in Ips, t \in BOOLEAN : ReceiveAuth(a, i, t)
  \/ \E a \in Auths : RecordFailedAuth(a) \/ RecordSuccessfulAuth(a)
  \/ RateLimitCleanup
  \/ LimitTick

\* Time does not stop, and an AUTH under way is answered.
LimitFairness ==
  /\ SF_limitVars(LimitTick)
  /\ \A a \in Auths :
       WF_limitVars(RecordFailedAuth(a) \/ RecordSuccessfulAuth(a))

LimitSpec == LimitInit /\ [][LimitNext]_limitVars /\ LimitFairness

-----------------------------------------------------------------------------
(* Properties *)

\* The type invariant.
LimitTypeOK ==
  /\ suspends \in BOOLEAN
  /\ attempts \in [Ips -> Records \cup {NoRecord}]
  /\ record \in [Records -> AttemptRecords]
  /\ auth \in [Auths -> [ip : Ips \cup {"none"}, rec : Records \cup {NoRecord}]]
  /\ sessionLimit \in [count : 0..MaxPerSession, left : -1..SessionWindow]
  /\ missed \in [Ips -> SUBSET Misses]

\* A lockout ends, even for those who keep trying: what is refused does not
\* count, so neither an address's block nor the session's window is extended.
LockoutsEnd ==
  /\ \A i \in Ips : Blocked(i) ~> ~Blocked(i)
  /\ SessionLocked ~> ~SessionLocked

\* On the in-memory store, and with a block longer than the window (as it is by
\* default), the AUTHs of one address that fail within a window's length, with no
\* success in between, are at most twice maxAttempts.  They can be more than
\* maxAttempts: a window begins at an attempt, and the sweep may forget an
\* address in the middle of its block, whose "5 minutes" (WebSocketServer.js:60)
\* are over with that.
FailuresBounded ==
  Block > Window => \A i \in Ips : Cardinality(missed[i]) <= 2 * MaxAttempts
=============================================================================
