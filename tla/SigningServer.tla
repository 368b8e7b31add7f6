---------------------------- MODULE SigningServer ----------------------------
(***************************************************************************)
(* One signing session of the coordination server, on the in-memory store: *)
(* WebSocketServer's handlers, SigningSessionManager's locked submission   *)
(* and execution, SessionStore's session record, and the transaction       *)
(* expiry timer.                                                           *)
(*                                                                         *)
(* Node runs an event handler, and every promise job it leaves behind, to  *)
(* completion before it takes the next event.  On the in-memory store each *)
(* await of a handler is such a promise job, so a handler is one action.   *)
(* What really suspends is: waiting for the per-session lock (queue), the  *)
(* network and mirror calls of an execution (phase), and the decoding of   *)
(* an injected transaction (decoding).  Actions that are new events        *)
(* (messages, timers, replies) require Quiescent: no promise job is left.  *)
(***************************************************************************)
EXTENDS Naturals, Sequences, FiniteSets

CONSTANTS
  Pids,             \* participant ids the server may hand out
  Agents,           \* the ones that authenticate with the agent API key
  KeyPairs,         \* key pairs, each as the spellings of its public key
  Eligible,         \* session.eligiblePublicKeys, as they are spelt
  Txs,              \* frozen transactions
  NoTx,             \* null
  Threshold,        \* session.threshold
  AutoExecute,      \* options.autoExecute of SigningSessionManager
  ThresholdHandler, \* an onThresholdMet handler that calls executeTransaction
  LocalInject,      \* the embedding process uses manager.injectTransaction
  Unbounded,        \* the session was created with no timeout
  MaxRounds,        \* bound: transactions injected
  MaxQueue,         \* bound: jobs waiting for the session lock
  MaxSocks          \* bound: sockets open under one participant id

\* publicKey strings a client may send: one key has several, DER or raw hex,
\* in either case, with or without 0x.
Keys == UNION KeyPairs

ASSUME ThresholdAssumption == Threshold \in Nat \ {0}
ASSUME KeysAssumption == IsFiniteSet(Keys) /\ Eligible \subseteq Keys
ASSUME KeyPairsAssumption == \A a, b \in KeyPairs : a = b \/ a \cap b = {}
ASSUME NoTxAssumption == NoTx \notin Txs
ASSUME FlagsAssumption ==
  {AutoExecute, ThresholdHandler, LocalInject, Unbounded} \subseteq BOOLEAN
ASSUME BoundsAssumption == {MaxRounds, MaxQueue, MaxSocks} \subseteq Nat

VARIABLES
  status,      \* session.status
  frozenTx,    \* session.frozenTransaction
  sigs,        \* session.signatures: per key, the transaction it signs
  part,        \* session.participants: each participant's status
  scheduled,   \* session.mode = 'scheduled'
  window,      \* session.transactionReceivedAt against the 120 s window
  timer,       \* round whose expiry timer is armed, 0 when none is
  round,       \* transactions injected so far
  life,        \* the session object: before expiresAt, past it, deleted
  handlers, \* an onThresholdMet handler is registered for the session
  socks,       \* open sockets authenticated under each participant id
  coord,       \* a coordinator socket is open
  decoding,    \* injected transactions still being decoded
  queue,       \* jobs chained on the session lock; the head holds it
  phase,       \* what the execution holding the lock is waiting for
  running,     \* round that execution submitted, 0 when none is running
  conts,       \* handlers past submitSignature that have yet to execute
  submitted,   \* history: executions handed to the network
  accepted     \* history: rounds whose receipt was a success

session == <<status, frozenTx, sigs, part, scheduled, window, timer, round,
             life, handlers>>
links   == <<socks, coord, decoding>>
lock    == <<queue, phase, running, conts>>
history == <<submitted, accepted>>
vars    == <<session, links, lock, history>>

-----------------------------------------------------------------------------
(* Types *)

Statuses == {"waiting", "transaction-received", "signing", "executing",
             "completed", "execution-failed", "expired", "cancelled"}

AuthValidStates == {"waiting", "transaction-received", "signing"}

\* 'connected', 'ready', 'reviewing' and 'signing' are all "active": they are
\* pruned when the socket closes and survive clearTransactionState.  So is any
\* other string a client names for itself, except 'signed' and 'rejected',
\* which are "claimed" and treated as the 'signed' of an accepted signature.
PartStates == {"unknown", "active", "signed", "claimed", "disconnected", "pruned"}
InSession  == {"active", "signed", "claimed", "disconnected"}
Kept       == {"signed", "claimed"}

Submission(p, k, t) == [kind |-> "submit", pid |-> p, key |-> k, tx |-> t]
Execution           == [kind |-> "exec"]
Deadlocked          == [kind |-> "deadlocked"]

Jobs == [kind : {"submit"}, pid : Pids, key : Keys, tx : Txs]
          \cup {Execution, Deadlocked}

HandedOverTxs ==
  [round : Nat, tx : Txs \cup {NoTx}, sigs : [Keys -> Txs \cup {NoTx}]]

NoSigs    == [k \in Keys |-> NoTx]
Collected == {k \in Keys : sigs[k] # NoTx}

\* Mutation: the threshold is compared off by one.
ThresholdMetEarly == Cardinality(Collected) + 1 >= Threshold

ThresholdMet == Cardinality(Collected) >= Threshold

Head1(kind) == queue # <<>> /\ Head(queue).kind = kind

\* No promise job is left to run: the next event may be taken.
Quiescent ==
  /\ conts = 0
  /\ \/ queue = <<>>
     \/ Head1("deadlocked")
     \/ phase # "idle"

-----------------------------------------------------------------------------
(* The store *)

\* getSession: reading a session past its expiresAt marks it expired.
Read(st) == IF life = "over" THEN "expired" ELSE st

Exists == life # "gone"

\* What broadcastToSession leaves behind: it reads the session.
Settle(st) == status' = Read(st)

\* Mutation: clearTransactionState leaves the participants alone.
UnsignedForgotten(ps) == ps

\* clearTransactionState, for the participants.
Unsigned(ps) ==
  [p \in Pids |-> IF ps[p] \in Kept THEN "active" ELSE ps[p]]

\* removeParticipant
Removed(st) ==
  IF st \in Kept THEN "disconnected"
  ELSE IF st \in InSession THEN "pruned"
  ELSE st

\* Mutation: the path back to 'waiting' forgets the signatures.
DropTransactionOnly == frozenTx' = NoTx /\ UNCHANGED sigs

\* Mutation: it forgets the transaction.
DropSignaturesOnly == UNCHANGED frozenTx /\ sigs' = NoSigs

\* The fields every path back to 'waiting' clears.
DropTransaction ==
  /\ frozenTx' = NoTx
  /\ sigs' = NoSigs

Init ==
  /\ frozenTx \in Txs \cup {NoTx}
  /\ status = IF frozenTx = NoTx THEN "waiting" ELSE "transaction-received"
  /\ round = IF frozenTx = NoTx THEN 0 ELSE 1
  /\ sigs = NoSigs
  /\ part = [p \in Pids |-> "unknown"]
  /\ scheduled = FALSE
  /\ window = "unset"
  /\ timer = 0
  /\ life = "open"
  /\ handlers = ThresholdHandler
  /\ socks = [p \in Pids |-> 0]
  /\ coord = FALSE
  /\ decoding = {}
  /\ queue = <<>>
  /\ phase = "idle"
  /\ running = 0
  /\ conts = 0
  /\ submitted = <<>>
  /\ accepted = {}

-----------------------------------------------------------------------------
(* Connections *)

\* AUTH as participant or agent: a new participant id.  The PIN is checked
\* against a session in an active state, the agent key against any session.
HandleAuth(p) ==
  /\ Quiescent
  /\ Exists
  /\ part[p] = "unknown"
  /\ Read(status) \in AuthValidStates \/ p \in Agents
  /\ part' = [part EXCEPT ![p] = "active"]
  /\ socks' = [socks EXCEPT ![p] = 1]
  /\ Settle(status)
  /\ UNCHANGED <<frozenTx, sigs, scheduled, window, timer, round, life,
                 handlers, coord, decoding, lock, history>>

\* AUTH with a reconnection token: the old id, whatever became of its entry.
HandleReconnect(p) ==
  /\ Quiescent
  /\ Exists
  /\ part[p] # "unknown"
  /\ socks[p] < MaxSocks
  /\ socks' = [socks EXCEPT ![p] = @ + 1]
  /\ Settle(status)
  /\ UNCHANGED <<frozenTx, sigs, part, scheduled, window, timer, round, life,
                 handlers, coord, decoding, lock, history>>

HandleClose(p) ==
  /\ Quiescent
  /\ socks[p] > 0
  /\ socks' = [socks EXCEPT ![p] = @ - 1]
  /\ part' = IF Exists THEN [part EXCEPT ![p] = Removed(@)] ELSE part
  /\ Settle(status)
  /\ UNCHANGED <<frozenTx, sigs, scheduled, window, timer, round, life,
                 handlers, coord, decoding, lock, history>>

HandleCoordinatorAuth ==
  /\ Quiescent
  /\ Exists
  /\ ~coord
  /\ Read(status) \in AuthValidStates
  /\ coord' = TRUE
  /\ UNCHANGED <<session, socks, decoding, lock, history>>

HandleCoordinatorClose ==
  /\ Quiescent
  /\ coord
  /\ coord' = FALSE
  /\ UNCHANGED <<session, socks, decoding, lock, history>>

\* PARTICIPANT_READY.  An id with no entry changes nothing.
HandleParticipantReady(p) ==
  /\ Quiescent
  /\ socks[p] > 0
  /\ Exists
  /\ part[p] \in InSession
  /\ part' = [part EXCEPT ![p] = "active"]
  /\ Settle(status)
  /\ UNCHANGED <<frozenTx, sigs, scheduled, window, timer, round, life,
                 handlers, links, lock, history>>

\* STATUS_UPDATE: the participant's status becomes whatever string the client
\* names, 'signed' without a signature and 'disconnected' included.
HandleStatusUpdate(p, named) ==
  /\ Quiescent
  /\ socks[p] > 0
  /\ Exists
  /\ part[p] \in InSession
  /\ part' = [part EXCEPT ![p] = named]
  /\ Settle(status)
  /\ UNCHANGED <<frozenTx, sigs, scheduled, window, timer, round, life,
                 handlers, links, lock, history>>

-----------------------------------------------------------------------------
(* The transaction on offer *)

\* TRANSACTION_INJECT without txDetails: decoded before the session is read.
HandleTransactionInject(t) ==
  /\ Quiescent
  /\ coord
  /\ decoding = {}
  /\ decoding' = {t}
  /\ UNCHANGED <<session, socks, coord, lock, history>>

\* Mutation: a transaction without a known expiry leaves the old timer armed.
InjectKeepingTimer(t, expiry) ==
  /\ part' = Unsigned(part)
  /\ sigs' = NoSigs
  /\ window' = "open"
  /\ round < MaxRounds
  /\ round' = round + 1
  /\ frozenTx' = t
  /\ timer' = IF expiry = "ahead" THEN round + 1 ELSE timer
  /\ Settle("transaction-received")
  /\ UNCHANGED <<scheduled, life, handlers>>

\* What injection does to the session; expiry tells whether the details name
\* an end of validity, and whether it lies ahead or is already past.
Inject(t, expiry) ==
  /\ part' = Unsigned(part)
  /\ sigs' = NoSigs
  /\ window' = "open"
  /\ \/ /\ expiry = "past"
        /\ frozenTx' = NoTx
        /\ status' = "waiting"
        /\ timer' = 0
        /\ round' = round
     \/ /\ expiry # "past"
        /\ round < MaxRounds
        /\ round' = round + 1
        /\ frozenTx' = t
        /\ timer' = IF expiry = "ahead" THEN round + 1 ELSE 0
        /\ Settle("transaction-received")
  /\ UNCHANGED <<scheduled, life, handlers>>

Expiries == {"unknown", "ahead", "past"}

\* TRANSACTION_INJECT with txDetails.
HandleDetailedInject(t, expiry) ==
  /\ Quiescent
  /\ coord
  /\ Exists
  /\ Inject(t, expiry)
  /\ UNCHANGED <<links, lock, history>>

\* The decoding is over: the rest of _handleTransactionInject.
HandleDecoded(t, expiry) ==
  /\ Quiescent
  /\ t \in decoding
  /\ decoding' = decoding \ {t}
  /\ IF Exists THEN Inject(t, expiry) ELSE UNCHANGED session
  /\ UNCHANGED <<socks, coord, lock, history>>

\* manager.injectTransaction: only from 'waiting', and no expiry timer.
InjectTransaction(t) ==
  /\ LocalInject
  /\ Quiescent
  /\ Exists
  /\ Read(status) = "waiting"
  /\ round < MaxRounds
  /\ round' = round + 1
  /\ frozenTx' = t
  /\ status' = "transaction-received"
  /\ window' = "open"
  /\ UNCHANGED <<sigs, part, scheduled, timer, life, handlers,
                 links, lock, history>>

\* Mutation: the timer handler returns early once signing has begun.
HandleExpiredUnlessSigning ==
  /\ Quiescent
  /\ timer # 0
  /\ timer' = 0
  /\ IF Exists /\ Read(status) \notin {"completed", "signing"}
     THEN status' = "waiting" /\ DropTransaction
     ELSE UNCHANGED <<status, frozenTx, sigs>>
  /\ UNCHANGED <<part, scheduled, window, round, life, handlers,
                 links, lock, history>>

\* The expiry timer fires.  Only a completed session is spared.
HandleTransactionExpired ==
  /\ Quiescent
  /\ timer # 0
  /\ timer' = 0
  /\ IF Exists /\ Read(status) # "completed"
     THEN status' = "waiting" /\ DropTransaction
     ELSE UNCHANGED <<status, frozenTx, sigs>>
  /\ UNCHANGED <<part, scheduled, window, round, life, handlers,
                 links, lock, history>>

ResetableStates == {"transaction-received", "signing", "waiting"}

HandleResetTransaction ==
  /\ Quiescent
  /\ coord
  /\ Exists
  /\ Settle(IF status \in ResetableStates THEN "waiting" ELSE status)
  /\ IF Read(status) \in ResetableStates
     THEN DropTransaction
     ELSE UNCHANGED <<frozenTx, sigs>>
  /\ UNCHANGED <<part, scheduled, window, timer, round, life,
                 handlers, links, lock, history>>

\* TRANSACTION_REJECTED, in whatever state the session is.
HandleTransactionRejected(p) ==
  /\ Quiescent
  /\ socks[p] > 0
  /\ Exists
  /\ part' = LET cleared == Unsigned(part)
             IN  IF part[p] \in InSession
                 THEN [cleared EXCEPT ![p] = "active"] ELSE cleared
  /\ DropTransaction
  /\ timer' = 0
  /\ window' = "unset"
  /\ Settle("waiting")
  /\ UNCHANGED <<scheduled, round, life, handlers, links, lock, history>>

HandleScheduleAnnounce ==
  /\ Quiescent
  /\ coord
  /\ Exists
  /\ scheduled' = TRUE
  /\ Settle(status)
  /\ UNCHANGED <<frozenTx, sigs, part, window, timer, round, life,
                 handlers, links, lock, history>>

\* manager.cancelSession; it also forgets the session's event handlers.
CancelSession ==
  /\ Quiescent
  /\ Exists
  /\ status' = "cancelled"
  /\ handlers' = FALSE
  /\ UNCHANGED <<frozenTx, sigs, part, scheduled, window, timer, round, life,
                 links, lock, history>>

-----------------------------------------------------------------------------
(* Signature submission, under the session lock *)

\* SIGNATURE_SUBMIT: the submission chains itself on the session lock.
HandleSignatureSubmit(p, k, t) ==
  /\ Quiescent
  /\ socks[p] > 0
  /\ Len(queue) < MaxQueue
  /\ queue' = Append(queue, Submission(p, k, t))
  /\ UNCHANGED <<session, links, phase, running, conts, history>>

TakesSignatures == Exists /\ Read(status) \in {"transaction-received", "signing"}

\* Mutation: the legacy status 'active' is stored as it comes.
StatusOnSubmitLegacy ==
  IF TakesSignatures /\ Collected = {} THEN "active" ELSE Read(status)

\* The status moves to 'signing' before the signature is looked at.
StatusOnSubmit ==
  IF TakesSignatures /\ Collected = {} THEN "signing" ELSE Read(status)

\* The canonical form of a key, here its key pair.
toRawPublicKeyHex(k) == {pair \in KeyPairs : k \in pair}

isKeyEligible(k) ==
  \E e \in Eligible : toRawPublicKeyHex(e) = toRawPublicKeyHex(k)

\* Mutation: the signature is not verified against the stored transaction.
AcceptableUnverified(job) ==
  /\ TakesSignatures
  /\ frozenTx # NoTx
  /\ scheduled \/ window # "over"
  /\ isKeyEligible(job.key)
  /\ sigs[job.key] = NoTx
  /\ part[job.pid] \in InSession

\* The eligible keys are compared in their canonical form, the keys that have
\* signed as they were spelt: session.signatures is keyed by the string sent.
Acceptable(job) ==
  /\ TakesSignatures
  /\ frozenTx # NoTx
  /\ scheduled \/ window # "over"
  /\ isKeyEligible(job.key)
  /\ sigs[job.key] = NoTx
  /\ job.tx = frozenTx
  /\ part[job.pid] \in InSession

\* Mutation: a refusal that does not reach releaseLock.
SubmitRefusedHoldingLock ==
  /\ Head1("submit")
  /\ ~Acceptable(Head(queue))
  /\ status' = IF Exists THEN StatusOnSubmit ELSE status
  /\ queue' = <<Deadlocked>> \o Tail(queue)
  /\ UNCHANGED <<frozenTx, sigs, part, scheduled, window, timer, round, life,
                 handlers, links, phase, running, conts, history>>

SubmitRefused ==
  /\ Head1("submit")
  /\ ~Acceptable(Head(queue))
  /\ status' = IF Exists THEN StatusOnSubmit ELSE status
  /\ queue' = Tail(queue)
  /\ UNCHANGED <<frozenTx, sigs, part, scheduled, window, timer, round, life,
                 handlers, links, phase, running, conts, history>>

\* Executions that an accepted signature chains before it returns.
Chained(met) ==
  IF ~met THEN <<>>
  ELSE IF AutoExecute /\ handlers THEN <<Execution, Execution>>
  ELSE IF AutoExecute \/ handlers THEN <<Execution>>
  ELSE <<>>

\* With autoExecute the submission awaits an execution chained behind its own
\* lock, so it neither returns nor releases the lock.
SubmitAccepted ==
  /\ Head1("submit")
  /\ LET job == Head(queue) IN
       /\ Acceptable(job)
       /\ sigs' = [sigs EXCEPT ![job.key] = job.tx]
       /\ part' = [part EXCEPT ![job.pid] = "signed"]
  /\ status' = StatusOnSubmit
  /\ LET met == Cardinality(Collected') >= Threshold IN
       /\ queue' = (IF met /\ AutoExecute THEN <<Deadlocked>> ELSE <<>>)
                      \o Tail(queue) \o Chained(met)
       /\ conts' = IF met /\ ~AutoExecute THEN conts + 1 ELSE conts
  /\ UNCHANGED <<frozenTx, scheduled, window, timer, round, life,
                 handlers, links, phase, running, history>>

-----------------------------------------------------------------------------
(* Execution, under the same lock *)

\* Mutation: the server announces the threshold and waits to be asked.
ContinueWithoutExecution ==
  /\ conts > 0
  /\ conts' = conts - 1
  /\ Settle(status)
  /\ UNCHANGED <<frozenTx, sigs, part, scheduled, window, timer, round, life,
                 handlers, links, queue, phase, running, history>>

\* The rest of _handleSignatureSubmit once the threshold is met.
ContinueToExecution ==
  /\ conts > 0
  /\ conts' = conts - 1
  /\ queue' = Append(queue, Execution)
  /\ Settle(status)
  /\ UNCHANGED <<frozenTx, sigs, part, scheduled, window, timer, round, life,
                 handlers, links, phase, running, history>>

\* EXECUTE_TRANSACTION
HandleExecuteTransaction ==
  /\ Quiescent
  /\ coord
  /\ Len(queue) < MaxQueue
  /\ queue' = Append(queue, Execution)
  /\ UNCHANGED <<session, links, phase, running, conts, history>>

\* Mutation: an execution does not look whether the session completed.
ExecutableAgain ==
  /\ Exists
  /\ Read(status) \notin {"execution-failed", "cancelled", "expired"}
  /\ ThresholdMet

Executable ==
  /\ Exists
  /\ Read(status) \notin {"completed", "execution-failed", "cancelled", "expired"}
  /\ ThresholdMet

ExecutionRefused ==
  /\ Head1("exec")
  /\ phase = "idle"
  /\ ~Executable
  /\ Settle(status)
  /\ queue' = Tail(queue)
  /\ UNCHANGED <<frozenTx, sigs, part, scheduled, window, timer, round, life,
                 handlers, links, phase, running, conts, history>>

\* Up to signedTx.execute: the transaction and its signatures go out.
ExecutionStarts ==
  /\ Head1("exec")
  /\ phase = "idle"
  /\ Executable
  /\ status' = "executing"
  /\ phase' = "network"
  /\ running' = round
  /\ submitted' = Append(submitted, [round |-> round, tx |-> frozenTx, sigs |-> sigs])
  /\ UNCHANGED <<frozenTx, sigs, part, scheduled, window, timer, round, life,
                 handlers, links, queue, conts, accepted>>

\* The receipt is a success: 'completed', and on to the mirror node.
NetworkAccepts ==
  /\ Quiescent
  /\ phase = "network"
  /\ accepted' = accepted \cup {running}
  /\ status' = IF Exists THEN "completed" ELSE status
  /\ phase' = "mirror"
  /\ UNCHANGED <<frozenTx, sigs, part, scheduled, window, timer, round, life,
                 handlers, links, queue, running, conts, submitted>>

\* Mutation: the failure path does not move the session out of 'executing'.
NetworkRefusesSilently ==
  /\ Quiescent
  /\ phase = "network"
  /\ phase' = "idle"
  /\ running' = 0
  /\ queue' = Tail(queue)
  /\ Settle(status)
  /\ UNCHANGED <<frozenTx, sigs, part, scheduled, window, timer, round, life,
                 handlers, links, conts, history>>

\* Mutation: a failed execution reopens the session for signatures.
NetworkRefusesReopening ==
  /\ Quiescent
  /\ phase = "network"
  /\ status' = IF Exists /\ Read(status) = "executing"
               THEN "signing" ELSE Read(status)
  /\ phase' = "idle"
  /\ running' = 0
  /\ queue' = Tail(queue)
  /\ UNCHANGED <<frozenTx, sigs, part, scheduled, window, timer, round, life,
                 handlers, links, conts, history>>

\* execute or getReceipt throws; the lock is released.
NetworkRefuses ==
  /\ Quiescent
  /\ phase = "network"
  /\ status' = IF Exists /\ Read(status) = "executing"
               THEN "execution-failed" ELSE Read(status)
  /\ phase' = "idle"
  /\ running' = 0
  /\ queue' = Tail(queue)
  /\ UNCHANGED <<frozenTx, sigs, part, scheduled, window, timer, round, life,
                 handlers, links, conts, history>>

\* Mirror polling ends, confirmed or not; the lock is released.
MirrorDone ==
  /\ Quiescent
  /\ phase = "mirror"
  /\ Settle(status)
  /\ phase' = "idle"
  /\ running' = 0
  /\ queue' = Tail(queue)
  /\ UNCHANGED <<frozenTx, sigs, part, scheduled, window, timer, round, life,
                 handlers, links, conts, history>>

-----------------------------------------------------------------------------
(* Time *)

\* 120 s have passed since the transaction was received.
WindowElapses ==
  /\ Quiescent
  /\ window = "open"
  /\ window' = "over"
  /\ UNCHANGED <<status, frozenTx, sigs, part, scheduled, timer, round, life,
                 handlers, links, lock, history>>

SessionElapses ==
  /\ Quiescent
  /\ ~Unbounded
  /\ life = "open"
  /\ life' = "over"
  /\ UNCHANGED <<status, frozenTx, sigs, part, scheduled, window, timer, round, handlers,
                 links, lock, history>>

\* The cleanup interval, five minutes past expiresAt or earlier; a completed
\* session is left alone.
CleanupExpiredSessions ==
  /\ Quiescent
  /\ life = "over"
  /\ status # "completed"
  /\ status' = "expired"
  /\ life' \in {"over", "gone"}
  /\ UNCHANGED <<frozenTx, sigs, part, scheduled, window, timer, round, handlers,
                 links, lock, history>>

\* Any request that only reads the session, a refused AUTH among them.
ReadSession ==
  /\ Quiescent
  /\ life = "over"
  /\ Settle(status)
  /\ UNCHANGED <<frozenTx, sigs, part, scheduled, window, timer, round, life,
                 handlers, links, lock, history>>

-----------------------------------------------------------------------------

ParticipantActs(p) ==
  \/ HandleAuth(p)
  \/ HandleReconnect(p)
  \/ HandleClose(p)
  \/ HandleParticipantReady(p)
  \/ HandleTransactionRejected(p)
  \/ \E named \in InSession \ {"signed"} : HandleStatusUpdate(p, named)
  \/ \E k \in Keys, t \in Txs : HandleSignatureSubmit(p, k, t)

CoordinatorActs ==
  \/ HandleCoordinatorAuth
  \/ HandleCoordinatorClose
  \/ HandleResetTransaction
  \/ HandleScheduleAnnounce
  \/ HandleExecuteTransaction
  \/ CancelSession
  \/ \E t \in Txs : \/ HandleTransactionInject(t)
                    \/ InjectTransaction(t)
                    \/ \E x \in Expiries : HandleDetailedInject(t, x)

\* Promise jobs and replies: what goes on once the messages are in.
ServerActs ==
  \/ SubmitRefused
  \/ SubmitAccepted
  \/ ContinueToExecution
  \/ ExecutionRefused
  \/ ExecutionStarts
  \/ NetworkAccepts
  \/ NetworkRefuses
  \/ MirrorDone
  \/ \E t \in Txs, x \in Expiries : HandleDecoded(t, x)

TimeActs ==
  \/ HandleTransactionExpired
  \/ WindowElapses
  \/ SessionElapses
  \/ CleanupExpiredSessions
  \/ ReadSession

Next ==
  \/ \E p \in Pids : ParticipantActs(p)
  \/ CoordinatorActs
  \/ ServerActs
  \/ TimeActs

Spec == Init /\ [][Next]_vars

-----------------------------------------------------------------------------
(* Fairness: promise jobs run, the network and the mirror polling settle,  *)
(* and timers go off however many other events keep arriving, since every  *)
(* turn of the event loop serves each queue that has something ready.      *)

LockJobs ==
  \/ SubmitRefused \/ SubmitAccepted
  \/ ContinueToExecution
  \/ ExecutionRefused \/ ExecutionStarts

Fairness ==
  /\ WF_vars(LockJobs)
  /\ SF_vars(NetworkAccepts \/ NetworkRefuses)
  /\ SF_vars(MirrorDone)
  /\ SF_vars(HandleTransactionExpired)

FairSpec == Spec /\ Fairness

-----------------------------------------------------------------------------
(* Safety *)

TypeOK ==
  /\ status \in Statuses
  /\ frozenTx \in Txs \cup {NoTx}
  /\ sigs \in [Keys -> Txs \cup {NoTx}]
  /\ part \in [Pids -> PartStates]
  /\ scheduled \in BOOLEAN
  /\ window \in {"unset", "open", "over"}
  /\ timer \in Nat
  /\ round \in Nat
  /\ life \in {"open", "over", "gone"}
  /\ handlers \in BOOLEAN
  /\ socks \in [Pids -> Nat]
  /\ coord \in BOOLEAN
  /\ decoding \subseteq Txs
  /\ queue \in Seq(Jobs)
  /\ phase \in {"idle", "network", "mirror"}
  /\ running \in Nat
  /\ conts \in Nat
  /\ submitted \in Seq(HandedOverTxs)
  /\ accepted \subseteq Nat

\* Every signature the session holds was verified against the transaction it
\* holds now, and comes from an eligible key, however it is spelt: no path that
\* replaces or drops the transaction (injection, expiry, reset, rejection)
\* leaves one behind.
SignaturesMatchTransaction ==
  \A k \in Collected : sigs[k] = frozenTx /\ isKeyEligible(k)

\* A session that takes signatures has a transaction to sign, and one that
\* waits for a transaction holds neither a transaction nor signatures, which
\* store.injectTransaction takes for granted: it clears nothing.
StatusMatchesTransaction ==
  /\ status \in {"transaction-received", "signing"} => frozenTx # NoTx
  /\ status = "waiting" => frozenTx = NoTx /\ Collected = {}

Signers(s) == {k \in Keys : s.sigs[k] # NoTx}

\* What goes to the network carries at least Threshold signatures of eligible
\* keys, each verified against that very transaction, although threshold,
\* transaction and signatures are read at different moments.  They are told
\* apart by the spelling of the key alone: OneKeyOneSigner, below, fails.
SubmissionsApproved ==
  \A i \in DOMAIN submitted :
    LET s == submitted[i] IN
      /\ s.tx # NoTx
      /\ Cardinality(Signers(s)) >= Threshold
      /\ \A k \in Signers(s) : s.sigs[k] = s.tx /\ isKeyEligible(k)

\* One injected transaction is handed to the network at most once, whoever
\* asks: the automatic execution, the coordinator, an onThresholdMet handler.
SubmittedOnce ==
  \A i, j \in DOMAIN submitted :
    submitted[i].round = submitted[j].round => i = j

\* A transaction that has gone to the network takes no more signatures: no
\* failure, late signature or timer reopens the round for a second attempt.
SubmittedIsClosed ==
  (\E i \in DOMAIN submitted : submitted[i].round = round) =>
    status \notin {"transaction-received", "signing"}

\* The session says 'executing' only while the execution that set it holds
\* the lock and waits for the network, so no failure path leaves it stuck.
ExecutingIsUnderWay ==
  status = "executing" => phase = "network" /\ running # 0

\* The armed expiry timer belongs to the transaction on offer, so it cannot
\* cut a later one short.  A process that injects through the manager gets
\* no such guarantee: that path leaves the timer of a reset transaction on.
TimerMatchesTransaction ==
  ~LocalInject /\ timer # 0 /\ frozenTx # NoTx => timer = round

\* Against a transaction on offer there are no more participants whom the
\* server itself marked 'signed' than signatures collected for it: no reset,
\* injection, rejection or expiry leaves a mark behind.  Two exceptions:
\* manager.injectTransaction resets no participant, and a client that names
\* 'signed' in a STATUS_UPDATE is believed ("claimed").
NoStaleSignedStatus ==
  ~LocalInject /\ frozenTx # NoTx =>
    Cardinality({p \in Pids : part[p] = "signed"}) <= Cardinality(Collected)

\* The server does what MultisigCeremony promises.
Ceremony == INSTANCE MultisigCeremony WITH
  Holders   <- {k \in Keys : isKeyEligible(k)},
  offer     <- frozenTx,
  approvals <- Collected,
  sent      <- [i \in DOMAIN submitted |->
                  [round     |-> submitted[i].round,
                   tx        |-> submitted[i].tx,
                   approvers |-> Signers(submitted[i])]]

ImplementsCeremony == Ceremony!Spec

-----------------------------------------------------------------------------
(* Liveness, under FairSpec *)

\* The session lock is always given back: every submission and execution
\* chained on it gets its answer.
LockReleased == queue # <<>> ~> queue = <<>>

\* A transaction with enough signatures goes to the network without anyone
\* asking, unless it is withdrawn or the session ends.
ThresholdLeadsToSubmission ==
  \A r \in 1 .. MaxRounds :
    (round = r /\ ThresholdMet) ~>
      \/ \E i \in DOMAIN submitted : submitted[i].round = r
      \/ round # r
      \/ Collected = {}
      \/ status \in {"expired", "cancelled"}
      \/ ~Exists

\* A transaction with a known end of validity does not stay on offer for
\* ever: it is executed, it fails, or the timer withdraws it.
NoTransactionLingers ==
  \A r \in 1 .. MaxRounds :
    (round = r /\ timer = r) ~>
      \/ frozenTx = NoTx
      \/ round # r
      \/ status \in {"completed", "execution-failed"}
      \/ ~Exists

-----------------------------------------------------------------------------
(* What the documentation says and the code does not do *)

\* shared/protocol.js: 'execution-failed' is terminal, an operator must look
\* before anything is retried.  A new injection, a cancellation and the
\* session's expiry are let through here; slipping back to 'waiting' is not.
FailureIsTerminal ==
  [][status = "execution-failed" => status' # "waiting"]_status

\* docs/COORDINATOR_GUIDE.md: 'completed' means the transaction executed.
CompletedMeansExecuted == status = "completed" => round \in accepted

\* docs/SECURITY_ARCHITECTURE.md: a signature of a key that has one already is
\* refused, so Threshold signatures are those of as many key pairs.
OneKeyOneSigner ==
  \A i \in DOMAIN submitted :
    Cardinality({pair \in KeyPairs : pair \cap Signers(submitted[i]) # {}})
      >= Threshold

=============================================================================
