# Formal model of hedera-multisig

TLA+ modules, TLC configurations and machine-checked proofs kept beside
`@lazysuperheroes/hedera-multisig`, a coordinator and its clients for M-of-N
signing of Hedera transactions. Paths are relative to the repository.

## 1. The system

A coordinator runs a WebSocket server. Participants (people at a CLI or in the
dApp, or agents) join a *session* with a PIN, a reconnection token or an API
key. The coordinator injects a frozen transaction; participants review it, sign
it locally and send signatures, or decline it. When enough signatures are in,
the server attaches them, submits the transaction and confirms it on a mirror
node. A frozen transaction is valid for about 120 seconds, a session for 30
minutes by default.

### Inventory

| Component | Where | State it keeps | Operations | What makes it correct |
|---|---|---|---|---|
| Session server | `server/WebSocketServer.js`, `server/SigningSessionManager.js`, `server/SessionStore.js` | session record (status, transaction, signatures, participants, expiry), per-session lock, expiry timer, sockets | one handler per message, close handlers, timers, cleanup | signatures belong to the transaction on offer; only approved transactions go out, each once; every failure releases the lock and leaves a status that says what happened |
| Execution | `SigningSessionManager._executeTransactionLocked`, `shared/mirror-node-client.js` | what the execution waits for | execute, receipt, mirror polling | 'completed' means executed; failure is terminal |
| Participant registry and connections | `SessionStore` (participants, tokens, stats), `WebSocketServer` (`clients`, `coordinatorClients`, heartbeat) | entries, counters, socket maps, tokens | AUTH, reconnect, close, prune, ready | a returning participant can sign; counters agree with entries; a late close does not unregister a newer socket |
| AUTH rate limiting | `WebSocketServer._checkRateLimit`, `_recordFailedAuth`, cleanup | per-IP and per-session counters | check, record, reset, sweep | failures of one address are bounded, though the sweep may cut its block short; lockouts end |
| Session table | `SessionStore.createSession`, `getSession`, `_cleanupExpiredSessions` | the map of sessions, their deadlines | create, read, expire, announce, delete | a full table gets room again |
| Server process | `WebSocketServer.start`, `stop`, `_setupHeartbeat` | HTTP server, tunnel, intervals, `isAlive` | start, tunnel, heartbeat, stop | nobody prompt is cut off, the silent are; start and stop end |
| Redis store | `server/stores/RedisSessionStore.js` | JSON copies in Redis, fallback map | load, change, save | Redis has the only copy until the session's end; the lock keeps signatures; expired sessions leave |
| Signing client | `client/SigningClient.js`, `client/AgentSigningClient.js` | status, key, prompt, reconnection state | connect, ready, review, sign, reject, reconnect | an answer reaches the transaction it was given for |
| Policy engine and review | `client/PolicyEngine.js`, `client/TransactionReviewer.js` | rules, rate-limit windows | evaluate, record | approves only what every rule allows |
| Key identity | `server/utils/keyUtils.js`, `shared/crypto-utils.js` | none | canonical form, eligibility | one key is one signer, however it is spelt (it is not: section 5) |
| Core library | `core/` | collected signatures, freeze parameters | freeze, collect, verify, execute | threshold and verification |
| Workflows | `workflows/` | step reached, files, schedule | interactive, offline, scheduled, orchestrated | every step in order, no execution below threshold; the caller is told the truth |
| Air-gapped commands | `cli/commands/offline.js`, `cli/commands/sign.js` | none: what people carry about | freeze, decode, sign, execute | what counts as signed was signed |
| Coordination transport | `shared/CoordinationTransport.js` | peers, queues | join, broadcast, receive | messages reach every peer in a session |
| Transaction decoding | `shared/transaction-decoder/`, `shared/tx-size-estimator.js` | none | decode, compare with claims, estimate | the policy sees what moves (the comparison with claims is not modelled: section 5) |
| Node selection | `shared/node-selection.js`, `dapp/lib/node-selection.ts` | none | choose nodes, order them by health | the likeliest node first, none lost |
| Key management | `keyManagement/` | key files | load, encrypt, validate | file and prompt I/O |
| dApp, participant | `dapp/app/session/[id]/page.tsx`, `dapp/hooks/useSigningSession.ts`, `dapp/lib/websocket-client.ts`, `dapp/components/TransactionReview.tsx` | the page's step, the hook's state, the client's socket and timers, what waits for the wallet | join, review, approve, reject, leave | what is sent was approved; no timer brings back a page that was left |
| dApp, coordinator | `dapp/app/create/page.tsx`, `dapp/hooks/useCoordinatorConnection.ts`, `useTransactionInjection.ts`, `useTxHistory.ts`, `useMirrorPoll.ts`, `dapp/components/create/SessionMonitor.tsx` | the page's step, injections under way, the monitor, the browser's history | connect, inject, reset, follow | the history is true; no wait is endless |
| CLI, UI, scripts, examples | `cli/`, `ui/`, `scripts/`, `examples/`, `completions/` | none to speak of | drive the library | I/O and presentation |

### How they interact

Clients and server exchange JSON messages over one WebSocket each; a close event
is the only notice of a lost peer. `WebSocketServer` calls
`SigningSessionManager`, which calls a store (`SessionStore` in memory, or the
Redis one). `WebSocketServer` also writes the session object the store returns:
injection, expiry and rejection assign its fields directly. The server and the
manager share the per-session promise chain (`_signatureLocks`); expiry and
cleanup run from `TimerController`. Embedding programs call the manager directly
(`injectTransaction`, `cancelSession`, `executeTransaction`, event handlers).

### What is hard

* A session's fields are written by six handlers, the lock holder, the expiry
  timer and the cleanup interval, and only submission and execution take the lock.
* An execution holds the lock for seconds (network, then mirror polling) while
  every other message is still processed.
* An accepted signature leads to an execution *after* the lock is released, in
  competition with EXECUTE_TRANSACTION and with `onThresholdMet` handlers.
* The timer of one transaction, the 120 s window and the session's own expiry
  are three clocks; any may go off at any moment.
* Answers (signature, rejection) do not name the transaction they answer.
* Participants come back with a token for an entry that may be gone.
* A client's reviews overlap: decoding, a prompt and signing all wait while
  further offers and withdrawals arrive.
* In the browser, messages change state at once and effects follow later; a wallet
  answers when its person does, with the page long at something else.
* Redis, mirror nodes, the network and the people between air-gapped commands
  answer late, twice, wrongly or not at all.

## 2. Modules

| Module | What it is |
|---|---|
| `MultisigCeremony.tla` | abstract specification: offers, approvals, hand-over to the network |
| `SigningServer.tla` | one session on the in-memory store: record, lock, execution, timers, sockets; its properties, its fairness, its refinement mapping |
| `MCSigningServer.tla` | the instance TLC checks (symmetry) |
| `SigningServerProofs.tla` | theorems about `SigningServer`, for every value of its constants |
| `ParticipantRegistry.tla` | who takes part: entries, counters, tokens, the socket maps, what each socket's closure remembers |
| `ParticipantRegistryProofs.tla` | theorems about `ParticipantRegistry` |
| `Reconnection.tla` | the signing clients composed with `ParticipantRegistry` over connections that drop |
| `MCReconnection.tla` | the instance of the two runs that show a violation |
| `MCConnections.tla` | its instance together with the registry alone, under any clients, and with `SessionPage` |
| `ReconnectionProofs.tla` | theorems about `Reconnection`; that it implements `ParticipantRegistry` |
| `AuthRateLimit.tla` | the limits on failed AUTH messages, and the records that AUTHs under way share |
| `RedisSessionStore.tla` | one session in Redis and in the fallback map, under overlapping requests, outages and its time to live |
| `SessionTable.tla` | the in-memory table of sessions: limit, deadlines, announcement, deletion |
| `ServerProcess.tla` | the server as a process: start, tunnel, heartbeat, stop |
| `ClientReview.tla` | what the two Node clients do with offers, one after another or at once |
| `TransactionReview.tla` | decoded transactions overlaid on claims, the agent's policy |
| `LocalCeremony.tla` | freeze, collect, verify, execute in one process: interactive, offline, library |
| `AirGapped.tla` | `offline freeze`, `sign`, `offline execute`, and what is carried between them |
| `ScheduledSigning.tla` | a scheduled transaction and the commands that sign it |
| `MirrorPoll.tla` | the coordinator page's polling of the mirror node |
| `NodeSelection.tla` | the nodes a transaction is frozen for, in both copies of the code |
| `SessionPage.tla` | the participant's page: steps, hook, browser client, review, wallet |
| `CoordinatorPage.tla` | the coordinator's page: connection, injections, monitor, history |
| `MCParts.tla` | the instance TLC checks of the twelve from `AuthRateLimit` on, without `SessionPage` |
| `ServerPartsProofs.tla` | theorems about `RedisSessionStore`, `SessionTable`, `ServerProcess`, `AuthRateLimit` |
| `ReviewProofs.tla` | theorems about `ClientReview`, `TransactionReview` |
| `CommandProofs.tla` | theorems about `LocalCeremony`, `AirGapped`, `ScheduledSigning` and `NodeSelection` |
| `DappProofs.tla` | theorems about `MirrorPoll`, `SessionPage`, `CoordinatorPage` |
| `PartsProofs.tla` | that `MCParts` implements each of its parts, and what holds of the whole for that reason |

`SigningServer` and `ParticipantRegistry` are two views of the same handlers. The
first keeps what concerns the transaction and takes any message at any time; the
second keeps what concerns connections and reduces the transaction to `offered` and
`signers`. `Reconnection` extends the second and runs one of its actions per message.

### SigningServer: variables and code

| Variable | Code |
|---|---|
| `status`, `frozenTx`, `part`, `scheduled` | `session.status`, `.frozenTransaction`, `.participants` (each entry's status), `.mode === 'scheduled'` |
| `sigs` | `session.signatures`, a map from the key as the client spelt it; its value here is the transaction the signature verifies against |
| `window` | `session.transactionReceivedAt`: unset, less than 120 s ago, more |
| `timer` | `session.expirationTimerId`, as the round it was armed for |
| `life` | before `expiresAt`, past it, deleted from the store |
| `handlers` | the session has an `onThresholdMet` handler in `eventHandlers` |
| `round` | number of injections so far; names the transaction on offer |
| `socks`, `coord` | open sockets by the id their closure holds; a coordinator socket |
| `decoding` | injections awaiting `SharedDecoder.decode` |
| `queue`, `phase`, `running` | the promise chain `_signatureLocks`, and what the execution at its head awaits |
| `conts` | `_handleSignatureSubmit` calls past `submitSignature` that have yet to call `_handleExecuteTransaction` |
| `submitted`, `accepted` | history: what was handed to the network, which rounds had a receipt |

Each action is one handler, promise job, reply or timer; `PROJECT.json` gives the
lines of each. Statuses `connected`, `ready`, `reviewing` and `signing` of a
participant are all `active`: they differ only in presentation and counters.
`transaction-expired` is not a state an observer can find: the handler that sets it
sets `waiting` before it returns (the broadcast in between only reads).

**Granularity.** Node runs one event's callback and every promise job it leaves
behind before the next event. With the in-memory store no `await` in a handler
waits for I/O, so a handler is atomic with respect to other events, and actions
that are events require `Quiescent`. What suspends is kept apart: waiting for the
lock, the network and mirror calls, decoding, and the continuation of
`_handleSignatureSubmit`. Promise jobs that are ready together
(submissions that resume, continuations) may run in any order in the model;
the engine's order is one of those. Two messages arriving in one TCP segment are
emitted by `ws` one after the other; their promise jobs could alternate, and
that alternation inside one handler is not modelled. With Redis every store call
is I/O and this argument fails: that store has a module of its own (`RedisSessionStore`).

**Settle.** Every broadcast reads the session through `getSession`, which marks a
session past `expiresAt` as `expired`, even one that is `completed`. `Read` and
`Settle` carry that into each action that broadcasts.

**Abstractions.** Statistics counters, wire formats and logging are left out.
A signature is the transaction it verifies against; verification is the equality
`job.tx = frozenTx`. Keys are the strings clients send, as in the map. `KeyPairs` says which of
them spell one key (DER or raw hex, either case, with or without 0x): `isKeyEligible`
compares key pairs, as `toRawPublicKeyHex` makes it do, while `sigs` and the check for a
second signature go by the string, as in the code. A failure while the transaction is being
rebuilt, before `signedTx.execute`, is counted as `NetworkRefuses`: the ledger
`submitted` then has an entry too many, which makes its properties stronger.
`verifyOnMirror: false` is `MirrorDone` at once. `HandleStatusUpdate` takes whatever status the
client names; 'signed' and 'rejected', which clearTransactionState resets and a
disconnection does not prune, are then `claimed`, told apart from the
'signed' of an accepted signature only for the sake of `NoStaleSignedStatus`; any other
string counts as `active`. One coordinator socket and one injection being decoded at a time.

### ParticipantRegistry: variables and code

| Variable | Code |
|---|---|
| `entry` | `session.participants`: status and `keysLoaded`; `NoEntry` when the map has none |
| `connected`, `ready` | `session.stats.participantsConnected`, `.participantsReady` |
| `tokens` | `session.reconnectionTokens`, as the number of tokens an id was issued: the last is the one stored |
| `state`, `pid`, `isCoordinator` | the server's end of a socket, and the variables of `_handleConnection`'s closure |
| `clients`, `coordinatorClient` | `WebSocketServer.clients`, and `coordinatorClients` for this session |
| `offered`, `signers` | a transaction takes signatures; `participantId` of each entry of `session.signatures` |

The session stays joinable and every key eligible. An id is drawn once
(`generateParticipantId` is random). A socket authenticates once, as every client
does. TRANSACTION_REJECTED marks the entry and clears all marks in one handler, so that a
`rejected` that stays is one a client named in a STATUS_UPDATE, which changes the entry and no
counter; of the strings it may name, those of `PARTICIPANT_STATES` that anything looks at.

### Reconnection: variables and code

`ws`, `held`, `hasPin`, `me`, `status`, `attempts`, `timer` are `this.ws`,
`connectionParams.reconnectionToken`, whether `connectionParams.pin` is there,
`participantId`, `status`, `reconnectAttempts`, `reconnectTimer` of each user's client;
`gone` is `intentionalDisconnect` or no attempt left. `sent` and `replies` are what is
under way on each socket, in order; `end` is the client's end of it. The constant
`Client` chooses among the three implementations, which differ in two ways:
whether `connect` keeps the token (`KeptToken`: only the browser client), and when
`attempts` is reset (at `open`, or at AUTH_SUCCESS in `SigningClient`).

The two ends of a connection close apart: `ClientDrops` and `ServerDrops` (a lost
network, or the heartbeat's `terminate`) close one, `ServerLearns` and
`ClientLearns` later the other, and a close may be handled before or after what was
still under way is served. So an old socket may close after its successor
authenticated. The browser client refuses to send on a closed socket; the Node
clients' `ws` drops such a message silently, which `ClientReview` has. What broadcasts do to `status` is left out.

### AuthRateLimit: variables and code

`attempts` is the map `authAttempts`, whose values are objects: `record` is what each
object holds (`count`, `left` of the counting window, `block` left), `auth` an AUTH
between `_checkRateLimit` and its recording, with the object it captured, and
`sessionLimit` the entry of `sessionAuthAttempts`. `suspends` tells a store that
answers from I/O, where other AUTHs come between the check and the recording, from
the in-memory one, where none can. Time is one tick for all that runs down.
An object nothing refers to any more is made fresh, which is garbage collection.
`missed` is history: the failures of an address within the last window's length since its
last success, on the in-memory store.

### RedisSessionStore: variables and code

`redis` and `sessions` are the two copies; `work` is a request that has loaded its copy, or
has changed it and waits for SETEX (`saving`, or `refused` for a time to live of zero, computed
when SETEX is sent, not when Redis gets it). Redis evicts by a time to live that was
rounded up, so `RedisEvicts` is a step of its own after the five minutes; `kept` is
history: signatures saved while only requests with the lock were under way. `connected` is `redisConnected`; `age` and
`bounded` are what is known of `expiresAt`. The fallback hands out its own object,
which is why `LoadFromFallback` changes it at once; Redis hands out a copy. Locking
operations keep one another out (`MayBegin`), the others overlap with everything.
`inject` is `injectTransaction`, `clear` is `clearTransactionState`, `execute` and
`complete` are `updateStatus` with and without the lock.

### SessionTable, ServerProcess: variables and code

`table`, `deadline`, `socket`: each session's record, how far its `expiresAt` is, and
whether its participant's socket is the one the record holds (`first`) or one that
came back with a token (`later`), which the announcement of the expiry does not find.

`phase` follows `start()` and `stop()` from `await` to `await`; `timers` are
`rate-limit-cleanup` and `ws-heartbeat` in `TimerController`; `conn`, `isAlive`, `owes`
the sockets, their flags and the pings without a pong; `manner`, constant, is
whether a peer answers pings and what `Origin` it sends. A heartbeat takes place when
all who are prompt have had their time to answer. The embedding command calls
`stop()` after `start()` has resolved.

### ClientReview, TransactionReview: variables and code

`review` is where `_onTransactionReceived` is with each transaction it was offered;
the handler is asynchronous and nobody waits for it, so several run at once.
`prompt` is `_activePromptRl`, `mood` is `this.status`, `line` the socket and whether the
process still runs: `rejectTransaction` without a socket throws, also in the error
handler, and the unhandled rejection ends the process. `said` and `refused` are
history. `inbox` and `outbox` are the two directions of the connection; a rejection
carries, for the property only, which review it comes from. `offered` stands for the
session in the server, which verifies a signature against it; what an accepted one
does is in `SigningServer` and changes nothing here.

`judged` is the offer an agent is deciding on, `stamps` is
`RateLimitRule.approvalTimestamps`, each told apart by a number (`Now` takes one that is
free) and with its age, `approvals` history. A transaction is its type
and what it moves, at most one movement of each kind, since every rule and check goes
through its list element by element. Details and claims are overlaid as
`{...metadata, ...decoded}` does, where a field without movements is absent.

### LocalCeremony, AirGapped, ScheduledSigning: variables and code

`flow` chooses among `InteractiveWorkflow.run`, the phases of `OfflineWorkflow`, and
the core classes called in turn; they differ in when they look at the time, verify
and give up, which `Kept`, `CollectionStands`, `CollectionMayFail` and `AttachedAs` say.
`step` is where the flow is; `frozenFor` and `countdown` the age of the freeze and the
interval that watches it; `network`, `polls`, `confirmed`, `audit`, `outcome` follow
`TransactionExecutor.execute`. Two faults of the code are in the model as they are:
`OfflineWorkflow` attaches as hexadecimal what it verified as base64, and both
workflows leave out the `frozenAt` that the audit entry needs (section 5).

In `AirGapped` a printout is the transaction and whether the next command can read it;
a tuple is the key it names, who made it, over what, and how many signatures it
carries. `desk` follows the questions of `sign`, `command` an `offline execute` whose
threshold is met. `MiscopyTuple` cuts or renames a tuple, `BeginSigning` may be given
any transaction. `TransactionFreezer.fromBase64` returns no transaction object, so
`DecodeText` and the submission in `ExecuteEnds` always fail, as they do in the code.

In `ScheduledSigning` `schedule`, `signatories`, `waits` are the network's, `creation`
and `told` what the commands report, `signing` an answer under way. `Ledger` is the
network's rule for a signature; `Reports` is what `signSchedule` makes of each answer.

### MirrorPoll, NodeSelection: variables and code

`target`, `reqId`, `preDelay`, `interval`, `tries`, `pollPhase`, `found` are the hook's
arguments, refs, timers and state; `requests` are fetches under way. `MaxLate` polls
beyond the limit stand for those the interval sends before the last answers.

`stage` follows `selectNodeAccountIds` and `orderByHealth`; `picked` is what the strategy
chose and `ordered` the order so far; `book` and `recent` record what the mirror node
said, for the property. Shuffling is the choice of any permutation.

### SessionPage: variables and code

`pageStep` is `currentStep` of the page; `pageStatus`, `slot`, `planned` are `state.status`,
`state.transaction.frozenTransaction` and whether `state.schedule` is set in
`useSigningSession`; `view` is what `TransactionReview` shows. `joins`, `joining` are the
page's refs of its own tries; `pageLine`, `reconnecting`, `reattempts`, `retry` the browser
client's socket, `isReconnecting`, `reconnectAttempts` and `reconnectTimeout`; `own` says
that the promise which this socket's `connect` settles is the page's, `behind` that the page
waits for that of a socket which the client has replaced since. `inSession` is
`state.connected`. `reach` and `pageIn` are
what of the server's messages gets to this page. `wallet` are the requests a wallet has
yet to answer; `approvedTxs`, `submittedTxs` are history.

A message changes the hook in one step and `FollowHook` moves the page in another, so
that others come between, as with React's effects. `WalletSigns` uses the transaction
that `handleApprove` closed over, whatever the hook holds by then. `Render` restarts
the decoding when the transaction shown is another. The server is what it has on
offer; any offer may be withdrawn, executed or replaced at any time. A socket that the
client has replaced by a newer one while it was still open is left out, apart from
what still arrives on it and its failure, which rejects the page's connect
(`ReplacedFails`). `PressDisconnect` hangs up and then waits for the wallet, with the page's
effects running; a socket that is closed while it is being set up fails, and rejects the
connect as well (`ClosingFails`). `LeavePage` is the end of the page, whichever way it comes. Reconnection in detail, with tokens, is `Reconnection`'s; here
it is what becomes of the page. Signing a schedule is one request to the wallet, which
executes it itself.

### CoordinatorPage: variables and code

`coordStep`, `injecting` are the page's `step` and `isInjecting`; `coordLine`, `connecting`
the socket in `wsRef` and the promise of `connect`; `preparing` the injections whose
`inject` has not yet sent (node selection, freezing, the wallet's schedule), `awaiting`
those whose promise waits for an answer, `toSchedule` those with `scheduleOptions`;
`history` the entries in `localStorage`; `monitor` the fields of `SessionMonitor` that decide
anything. `held` is the session at the server with the execution under way, which
goes on when its transaction is replaced or dropped.

As in the code, an answer is any message of its kind, whoever it is to, and a message
without an id falls to the id the monitor remembers. An injection whose transaction
is past its validity is answered by TRANSACTION_EXPIRED only, and waits for its timer.
A send on a closed socket does nothing. `InjectsNothing` is the hook's silent return.

### MCParts

These twelve share nothing but what other modules have already: the sums of their
states would be multiplied in a product and add nothing. `MCParts` therefore puts
them side by side, and a behaviour exercises one of them, chosen at the start by
`part`, while the others keep one initial state. Fairness is each module's own,
for the part that runs. `MCConnections` does the same for the participant's page, the browser
client and the registry: the page and the registry by itself run in behaviours in
which the users of `Reconnection` have left before they connected.

## 3. Properties

| Property | Says | Run | Proved |
|---|---|---|---|
| `TypeOK` | types; `status` is a declared state | ServerSafety | `TypeCorrect` |
| `SignaturesMatchTransaction` | the signatures held are of the transaction held, by eligible keys | ServerSafety | `SignaturesMatch` |
| `ExecutingIsUnderWay` | 'executing' only while an execution waits for the network | ServerSafety | `ExecutingUnderWay` |
| `TimerMatchesTransaction` | an armed timer is that of the transaction on offer | ServerSafety | `TimerMatches` |
| `NoStaleSignedStatus` | no more participants that the server marked 'signed' than signatures held | ServerSafety | `NoStaleSigned` |
| `ImplementsCeremony` | refinement of `MultisigCeremony` | ServerSafety | `Refinement` |
| `StatusMatchesTransaction` | status and transaction agree | ServerLifetime | `StatusMatches` |
| `SubmissionsApproved` | what goes out carries Threshold verified signatures, each under a spelling of an eligible key | ServerLifetime | `OnlyApproved` |
| `SubmittedOnce` | no injection goes out twice | ServerLifetime | `AtMostOnce` |
| `SubmittedIsClosed` | a round that went out takes no signature | ServerLifetime | `ClosedOnceSubmitted` |
| `LockReleased` | the lock is always given back | ServerLiveness | |
| `ThresholdLeadsToSubmission` | enough signatures lead to a submission | ServerLiveness | |
| `NoTransactionLingers` | an offer with a known expiry ends | ServerLiveness | |
| `ConnectionsTypeOK` | types of registry and page; the ready count is never negative | Connections | `TypeCorrect`, `PageTypeCorrect` |
| `ConnectedCountExact` | `participantsConnected` is the number of entries | Connections | `ConnectedCorrect` |
| `RegisteredIsLive` | the socket maps hold open sockets of the right owner | Connections | `RegisteredCorrect` |
| `TokenAgreed` | client and server agree on token and id | Connections | `TokenAgreedAlways` |
| `Rejoins` | a client that lost its connection gets back in | Connections | |
| `PartsTypeOK` | types of the twelve components, the table's limit among them | Parts | `PartsTypeCorrect` |
| `FailuresBounded` | an address fails at most twice `maxAttempts` times within a window's length (in-memory store, block longer than the window) | Parts | `FailuresBoundedAlways` |
| `FallbackIsLastResort` | unless Redis fails, nothing goes to the fallback before the session's five minutes past its deadline are over | Parts | `FallbackIsLastResortAlways` |
| `SignaturesKept` | a saved signature is lost only to a request without the lock that was under way | Parts | `SignaturesKeptAlways` |
| `ServerSettles` | `LockoutsEnd`: a block of an address and a session's lockout end, however often one tries; `ExpiredLeaves`: a session with a deadline leaves Redis for good, and the fallback unless completed; `RoomAgain`: a full table gets room, unless what is in it is unbounded or completed | Parts | |
| `PromptPeersKept` | the heartbeat cuts off nobody who answers in time | Parts | `PromptPeersKeptAlways` |
| `SilentPeersLeave` | it does cut off those who do not | Parts | |
| `StartAndStopEnd` | start and stop come to an end, and stop leaves no timer | Parts | |
| `SignedWasApproved` | a signature that goes out is of a transaction that itself was approved | Parts | `SignedWasApprovedAlways` |
| `ClientsSettle` | `ReviewsEnd`: every review ends, in an answer or without; `PollingEnds`: polling ends, with errors only as well; `CoordinatorWaitsEnd`: connecting and waiting for an answer end, also on a socket that has closed | Parts | |
| `ApprovedWithinPolicy` | whatever is claimed, an approved HBAR transfer is within the rules | Parts | `ApprovedWithinPolicyAlways` |
| `ApprovalsPerHour` | no more approvals within an hour than the limit | Parts | `ApprovalsPerHourAlways` |
| `AnnouncedExpiryStops` | a ceremony that announced its expiry submits nothing | Parts | `AnnouncedExpiryStopsAlways` |
| `ThresholdVerified` | what is submitted carries enough verified signatures, in all three flows | Parts | `ThresholdVerifiedAlways` |
| `OutcomesTrue` | a success told, logged or confirmed is one | Parts | `OutcomesTrueAlways` |
| `CountedSigned` | what `offline execute` counts was signed by that key, over that transaction | Parts | `CountedSignedAlways` |
| `SignersToldTrue` | what `schedule sign` told stays true | Parts | `SignersToldTrueAlways` |
| `RecordIsCurrent` | the record shown is that of the transaction polled for | Parts | `RecordIsCurrentAlways` |
| `SubmittedWasApproved` | the browser sends a signature only of a transaction for which Approve was pressed | Connections | `SubmittedWasApprovedAlways` |
| `HungUpForGood` | after the client has hung up, no timer, message or button connects it; the page may, from wallet-connect | Connections | `HungUpForGoodAlways` |
| `HistoryTrue` | the coordinator's history names only what was sent, and SUCCESS only of what the network executed | Parts | `HistoryTrueAlways` |
| `LivelyFirst` | no node is lost; none known to be silent precedes one that was seen, no unhealthy one a healthy one of no worse known activity | Parts | `LivelyFirstAlways` |

## 4. Runs

| Run | Instance | Shows |
|---|---|---|
| ServerSafety | 2 participants, 2 keys, threshold 2, 2 transactions, 2 injections, 2 lock jobs, unbounded session | safety and refinement under every order of injection, signing, rejection, expiry, reset, cancellation and execution. Two participants and two keys are what it takes for a signature to be collected while another handler withdraws the transaction; two rounds for state to leak from one to the next; two jobs for an execution and a submission to wait behind one another. 1,340,118 states |
| ServerLifetime | one participant (an agent), a key in two spellings, an ineligible key, threshold 1, `onThresholdMet` handler, manager injections, session that expires and is deleted | the ledger's properties when three parties ask for the same execution and the session ends meanwhile. Deadlock is not checked: a deleted session whose sockets have closed rightly stops. 2,065,536 states |
| ServerLiveness | one participant with two keys, threshold 2, FairSpec | progress. 162,220 states |
| Connections | three groups of behaviours, 725,220 states in all | *the browser client*: 1 user, 4 sockets, 2 connections lost, a coordinator, fairness; two losses are what it takes for an abandoned AUTH, its successor and a late close to overlap. `MCReconnection` assumes that every attempt has a socket. *The registry*: when that user has left at once, 3 ids and 3 of the sockets, of clients that send anything: one takes over an id while the socket before is open and a third joins meanwhile, or is the coordinator's; sockets close in any order. *The page*: see below. Deadlock is not checked: a user who left and a coordinator with nothing on offer may rest |
| AgentReconnects | 1 agent, 1 loss, 2 attempts | **violation**: the agent cannot come back |
| RejoinedWithoutEntry | 1 browser user, 1 loss | **violation**: back in the session without an entry |
| FailureTerminal | as ServerSafety | **violation**: a failed session returns to `waiting` |
| CompletedWrongly | as ServerSafety | **violation**: `completed` for a transaction that never went out |
| Parts | the twelve components of `MCParts`, 121,646 states in all | see below. Deadlock is not checked: ceremonies, commands and a stopped server end |
| StalePromptRejects | 2 transactions, 1 client | **violation**: a prompt that is closed because a newer transaction came rejects the newer one |
| OneKeyTwice | 1 participant, 1 key in 2 spellings, threshold 2 | **violation**: one key fills both places |
| AutoExecuteStalls | autoExecute set, FairSpec | **violation**: the execution waits for the lock its own submission holds |

`MaxReady` bounds the ready count, which drifts upwards when participants sign and get
ready again; `MaxDrops` and `MaxSent` bound losses and messages under way. `MaxAttempts`
is the code's own. `MaxRounds`, `MaxQueue` and `MaxSocks` bound injections, jobs waiting for the lock
and sockets per participant; they only cut behaviours short. The proofs hold for
every value of them.

**Bounds of Parts.** Each part is as small as its hazards allow:

* AUTH limits: one address, two AUTHs at once and three records, so that one AUTH
  holds a record that the other has had replaced; two failures make a block, which
  outlasts the window, and three the session's lockout. Twice `maxAttempts` failures are
  reached by one window's attempts and the next's.
* Redis: one member, two requests, one outage; a read that marks the session, a signature
  under the lock and a completion under the lock are what overtake one another here. The
  others (`join`, `leave`, `ready`, `reject`, `inject`, `clear`, `execute`, `cancel`) are in
  the module, and the proofs are about any of them.
* Table: two sessions for one place. Process: one peer, prompt or silent, with each
  tunnel option and list of origins.
* Reviews: two transactions, so that one replaces the other at any stage.
* Policy: two accounts, one allowed; two amounts, one above the limit; one approval
  per hour of two ticks.
* Ceremony: two keys, three signers (so one key may sign twice), threshold 2.
* Air-gapped: two transactions, two keys, one tuple in circulation, given up to twice:
  a threshold of 2 is then met by the repeated tuple, which the code lets pass.
* Schedule: two signers, both needed, each of whom runs the command twice.
* Polling: two runs, two polls each and a late one. Nodes: three, one of them not of
  the network, three endpoints.

* Coordinator's page: two transactions, each injected, scheduled or another
  coordinator's; one message under way, so that each waits for the one before.

**The page in Connections.** Two transactions, so that one replaces the other while the wallet
is busy (a schedule takes the place of one of them); one connection that fails, is
refused or is lost, one reconnection of the client, two tries of the page (the code
has three), one message under way.

`MaxOutages`, `MaxTuples`, `MaxSigns`, `MaxRuns`, `MaxLate`, `MaxListed`, `MaxBreaks`, `MaxNews`
and `MaxCoordNews` only cut
behaviours short; the rest are the code's own parameters, made small.

**Fairness.** `FairSpec` assumes that promise jobs run (weak fairness of the
lock's jobs: they are ready until they run), that network calls and mirror
polling settle (the SDK and `verifyExecution` bound their attempts) and that an
armed timer goes off. The last three are strong: they are events, so they
are disabled whenever promise jobs are pending, but each turn of the event loop
serves every queue in which something is ready. Nothing is assumed
of people: no participant has to sign and no coordinator has to ask.

`FairReconnection` assumes that a client's due timers and socket events run, that a
message on a connection that stays up is served, and that the other end of a
closed connection gets to know (TCP, or the heartbeat). No connection has to
drop, and no user has to press a button. `Rejoins` excepts a client that was told
to leave or has no attempt left, and one whose newest token was in a reply that
got lost: the server has replaced the token the client still holds, the PIN is
deleted, and nothing in the repository promises a way back.

In `MCParts` each component has the fairness its own module states: time passes
(strongly, for the rate limits, where an AUTH under way holds it back for an
instant), intervals and timers fire, a request whose load or save is answered goes on, Redis
evicts in the end, calls to Redis, the tunnel, the mirror node
and the decoder settle, a socket that was cut off closes, and a client goes on
with a review it has begun. A person at a prompt answers in the end; `Decide` is
the only assumption about people, and `ReviewsEnd` needs it. The coordinator's page has
its two timers (10 s to connect, 15 s for an answer), which are set before the wait
begins and cleared only by what ends it; of its server and the network nothing is assumed.
Nor is anything assumed of ceremonies, commands, node selections and the participant's
page, which have safety properties only.

## 5. Findings

1. **`execution-failed` is not terminal** (FailureTerminal). `shared/protocol.js:114`
   declares it so. `_handleTransactionExpired` spares only `completed`, and
   `_handleTransactionRejected` looks at no status: either puts a failed session
   back to `waiting`. The timer of the failed transaction does so by itself.
2. **`completed` can refer to the wrong transaction** (CompletedWrongly). Injection
   is accepted during `executing`; the success of the first transaction then
   marks the session `completed` while it holds the second, whose signatures
   are refused from then on.
3. **`autoExecute` never executes** (AutoExecuteStalls). `submitSignature` awaits
   `executeTransaction` before its `finally` releases the lock the execution is
   chained behind. Every later submission and execution waits too.

4. **Node clients cannot reconnect** (AgentReconnects). `connect` starts
   `connectionParams` over without the token, and the PIN was deleted when the
   token came; the AUTH that follows has an empty PIN, is refused, and the socket
   stays open, so no further attempt is made. `docs/AGENT_INTEGRATION.md:308` says
   the token is used. The browser client passes it through, and Connections
   shows that this suffices.
5. **A token outlives its entry** (RejoinedWithoutEntry). A participant that
   disconnects before it signed is pruned, but its token is still accepted; it is
   then connected and cannot get ready or sign, where
   `docs/COORDINATOR_GUIDE.md:789-791` says it need only sign again.

6. **A prompt that is closed rejects the newer transaction** (StalePromptRejects).
   When a second transaction is to be asked about, `SigningClient` closes the
   question about the first, which then counts as "not approved"; the rejection
   names no transaction, and the server aborts the one on offer, though nobody has
   refused it. `server/WebSocketServer.js:1620` takes a rejection for a signer's own.

7. **One key may count twice** (OneKeyTwice). `SigningSessionManager.js:496` asks in the
   canonical form whether a key is eligible, and 501 asks with the string as it was sent
   whether it has signed already. The same key as DER and as raw hex has two entries, and
   a threshold of two is met by one key pair, where `docs/SECURITY_ARCHITECTURE.md:209` says
   that a key's second signature is refused. `OneSignerEach` proves that this is all: where
   every key has one spelling, Threshold signatures are those of Threshold keys.

Further disagreements met while modelling, which no run shows. The modules have them
as the code has them, unless the entry says that they are left out, and no property is stated
that they would break:

* *Status by request* (`WebSocketServer.js:970`): STATUS_UPDATE sets whatever status a client
  names, 'signed' included, without a signature or a counter; it is shown to all until the
  next reset. `NoStaleSignedStatus` is about the marks the server made. No client of the
  repository sends it.
* *A block shorter than said* (`WebSocketServer.js:98-105`): the sweep forgets an address whose
  counting window is over, be it blocked or not, so that the "5 minute block" of line 60
  ends with the next sweep; and on a store that suspends, an AUTH that was under way
  puts back the record it had captured, or deletes it after others have failed.
  `FailuresBounded` says what is left on the in-memory store.
* *What a claim is compared with* (`shared/transaction-decoder/index.js:784-802`, `893-899`; left
  out): an NFT's '-1 NFT (serial: 15)' is stripped to -115 and matches a claim of 115; an
  amount claimed as a number is not compared at all. `TransactionReviewer.js:75` marks
  `recipient` as matching although accounts are never compared.
* *Disconnect while connecting* (`page.tsx:398-408`, `806-814`; `websocket-client.ts:161-165`): the
  socket that is closed while it is being set up fails and rejects the page's connect,
  which puts the page back to wallet-connect; the wallet is still connected until its
  `disconnect` has come back, so the effect connects again (`ClosingFails`, `JoinByItself`).
  `HungUpForGood` therefore lets the page connect from there.
* *A second copy at the end* (`RedisSessionStore.js:633`): the time to live was rounded up when
  the session was last saved, so that a save that is refused for a time to live of zero
  goes to the fallback while Redis has the session for up to a second more.
  `FallbackIsLastResort` is about the time before.
* *Expiry unannounced* (`SessionStore.js:653`): if a read marks a session expired before
  the cleanup comes round, nobody is told, and its sockets stay open. `SessionTable`.
* *Lost updates with Redis* (`RedisSessionStore.js:207`, `WebSocketServer.js:1279`): two
  requests that load before either saves lose one change, an acknowledged signature
  as well (`SignaturesKept` says to which requests); and what handlers assign to the object the store returned is not saved.
* *Failure reported for an executed transaction* (`core/TransactionExecutor.js:220`):
  the audit entry reads `frozenAt`, which `InteractiveWorkflow.js:317` and
  `OfflineWorkflow.js:306` do not pass, and throws after the network has executed.
  `OutcomesTrue` therefore only says that a success told is true.
* *The offline workflow never executes* (`OfflineWorkflow.js:300`): base64 signatures
  are decoded as hexadecimal and a string is passed for a key.
* *`offline decode` and `offline execute` always fail* (`core/TransactionFreezer.js:160`),
  where `GETTING_STARTED.md:265` and `TREASURY_GUIDE.md:217` show them in use; a threshold
  that is not a number passes its check, and a tuple given twice counts twice.
* *Piping `offline freeze`*: `sign` and `decode` take a line of the frame for the
  transaction; `sign --json` prints lines that are not JSON.
* *Orchestrator* (`workflows/WorkflowOrchestrator.js`): `execute()` stops in its `finally`
  the server it has just injected into; a second `createNetworkedSession` leaks the
  first server; a crash leaves `.multisig-session` behind.
* *useMirrorPoll*: stopping does not change `reqIdRef`, so a late answer may end a page
  that has stopped; a late "not found" turns `confirmed` into `timed-out`; more
  polls than `MAX_ATTEMPTS` are sent. Hence `RecordIsCurrent` speaks of a page that polls.
* *Participant's page* (`dapp/app/session/[id]/page.tsx`): a transaction injected while the
  wallet is signing an earlier one is never shown, where line 1100 says "we'll show it
  the moment it arrives"; "Wait for next transaction" on a completed one leads back to it
  (322); TRANSACTION_EXECUTED of an earlier transaction hides a newer one; TRANSACTION_RESET
  is unknown to the browser client; nobody listens to SIGNATURE_REJECTED, so that a
  refused signature is shown as "signed"; a schedule that was once announced is what
  Approve signs from then on.
* *The review shown* (`TransactionReview.tsx:128`): decoding is not cancelled, so a slower
  one of an older transaction may be shown while Approve signs the newer, where
  `page.tsx:1057` promises "exactly what you're being asked to sign". `SubmittedWasApproved`
  therefore speaks of the transaction Approve took, not of the one on the screen.
* *Reconnecting in the browser* (`websocket-client.ts:163`, `211`): nobody gets ready again, so
  the transaction on offer is not sent again; a second failure in a row settles no promise
  and the page waits; the timer is not cleared by a try of the page that succeeds, and
  reconnects over it. `useSessionRecovery.ts:5` promises to resume after a refresh, but no
  token is ever saved (`page.tsx:392`).
* *A late joiner of a scheduled session* (`useSigningSession.ts:224`) is set to review, and in
  the same breath to ready.
* *useTransactionInjection* (91, 486): it returns in silence when the socket has closed, and
  the page says "Transaction has been broadcast to participants." Answers are matched by
  type only, so that another coordinator's, or that to a try that timed out, ends the
  wait and puts a refused transaction into the history; a retry makes a second schedule.
* *SessionMonitor* (`SessionMonitor.tsx:539`): it takes a rejection to leave the transaction in
  flight, where `WebSocketServer.js:1620` aborts the ceremony; EXECUTION_FAILED and
  TRANSACTION_EXPIRED name no transaction (560), so that an entry stays PENDING
  or an executed one becomes FAILURE. `HistoryTrue` only says that SUCCESS is true.
* *SignatureVerifier*: one key that signs twice counts twice. `ThresholdVerified` counts
  signatures, as the code does. The countdown of `collectInteractive` cannot fire while
  `readline-sync` waits.
* *Node selection* (`shared/node-selection.js:169`, `mirror-node-client.js:250`): unknown
  activity is said not to disqualify a node, and yet a healthy node of unknown activity
  is put behind an unhealthy one that was seen (`LivelyFirst` leaves both open); the browser's copy
  ignores the mirror client for `all` and `specific`.
* *Scheduled signing*: a receipt lost after the signature counted is reported as a failure,
  and the repeated command is refused.
* *Start with a tunnel that fails* (`WebSocketServer.js:291`): `start()` waits for
  `server.close`, and so for every client that has connected meanwhile and stays.

## 6. Proofs

`SigningServerProofs` assumes what the constants' ASSUMEs say: a positive
threshold, finitely many keys, spellings that are each of one key pair, `NoTx` not a
transaction, Boolean options and natural bounds. The inductive invariant `IInv` has three parts, each preserved
given the ones before it:

* `TypeInv`: `TypeOK` and `LockHeld` (an execution that waits is the queue's
  head, so the `Tail` taken at its end is that of a non-empty queue).
* `SessionInv`: the four properties that relate status, transaction, signatures
  and timer, with `GoneIsExpired` (a deleted session is marked expired, which
  keeps `ExecutingIsUnderWay` when a reply arrives after deletion) and
  `OfferIsNumbered`.
* `LedgerInv`: `SubmissionsApproved`, `SubmittedOnce`, `SubmittedIsClosed` and
  `RoundsAreCounted`. `SubmittedOnce` alone is not inductive: a second
  execution is refused only because a round that went out is no longer in a status
  that takes signatures (`SubmittedIsClosed`), and `ThresholdMet` with
  `SessionInv` leaves no other status from which an execution may begin
  (`StartFacts`).

`UnsubmittedNext` classifies every action but `ExecutionStarts` by what the
ledger sees of it. `Refinement` maps injection to `Offer`, acceptance to
`Approve`, the paths back to `waiting` to `Withdraw`, `ExecutionStarts` to
`HandOver`, everything else to stuttering; `AppendView` shows that the mapped
ledger grows by the mapped entry.

`OnlyApproved` tells keys apart by their spelling, as the code does. `OneSignerEach` adds the
assumption that each key pair has one spelling: `Signers` is then in one-to-one correspondence
with the key pairs it meets, and `OneKeyOneSigner` follows, which fails without it (section 5).

`ParticipantRegistryProofs` assumes that ids are finitely many and `None` is
neither an id nor a socket. `TypeCorrect` rests on
`ClearedKeepsEntries`, `RejectionKeepsEntries` and `UpdateKeepsEntries`: what
clearTransactionState, a rejection and a STATUS_UPDATE leave is well typed and none of them
makes or prunes an entry.
`ConnectedCountExact` is inductive with `FreeHasNoEntry` (an id never issued has no
entry, else addParticipant would count one twice); `RegisteredIsLive` with
`ClosuresSettled` (a new socket has no role, no socket has two).

`NoStaleSigned` compares two cardinalities, that of the marks the server made (a status that a
client names is no such mark) and that of the signatures. What it says is inductive by itself (`MarksInv`,
with the finiteness of what is counted) once the actions are classified: all but an
accepted signature leave no new mark, and either keep the offer with its signatures,
drop the offer, or drop every mark (`UnmarkedNext`); an accepted signature adds one
mark at most and exactly one signature, because its key was not in the map.

`ReconnectionProofs` works with `TokenInv`, of which TLC has checked every part on
the browser client's instance: the types, and that

* a socket is used in order and by one client (`SocketsInOrder`);
* AUTH is the first message on a socket and the only one of its kind, and asks with
  the token its client still holds (`AuthOnce`);
* no token is newer than the server's, and the one a client was granted, in hand or
  under way, is the newest of its id, of which AUTHs under way elsewhere hold older
  ones (`TokensIssued`, `GrantIsNewest`);
* no two clients know tokens of one id (`TokensApart`), without which the reconnection
  of one would make the token of another old.

From the types alone follows `RegistryImplemented`, step by step: each step of the
composition is a step of `ParticipantRegistry` or leaves it alone. What is proved of the
registry then holds of it with its clients (`RegistryInvariantsKept`). `TokenAgreedAlways`
needs all of it, and one assumption that only says that `None` is not a token.

The four modules on the parts follow one pattern: an inductive invariant in named parts,
a lemma for Init, one for the step with a case per action, and the theorem.

* `FallbackIsLastResortAlways`, `SignaturesKeptAlways`: one invariant, `KeepInv`. Until Redis
  fails it is connected, and only a session past its five minutes, or a save refused
  for that, goes to the fallback (`Home`); at most one request at work has the lock
  (`OneLocked`); and the kept signatures are in Redis and in every copy on its way there,
  but for one that clears them or is refused (`Keeping`, `Preserves`). A signature becomes a
  kept one only when every other request at work would have the lock, and so there is none.
* `PromptPeersKeptAlways`: a prompt peer whose flag is down still owes its pong
  (`PromptOwe`), for which the heartbeat waits.
* `FailuresBoundedAlways`: on the in-memory store one AUTH is under way at a time, with the
  record of its own address alone (`Holds`, `Apart`). The failures of an address that are
  not older than a window are those its record counts and at most `maxAttempts` from before
  that record's window (`Accounted`); a record never counts more than `maxAttempts`, since a
  full one is blocked for longer than its window lasts (`Honest`). When the sweep forgets
  a record its window is over, so that only those it counted are left (`Few`):
  `BoundInv`.
* `SignedWasApprovedAlways`: approval is recorded when the review gets to `approved` and
  never withdrawn (`ApprovedWasSaid`); every signature under way was made in that stage.
* `ApprovedWithinPolicyAlways`: what the rules see has the HBAR movements of the
  decoded transaction, if it has any.
* `ApprovalsPerHourAlways`: every approval counted is a timestamp still remembered, and
  those are at most the limit (`RateInv`). That a new timestamp is told apart from the old
  ones is the pigeonhole principle (`NowIsNew`), that none gets lost in ageing a
  bijection (`RecentAges`).
* `ReviewTypeCorrect`: at most one review of each transaction takes place only because every
  offer still to come is of a transaction not reviewed yet, and different from the
  others to come (`OffersNew`); only then does a prompt stay about a review
  that waits for its answer.
* `AirTypeCorrect`, `CountedSignedAlways`: every tuple in circulation, miscopied or not,
  is over something its maker signed (`TuplesSigned`).
* `AnnouncedExpiryStopsAlways`, `ThresholdVerifiedAlways`, `OutcomesTrueAlways`: one invariant,
  `CeremonyInv`, whose parts say what holds while a flow collects, executes, and has
  told its caller.
* `RecordIsCurrentAlways`: fetches of one run are about one transaction, and those of
  the current run about the target (`RunsApart`).
* `SubmittedWasApprovedAlways`: the wallet is only ever asked for what was approved
  or for the schedule, and approval is not taken back (`ApprovedInv`).
* `HungUpForGoodAlways`: a step property; a client that has hung up has no timer set, also when
  a socket that it had replaced fails afterwards (`LineInv`), so that `JoinByItself` is the
  only step by which it connects.
* `HistoryTrueAlways`: what waits was sent, and every message under way that says executed
  is about something that was (`HistoryInv`), however many are under way.
* `SignersToldTrueAlways`: answers under way are as true as what was told (`AnswersTrue`),
  because an executed schedule stays executed and a signatory stays one.
* `LivelyFirstAlways`: `putFirst` moves nodes one at a time and keeps the rest in order; after
  n rounds (`Pushed`) the nodes chosen so far stand in front and all others are in the order
  they had (`PushedRounds`, `PutFirstOrders`), so that two passes order by activity first and
  by the address book second (`NodeInv`). Loops and counts are by induction over a number:
  a set of naturals with an element has a least one (`LeastNumber`), which gives
  `InductionUpTo` and, for a recursive function, that it is there (`LoopExists`).
* The type theorems, one for each part (`StoreTypeCorrect`, `TableTypeCorrect`,
  `ProcessTypeCorrect`, `LimitTypeCorrect`, `PolicyTypeCorrect`, `CeremonyTypeCorrect`,
  `ScheduleTypeCorrect`, `PollTypeCorrect`, `PageTypeCorrect`, `CoordTypeCorrect`). Where a type says
  more than what is assigned, the invariant has the reason: a request at work has a copy
  of the session (`StoreInv`), the table is finite, so that a session makes it no larger than
  its limit (`TableInv`), the first poll of a run has no try behind it (`PollTypes`), what
  executes is a transaction (`CoordTypes` with `HistoryInv`). The number of failed AUTHs in a
  record has no bound: where the window outlasts the block, attempts go on being counted
  after a block has ended.

`PartsProofs` is about the specification that the run Parts checks. A step of the whole is a
step of each part or leaves it alone (`WholeSteps`), so that every behaviour of the whole
is one of each part: `ServerSideImplemented`, `ClientSideImplemented`, `ToolsImplemented`. By way
of these the invariants of the parts hold in the whole: `PartsTypeCorrect` for all types,
`PartsSafe` for the fifteen other invariants of the run.

All rest only on the ASSUMEs of the modules' constants, which the runs evaluate.

Every invariant and every property of steps that a passing run checks is thereby a theorem
of the module that states it (`ConnectionsTypeOK` is two modules' type invariants).
Only model-checked are the liveness properties (`LockReleased`, `ThresholdLeadsToSubmission`,
`NoTransactionLingers`, `Rejoins`, `ServerSettles`, `SilentPeersLeave`, `StartAndStopEnd`,
`ClientsSettle`): they rest on fairness, and so on ENABLED, which is outside the prover's reach.

## 7. Not modelled, and what is left

* *Workflow orchestrator*: it forwards to the workflows and the server, and what one
  would state of it fails at once (section 5).
* *Coordination transport*: an interface; one implementation forwards to the server, the
  other throws.
* *Key identity* (`keyUtils`, `crypto-utils`): parsing and hashing. That a key has several
  spellings, that eligibility is by key (`SigningSessionManager.js:496`) and a second
  signature by spelling (501), is in `SigningServer`.
* *Transaction decoding*: the comparison of claims with amounts (`validateMetadata`) is string
  matching (section 5), and no statement that holds of it for all transfers was found
  worth making; the display fields of twenty other types, and the size estimator, are
  translations without state.
* *dApp*: the forms that build transactions, wallet pairing, saved sessions, and what is
  only displayed.
* *Mirror node client*: its HTTP retries, prices and account queries.
* *Of the server*: HTTP endpoints, TLS, listings; `deleteSession` in Redis.
* *Of the clients*: scheduled offers and the events they only pass on.
* *Key management, CLI, UI, scripts, examples*: files, prompts, rendering and
  demonstrations, with no protocol state. Cryptography and SDK calls are external.

The mapped lines are those of code with control and state. Most of the repository's
lines are forms, components, rendering, command-line output, scripts, examples and
tests, so the share of all lines that the map covers stays small although the
server, the clients, the workflows, the stores and the dApp's two protocol pages are covered.

Left to do: `ClientReview` composed with `SigningServer`, so that late answers meet
executions.
