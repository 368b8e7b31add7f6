---------------------------- MODULE Reconnection ----------------------------
(***************************************************************************)
(* The signing clients and the registry, over connections that drop:       *)
(* connecting, authenticating, keeping the reconnection token, retrying.   *)
(*                                                                         *)
(* Each end of a connection learns of its loss on its own; what is under   *)
(* way in either direction may be delivered first or lost.  The server's   *)
(* half is ParticipantRegistry, one of whose handlers runs per message.    *)
(* A client whose socket is closed holds none, and sends only when online. *)
(***************************************************************************)
EXTENDS ParticipantRegistry, Sequences

CONSTANTS
  Users,       \* processes that run a signing client
  Client,      \* which client it is
  MaxAttempts, \* options.maxReconnectAttempts
  MaxDrops,    \* bound: connections lost
  MaxSent      \* bound: messages under way to the server on one connection

ASSUME ReconnectionClient == Client \in {"node", "agent", "browser"}
ASSUME ReconnectionBounds == {MaxAttempts, MaxDrops, MaxSent} \subseteq Nat
ASSUME ReconnectionUsers == None \notin Users
ASSUME ReconnectionTokens == None \notin [pid : Pids, number : Nat]

VARIABLES
  ws,        \* the socket a client holds
  held,      \* connectionParams.reconnectionToken
  hasPin,    \* connectionParams.pin is there and not empty
  me,        \* the client's participantId
  status,    \* the client's own status
  attempts,  \* reconnectAttempts
  timer,     \* reconnectTimer is armed
  gone,      \* intentionalDisconnect, or no attempt left
  end,       \* the client's end of each socket
  sent,      \* messages under way to the server
  replies,   \* messages under way to the client
  drops      \* connections lost so far

link   == <<end, sent, replies, drops>>
person == <<ws, held, hasPin, me, status, attempts, timer, gone>>
all    == <<vars, link, person>>

Auth(token, pin) == [type |-> "AUTH", token |-> token, pin |-> pin]
Other(type)      == [type |-> type, token |-> None, pin |-> FALSE]

Success(p, n) == [type |-> "AUTH_SUCCESS", pid |-> p, number |-> n]
Failed        == [type |-> "AUTH_FAILED", pid |-> None, number |-> 0]

Online(u) == status[u] \in {"connected", "ready", "signed", "rejected"}

ClientInit ==
  /\ ws = [u \in Users |-> None]
  /\ held = [u \in Users |-> None]
  /\ hasPin = [u \in Users |-> TRUE]
  /\ me = [u \in Users |-> None]
  /\ status = [u \in Users |-> "disconnected"]
  /\ attempts = [u \in Users |-> 0]
  /\ timer = [u \in Users |-> TRUE]
  /\ gone = [u \in Users |-> FALSE]
  /\ end = [s \in Socks |-> "none"]
  /\ sent = [s \in Socks |-> <<>>]
  /\ replies = [s \in Socks |-> <<>>]
  /\ drops = 0

-----------------------------------------------------------------------------
(* The client *)

\* connect: the Node clients start connectionParams over from their
\* arguments, which carry no token; the browser client passes it through.
KeptToken(u) == IF Client = "browser" THEN held[u] ELSE None

\* Which of the unused sockets stands for a new connection does not matter.
Unused == CHOOSE s \in Socks : end[s] = "none"

Connect(u) ==
  /\ timer[u]
  /\ \E s \in Socks : end[s] = "none"
  /\ timer' = [timer EXCEPT ![u] = FALSE]
  /\ ws' = [ws EXCEPT ![u] = Unused]
  /\ held' = [held EXCEPT ![u] = KeptToken(u)]
  /\ end' = [end EXCEPT ![Unused] = "opening"]
  /\ UNCHANGED <<vars, sent, replies, drops, hasPin, me, status, attempts, gone>>

\* 'open' at both ends: the client sends AUTH with the token, or else the PIN.
\* All but SigningClient count a connection as a success already.
Open(u) ==
  LET s == ws[u] IN
  /\ s # None
  /\ end[s] = "opening"
  /\ HandleConnection(s)
  /\ end' = [end EXCEPT ![s] = "open"]
  /\ sent' = [sent EXCEPT ![s] =
                <<Auth(held[u], held[u] = None /\ hasPin[u])>>]
  /\ attempts' = IF Client = "node" THEN attempts
                 ELSE [attempts EXCEPT ![u] = 0]
  /\ UNCHANGED <<replies, drops, ws, held, hasPin, me, status, timer, gone>>

\* Mutation: the token of the reply is not kept.
HandleAuthSuccessForgetting(u) ==
  LET s == ws[u] IN
  /\ s # None
  /\ end[s] = "open"
  /\ replies[s] # <<>>
  /\ Head(replies[s]).type = "AUTH_SUCCESS"
  /\ hasPin' = [hasPin EXCEPT ![u] = FALSE]
  /\ me' = [me EXCEPT ![u] = Head(replies[s]).pid]
  /\ status' = [status EXCEPT ![u] =
                  IF Client = "agent" THEN "ready" ELSE "connected"]
  /\ sent' = IF Client # "agent" THEN sent
             ELSE [sent EXCEPT ![s] = Append(@, Other("PARTICIPANT_READY"))]
  /\ attempts' = IF Client = "node" THEN [attempts EXCEPT ![u] = 0] ELSE attempts
  /\ replies' = [replies EXCEPT ![s] = Tail(@)]
  /\ UNCHANGED <<vars, end, drops, ws, held, timer, gone>>

\* _handleAuthSuccess: the token takes the place of the PIN.  The agent gets
\* ready at once (autoReady).
HandleAuthSuccess(u) ==
  LET s == ws[u] IN
  /\ s # None
  /\ end[s] = "open"
  /\ replies[s] # <<>>
  /\ Head(replies[s]).type = "AUTH_SUCCESS"
  /\ held' = [held EXCEPT ![u] = [pid    |-> Head(replies[s]).pid,
                                  number |-> Head(replies[s]).number]]
  /\ hasPin' = [hasPin EXCEPT ![u] = FALSE]
  /\ me' = [me EXCEPT ![u] = Head(replies[s]).pid]
  /\ status' = [status EXCEPT ![u] =
                  IF Client = "agent" THEN "ready" ELSE "connected"]
  /\ sent' = IF Client # "agent" THEN sent
             ELSE [sent EXCEPT ![s] = Append(@, Other("PARTICIPANT_READY"))]
  /\ attempts' = IF Client = "node" THEN [attempts EXCEPT ![u] = 0] ELSE attempts
  /\ replies' = [replies EXCEPT ![s] = Tail(@)]
  /\ UNCHANGED <<vars, end, drops, ws, timer, gone>>

\* AUTH_FAILED rejects the promise of connect and leaves the socket open.
HandleAuthFailed(u) ==
  LET s == ws[u] IN
  /\ s # None
  /\ end[s] = "open"
  /\ replies[s] # <<>>
  /\ Head(replies[s]).type = "AUTH_FAILED"
  /\ replies' = [replies EXCEPT ![s] = Tail(@)]
  /\ UNCHANGED <<vars, end, sent, drops, person>>

Send(u, type, newStatus) ==
  LET s == ws[u] IN
  /\ s # None
  /\ end[s] = "open"
  /\ Len(sent[s]) < MaxSent
  /\ sent' = [sent EXCEPT ![s] = Append(@, Other(type))]
  /\ status' = [status EXCEPT ![u] = newStatus]
  /\ UNCHANGED <<vars, end, replies, drops, ws, held, hasPin, me, attempts,
                 timer, gone>>

\* Only SigningClient looks at its status; the agent gets ready by itself.
SetReady(u) ==
  /\ Client # "agent"
  /\ IF Client = "node" THEN status[u] = "connected" ELSE Online(u)
  /\ Send(u, "PARTICIPANT_READY", "ready")

SubmitSignature(u) == Online(u) /\ Send(u, "SIGNATURE_SUBMIT", "signed")

RejectTransaction(u) == Online(u) /\ Send(u, "TRANSACTION_REJECTED", "rejected")

\* disconnect: on purpose, so without a retry.
Disconnect(u) ==
  LET s == ws[u] IN
  /\ ~gone[u]
  /\ gone' = [gone EXCEPT ![u] = TRUE]
  /\ timer' = [timer EXCEPT ![u] = FALSE]
  /\ ws' = [ws EXCEPT ![u] = None]
  /\ held' = [held EXCEPT ![u] = None]
  /\ hasPin' = [hasPin EXCEPT ![u] = FALSE]
  /\ status' = [status EXCEPT ![u] = "disconnected"]
  /\ end' = IF s = None THEN end ELSE [end EXCEPT ![s] = "closed"]
  /\ replies' = IF s = None THEN replies ELSE [replies EXCEPT ![s] = <<>>]
  /\ UNCHANGED <<vars, sent, drops, me, attempts>>

\* 'close' at the client: another attempt after reconnectInterval, or none.
\* A connection that cannot be made ends the same way.
ClientCloses(u) ==
  LET s == ws[u] IN
  /\ s # None
  /\ end[s] \in {"opening", "open"}
  /\ end' = [end EXCEPT ![s] = "closed"]
  /\ replies' = [replies EXCEPT ![s] = <<>>]
  /\ ws' = [ws EXCEPT ![u] = None]
  /\ status' = [status EXCEPT ![u] = "disconnected"]
  /\ IF attempts[u] < MaxAttempts
     THEN /\ attempts' = [attempts EXCEPT ![u] = @ + 1]
          /\ timer' = [timer EXCEPT ![u] = TRUE]
          /\ gone' = gone
     ELSE /\ gone' = [gone EXCEPT ![u] = TRUE]
          /\ UNCHANGED <<attempts, timer>>
  /\ UNCHANGED <<vars, sent, held, hasPin, me>>

-----------------------------------------------------------------------------
(* The server's handler of the next message on a socket *)

Next1(s, type) == sent[s] # <<>> /\ Head(sent[s]).type = type

Take(s) == sent' = [sent EXCEPT ![s] = Tail(@)]

Reply(s, m) ==
  replies' = IF end[s] = "open" THEN [replies EXCEPT ![s] = Append(@, m)]
             ELSE replies

\* Mutation: a token stays good after a newer one replaced it.
ValidOnceIssued(t) == t # None /\ t.number <= tokens[t.pid]

Valid(t) == t # None /\ t.number = tokens[t.pid]

\* Which of the free ids generateParticipantId returns does not matter.
NewPid == CHOOSE p \in Pids : Fresh(p)

ServeAuth(s) ==
  /\ Next1(s, "AUTH")
  /\ Take(s)
  /\ LET m == Head(sent[s]) IN
       \/ /\ Valid(m.token)
          /\ HandleReconnect(s, m.token.pid)
          /\ Reply(s, Success(m.token.pid, tokens[m.token.pid] + 1))
       \/ /\ m.token = None
          /\ m.pin
          /\ \E p \in Pids : Fresh(p)
          /\ HandleAuth(s, NewPid)
          /\ Reply(s, Success(NewPid, 1))
       \/ /\ ~Valid(m.token)
          /\ ~m.pin
          /\ state[s] = "open"
          /\ Reply(s, Failed)
          /\ UNCHANGED vars
  /\ UNCHANGED <<end, drops, person>>

\* PARTICIPANT_READY; an id without an entry is answered with an ERROR.
ServeReady(s) ==
  /\ Next1(s, "PARTICIPANT_READY")
  /\ Take(s)
  /\ state[s] = "open"
  /\ IF pid[s] \in Present THEN HandleParticipantReady(s) ELSE UNCHANGED vars
  /\ UNCHANGED <<end, replies, drops, person>>

\* SIGNATURE_SUBMIT; a refusal is answered with SIGNATURE_REJECTED.
ServeSignature(s) ==
  /\ Next1(s, "SIGNATURE_SUBMIT")
  /\ Take(s)
  /\ state[s] = "open"
  /\ IF offered /\ pid[s] \in Present \ signers
     THEN HandleSignatureSubmit(s) ELSE UNCHANGED vars
  /\ UNCHANGED <<end, replies, drops, person>>

ServeRejection(s) ==
  /\ Next1(s, "TRANSACTION_REJECTED")
  /\ Take(s)
  /\ HandleTransactionRejected(s)
  /\ UNCHANGED <<end, replies, drops, person>>

Serve(s) ==
  ServeAuth(s) \/ ServeReady(s) \/ ServeSignature(s) \/ ServeRejection(s)

\* 'close' at the server, or the heartbeat terminates the socket: what was
\* under way is lost.
ServerCloses(s) ==
  /\ HandleClose(s)
  /\ sent' = [sent EXCEPT ![s] = <<>>]
  /\ UNCHANGED <<end, replies, person>>

-----------------------------------------------------------------------------
(* Connections that drop *)

\* The other end is closed: this end gets to know.
ClientLearns(u) ==
  /\ ws[u] # None
  /\ state[ws[u]] = "closed"
  /\ ClientCloses(u)
  /\ UNCHANGED drops

ServerLearns(s) ==
  /\ end[s] = "closed"
  /\ ServerCloses(s)
  /\ UNCHANGED drops

\* An end loses the connection on its own.
ClientDrops(u) ==
  /\ drops < MaxDrops
  /\ ws[u] # None
  /\ state[ws[u]] # "closed"
  /\ drops' = drops + 1
  /\ ClientCloses(u)

ServerDrops(s) ==
  /\ drops < MaxDrops
  /\ end[s] = "open"
  /\ drops' = drops + 1
  /\ ServerCloses(s)

-----------------------------------------------------------------------------
(* The coordinator, whose one connection lasts *)

CoordinatorConnects ==
  /\ \A s \in Socks : end[s] # "coordinator"
  /\ \E s \in Socks : end[s] = "none"
  /\ LET s == Unused IN
       /\ HandleConnection(s)
       /\ end' = [end EXCEPT ![s] = "coordinator"]
  /\ UNCHANGED <<sent, replies, drops, person>>

CoordinatorJoins ==
  /\ \E s \in Socks : end[s] = "coordinator" /\ HandleCoordinatorAuth(s)
  /\ UNCHANGED <<link, person>>

CoordinatorActs == TransactionStep /\ UNCHANGED <<link, person>>

-----------------------------------------------------------------------------

ClientStep(u) ==
  \/ Connect(u)
  \/ Open(u)
  \/ HandleAuthSuccess(u)
  \/ HandleAuthFailed(u)
  \/ SetReady(u)
  \/ SubmitSignature(u)
  \/ RejectTransaction(u)
  \/ Disconnect(u)
  \/ ClientLearns(u)
  \/ ClientDrops(u)

ReconnectionNext ==
  \/ \E u \in Users : ClientStep(u)
  \/ \E s \in Socks : Serve(s) \/ ServerLearns(s) \/ ServerDrops(s)
  \/ CoordinatorConnects
  \/ CoordinatorJoins
  \/ CoordinatorActs

ReconnectionSpec == Init /\ ClientInit /\ [][ReconnectionNext]_all

\* Node and browser run timers and socket events that are due; a message on a
\* connection that stays up arrives.  Nobody has to press a button, and no
\* connection has to drop.
Fairness ==
  /\ \A u \in Users :
       WF_all(Connect(u) \/ Open(u) \/ HandleAuthSuccess(u)
                \/ HandleAuthFailed(u) \/ ClientLearns(u))
  /\ \A s \in Socks : WF_all(Serve(s)) /\ WF_all(ServerLearns(s))

FairReconnection == ReconnectionSpec /\ Fairness

-----------------------------------------------------------------------------
(* Properties *)

\* The reply with the token that replaced the client's was lost on the way.
LostReply(u) ==
  /\ held[u] # None
  /\ ~Valid(held[u])
  /\ ws[u] = None \/ \A i \in 1..Len(replies[ws[u]]) :
                        replies[ws[u]][i].type # "AUTH_SUCCESS"

\* Automatic reconnection: a client that lost its connection, or has yet to
\* make one, gets back into the session, unless it was told to leave, ran out
\* of attempts, or the reply that carried its newest token was lost.
Rejoins ==
  \A u \in Users :
    (status[u] = "disconnected" /\ ~gone[u])
      ~> (Online(u) \/ gone[u] \/ LostReply(u))

\* A client that is online on a live connection, with no reply under way,
\* holds the token the server would accept, under the id the server knows it
\* by: no late AUTH of an abandoned connection rotates it away.
TokenAgreed ==
  \A u \in Users :
    Online(u) /\ state[ws[u]] = "open" /\ replies[ws[u]] = <<>> =>
      /\ held[u] # None
      /\ held[u].pid = me[u]
      /\ held[u].number = tokens[me[u]]
      /\ pid[ws[u]] = me[u]

\* A participant that is connected under its id, on an open socket, has an
\* entry: it can get ready and sign.
RejoinedCanSign ==
  \A u \in Users :
    Online(u) /\ state[ws[u]] = "open" /\ pid[ws[u]] = me[u] => me[u] \in Present
=============================================================================
