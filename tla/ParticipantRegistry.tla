------------------------- MODULE ParticipantRegistry -------------------------
(***************************************************************************)
(* Who takes part in a session, as the server keeps it: the participant    *)
(* entries of SessionStore and their counters, the reconnection tokens,    *)
(* WebSocketServer's maps from participants and coordinator to sockets,    *)
(* and the ids each socket's closure remembers.                            *)
(*                                                                         *)
(* The session is on the in-memory store, does not expire, and admits its  *)
(* PIN; every participant key is eligible.  A handler is one action, as in *)
(* SigningServer.  Of the transaction only what moves entries is kept.     *)
(***************************************************************************)
EXTENDS Integers, FiniteSets

CONSTANTS
  Pids,      \* participant ids generateParticipantId may return
  Socks,     \* WebSocket connections, each used once
  None,      \* null
  MaxReady   \* bound: the ready count

ASSUME RegistryNone == None \notin Pids \cup Socks
ASSUME RegistryPids == IsFiniteSet(Pids)
ASSUME RegistryBound == MaxReady \in Nat

VARIABLES
  entry,             \* session.participants
  connected,         \* stats.participantsConnected
  ready,             \* stats.participantsReady
  tokens,            \* session.reconnectionTokens: how many p was issued
  state,             \* the server's end of each socket
  pid,               \* participantId in the closure of a socket
  isCoordinator,     \* isCoordinator in the closure of a socket
  clients,           \* WebSocketServer.clients
  coordinatorClient, \* WebSocketServer.coordinatorClients of the session
  offered,           \* a transaction takes signatures
  signers            \* participantId of each entry of session.signatures

store    == <<entry, connected, ready, tokens>>
sockets  == <<state, pid, isCoordinator, clients, coordinatorClient>>
ceremony == <<offered, signers>>
vars     == <<store, sockets, ceremony>>

NoEntry == [status |-> "none", keysLoaded |-> FALSE]

\* What a participant's status may be; "connected" stands for every string the
\* server gives no meaning to as well.
Statuses == {"connected", "ready", "signed", "rejected", "disconnected"}

Entries == [status : Statuses, keysLoaded : BOOLEAN]

Present == {p \in Pids : entry[p] # NoEntry}

Init ==
  /\ entry = [p \in Pids |-> NoEntry]
  /\ connected = 0
  /\ ready = 0
  /\ tokens = [p \in Pids |-> 0]
  /\ state = [s \in Socks |-> "new"]
  /\ pid = [s \in Socks |-> None]
  /\ isCoordinator = [s \in Socks |-> FALSE]
  /\ clients = [p \in Pids |-> None]
  /\ coordinatorClient = None
  /\ offered = FALSE
  /\ signers = {}

-----------------------------------------------------------------------------
(* SessionStore *)

AddParticipant(p) ==
  /\ entry' = [entry EXCEPT ![p] =
                 [status |-> "connected", keysLoaded |-> FALSE]]
  /\ connected' = connected + 1
  /\ ready' = ready

Preserved == {"signed", "rejected"}

\* Mutation: the ready count goes down without looking.
RemoveParticipantUnguarded(p) ==
  /\ ready' = IF entry[p].status \in {"ready", "signed"}
              THEN ready - 1 ELSE ready
  /\ IF entry[p].status \in Preserved
     THEN /\ entry' = [entry EXCEPT ![p].status = "disconnected"]
          /\ connected' = connected
     ELSE /\ entry' = [entry EXCEPT ![p] = NoEntry]
          /\ connected' = IF p \in Present THEN connected - 1 ELSE connected

\* Mutation: the count goes down whether or not there was an entry.
RemoveParticipantAlways(p) ==
  /\ ready' = IF entry[p].status \in {"ready", "signed"} /\ ready > 0
              THEN ready - 1 ELSE ready
  /\ IF entry[p].status \in Preserved
     THEN /\ entry' = [entry EXCEPT ![p].status = "disconnected"]
          /\ connected' = connected
     ELSE /\ entry' = [entry EXCEPT ![p] = NoEntry]
          /\ connected' = connected - 1

RemoveParticipant(p) ==
  /\ ready' = IF entry[p].status \in {"ready", "signed"} /\ ready > 0
              THEN ready - 1 ELSE ready
  /\ IF entry[p].status \in Preserved
     THEN /\ entry' = [entry EXCEPT ![p].status = "disconnected"]
          /\ connected' = connected
     ELSE /\ entry' = [entry EXCEPT ![p] = NoEntry]
          /\ connected' = IF p \in Present THEN connected - 1 ELSE connected

\* clearTransactionState, for the entries es.
Cleared(es) ==
  [p \in Pids |->
     IF es[p].status \in {"signed", "rejected"}
     THEN [es[p] EXCEPT !.status =
             IF es[p].keysLoaded THEN "ready" ELSE "connected"]
     ELSE es[p]]

-----------------------------------------------------------------------------
(* Connections *)

HandleConnection(s) ==
  /\ state[s] = "new"
  /\ state' = [state EXCEPT ![s] = "open"]
  /\ UNCHANGED <<store, pid, isCoordinator, clients, coordinatorClient, ceremony>>

\* The end of _handleAuth: this socket is now how p is reached, and p has a
\* new token in place of the old one.
Register(s, p) ==
  /\ pid' = [pid EXCEPT ![s] = p]
  /\ clients' = [clients EXCEPT ![p] = s]
  /\ tokens' = [tokens EXCEPT ![p] = @ + 1]
  /\ UNCHANGED <<state, isCoordinator, coordinatorClient>>

\* A client authenticates once on each connection it makes.
Unauthenticated(s) == state[s] = "open" /\ pid[s] = None /\ ~isCoordinator[s]

\* Ids are random: never one that was handed out before.
Fresh(p) == tokens[p] = 0

HandleAuth(s, p) ==
  /\ Unauthenticated(s)
  /\ Fresh(p)
  /\ AddParticipant(p)
  /\ Register(s, p)
  /\ UNCHANGED ceremony

\* AUTH with the latest token of p: the id is taken over as it is, whatever
\* became of the entry and of the socket that had it.
HandleReconnect(s, p) ==
  /\ Unauthenticated(s)
  /\ tokens[p] > 0
  /\ Register(s, p)
  /\ UNCHANGED <<entry, connected, ready, ceremony>>

HandleCoordinatorAuth(s) ==
  /\ Unauthenticated(s)
  /\ coordinatorClient' = s
  /\ isCoordinator' = [isCoordinator EXCEPT ![s] = TRUE]
  /\ UNCHANGED <<store, state, pid, clients, ceremony>>

\* Mutation: a closed socket stays registered.
HandleCloseKeepingClient(s) ==
  /\ state[s] = "open"
  /\ state' = [state EXCEPT ![s] = "closed"]
  /\ IF pid[s] # None
     THEN RemoveParticipant(pid[s])
     ELSE UNCHANGED <<entry, connected, ready>>
  /\ UNCHANGED <<clients, coordinatorClient, tokens, pid, isCoordinator, ceremony>>

\* Both maps are cleared by id, not by socket.
HandleClose(s) ==
  /\ state[s] = "open"
  /\ state' = [state EXCEPT ![s] = "closed"]
  /\ IF pid[s] # None
     THEN /\ clients' = [clients EXCEPT ![pid[s]] = None]
          /\ RemoveParticipant(pid[s])
     ELSE UNCHANGED <<clients, entry, connected, ready>>
  /\ coordinatorClient' = IF isCoordinator[s] THEN None ELSE coordinatorClient
  /\ UNCHANGED <<tokens, pid, isCoordinator, ceremony>>

-----------------------------------------------------------------------------
(* Messages of participants *)

Speaks(s) == state[s] = "open" /\ pid[s] # None

\* PARTICIPANT_READY.  An id without an entry gets an ERROR.
HandleParticipantReady(s) ==
  /\ Speaks(s)
  /\ pid[s] \in Present
  /\ ready < MaxReady
  /\ ready' = IF entry[pid[s]].status # "ready" THEN ready + 1 ELSE ready
  /\ entry' = [entry EXCEPT ![pid[s]] = [status |-> "ready", keysLoaded |-> TRUE]]
  /\ UNCHANGED <<connected, tokens, sockets, ceremony>>

\* STATUS_UPDATE: the client names its status, and nothing else moves.
HandleStatusUpdate(s, named) ==
  /\ Speaks(s)
  /\ pid[s] \in Present
  /\ entry' = [entry EXCEPT ![pid[s]].status = named]
  /\ UNCHANGED <<connected, ready, tokens, sockets, ceremony>>

\* SIGNATURE_SUBMIT, when the signature is accepted.
HandleSignatureSubmit(s) ==
  /\ Speaks(s)
  /\ offered
  /\ pid[s] \in Present
  /\ pid[s] \notin signers
  /\ signers' = signers \cup {pid[s]}
  /\ entry' = [entry EXCEPT ![pid[s]].status = "signed"]
  /\ UNCHANGED <<connected, ready, tokens, sockets, offered>>

\* TRANSACTION_REJECTED: the mark is set, then cleared with all the others.
HandleTransactionRejected(s) ==
  /\ Speaks(s)
  /\ entry' = Cleared(IF pid[s] \in Present
                      THEN [entry EXCEPT ![pid[s]].status = "rejected"]
                      ELSE entry)
  /\ offered' = FALSE
  /\ signers' = {}
  /\ UNCHANGED <<connected, ready, tokens, sockets>>

-----------------------------------------------------------------------------
(* What becomes of the transaction *)

HandleTransactionInject ==
  /\ \E s \in Socks : state[s] = "open" /\ isCoordinator[s]
  /\ entry' = Cleared(entry)
  /\ offered' = TRUE
  /\ signers' = {}
  /\ UNCHANGED <<connected, ready, tokens, sockets>>

\* The expiry timer or RESET_TRANSACTION: entries stay as they are.
HandleTransactionExpired ==
  /\ offered
  /\ offered' = FALSE
  /\ signers' = {}
  /\ UNCHANGED <<store, sockets>>

TransactionExecuted ==
  /\ offered
  /\ signers # {}
  /\ offered' = FALSE
  /\ UNCHANGED <<store, sockets, signers>>

-----------------------------------------------------------------------------

SocketStep(s) ==
  \/ HandleConnection(s)
  \/ HandleCoordinatorAuth(s)
  \/ HandleClose(s)
  \/ HandleParticipantReady(s)
  \/ HandleSignatureSubmit(s)
  \/ HandleTransactionRejected(s)
  \/ \E named \in Statuses : HandleStatusUpdate(s, named)
  \/ \E p \in Pids : HandleAuth(s, p) \/ HandleReconnect(s, p)

TransactionStep ==
  \/ HandleTransactionInject
  \/ HandleTransactionExpired
  \/ TransactionExecuted

Next == TransactionStep \/ \E s \in Socks : SocketStep(s)

Spec == Init /\ [][Next]_vars

-----------------------------------------------------------------------------
(* Properties *)

\* Types of the registry's state; the ready count never goes below zero.
TypeOK ==
  /\ entry \in [Pids -> Entries \cup {NoEntry}]
  /\ connected \in Int
  /\ ready \in Nat
  /\ tokens \in [Pids -> Nat]
  /\ state \in [Socks -> {"new", "open", "closed"}]
  /\ pid \in [Socks -> Pids \cup {None}]
  /\ isCoordinator \in [Socks -> BOOLEAN]
  /\ clients \in [Pids -> Socks \cup {None}]
  /\ coordinatorClient \in Socks \cup {None}
  /\ offered \in BOOLEAN
  /\ signers \subseteq Pids

\* participantsConnected, kept by increments in addParticipant and
\* removeParticipant, is the number of entries, however sockets that share an
\* id close.
ConnectedCountExact == connected = Cardinality(Present)

\* A message is never addressed to a closed socket or to one that belongs to
\* somebody else: what the maps hold is open and remembers the same id.
RegisteredIsLive ==
  /\ \A p \in Pids : clients[p] # None =>
       state[clients[p]] = "open" /\ pid[clients[p]] = p
  /\ coordinatorClient # None =>
       state[coordinatorClient] = "open" /\ isCoordinator[coordinatorClient]
=============================================================================
