---------------------- MODULE ParticipantRegistryProofs ----------------------
(* Proofs about ParticipantRegistry, for every set of ids and sockets. *)
EXTENDS ParticipantRegistry, FiniteSetTheorems, TLAPS

\* "none" is not a status an entry has.
LEMMA EntryIsNotNone == NoEntry \notin Entries
BY DEF NoEntry, Entries, Statuses

Entered == [Pids -> Entries \cup {NoEntry}]

\* clearTransactionState leaves well-typed entries well typed, and neither
\* makes nor prunes one.
LEMMA ClearedKeepsEntries ==
  ASSUME NEW es \in Entered
  PROVE  /\ Cleared(es) \in Entered
         /\ \A p \in Pids : Cleared(es)[p] = NoEntry <=> es[p] = NoEntry
<1>1. ASSUME NEW p \in Pids
      PROVE  /\ Cleared(es)[p] \in Entries \cup {NoEntry}
             /\ Cleared(es)[p] = NoEntry <=> es[p] = NoEntry
  <2>1. CASE es[p] = NoEntry
    <3>1. Cleared(es)[p] = NoEntry
      BY <2>1 DEF Cleared, NoEntry
    <3> QED BY <2>1, <3>1
  <2>2. CASE es[p] \in Entries
    <3>1. Cleared(es)[p] \in Entries
      BY <2>2 DEF Cleared, Entries, Statuses
    <3> QED BY <2>2, <3>1, EntryIsNotNone
  <2> QED BY <2>1, <2>2 DEF Entered
<1>2. Cleared(es) = [p \in Pids |-> Cleared(es)[p]]
  BY DEF Cleared
<1> QED BY <1>1, <1>2 DEF Entered

\* A new status goes on an entry that is there.
LEMMA StatusKeepsEntries ==
  ASSUME TypeOK, NEW p \in Present, NEW st \in Statuses
  PROVE  /\ [entry EXCEPT ![p].status = st] \in Entered
         /\ \A q \in Pids : [entry EXCEPT ![p].status = st][q] = NoEntry
                              <=> entry[q] = NoEntry
<1>1. entry \in Entered /\ p \in Pids /\ entry[p] \in Entries
  BY DEF TypeOK, Entered, Present
<1>2. [entry[p] EXCEPT !.status = st] \in Entries
  BY <1>1 DEF Entries
<1>3. [entry EXCEPT ![p].status = st]
        = [entry EXCEPT ![p] = [entry[p] EXCEPT !.status = st]]
  BY <1>1 DEF Entered
<1> QED BY <1>1, <1>2, <1>3, EntryIsNotNone DEF Entered

LEMMA UpdateKeepsEntries ==
  ASSUME TypeOK, NEW s \in Socks, NEW named \in Statuses,
         HandleStatusUpdate(s, named)
  PROVE  /\ entry' \in Entered
         /\ \A p \in Pids : entry'[p] = NoEntry <=> entry[p] = NoEntry
BY StatusKeepsEntries DEF HandleStatusUpdate

LEMMA SubmitKeepsEntries ==
  ASSUME TypeOK, NEW s \in Socks, HandleSignatureSubmit(s)
  PROVE  /\ entry' \in Entered
         /\ \A p \in Pids : entry'[p] = NoEntry <=> entry[p] = NoEntry
         /\ signers' \subseteq Pids
<1>1. pid[s] \in Present /\ pid[s] \in Pids
  BY DEF HandleSignatureSubmit, Present
<1>2. entry' = [entry EXCEPT ![pid[s]].status = "signed"]
  BY DEF HandleSignatureSubmit
<1>3. signers' \subseteq Pids
  BY <1>1 DEF HandleSignatureSubmit, TypeOK
<1> QED BY <1>1, <1>2, <1>3, StatusKeepsEntries DEF Statuses

\* Both together, as TRANSACTION_REJECTED puts them.
LEMMA RejectionKeepsEntries ==
  ASSUME TypeOK, NEW s \in Socks, HandleTransactionRejected(s)
  PROVE  /\ entry' \in Entered
         /\ \A p \in Pids : entry'[p] = NoEntry <=> entry[p] = NoEntry
<1> DEFINE es == IF pid[s] \in Present
                 THEN [entry EXCEPT ![pid[s]].status = "rejected"] ELSE entry
<1>1. entry' = Cleared(es)
  BY DEF HandleTransactionRejected
<1>2. es \in Entered /\ \A p \in Pids : es[p] = NoEntry <=> entry[p] = NoEntry
  BY StatusKeepsEntries DEF TypeOK, Entered, Statuses
<1> HIDE DEF es
<1> QED BY <1>1, <1>2, ClearedKeepsEntries

\* addParticipant and removeParticipant, and whatever else a step does, keep
\* the registry well typed.
LEMMA TypeStep ==
  ASSUME TypeOK, [Next]_vars
  PROVE  TypeOK'
<1> USE RegistryNone, RegistryBound DEF TypeOK, NoEntry, Entries, Statuses
<1>1. CASE UNCHANGED vars
  BY <1>1 DEF vars, store, sockets, ceremony
<1>2. ASSUME NEW s \in Socks, HandleConnection(s)
      PROVE  TypeOK'
  BY <1>2 DEF HandleConnection, store, ceremony
<1>3. ASSUME NEW s \in Socks, HandleCoordinatorAuth(s)
      PROVE  TypeOK'
  BY <1>3 DEF HandleCoordinatorAuth, store, ceremony
<1>4. ASSUME NEW s \in Socks, HandleClose(s)
      PROVE  TypeOK'
  <2>1. CASE pid[s] = None
    BY <1>4, <2>1 DEF HandleClose, ceremony
  <2>2. CASE pid[s] # None
    <3>1. pid[s] \in Pids /\ RemoveParticipant(pid[s])
      BY <1>4, <2>2 DEF HandleClose
    <3>2. ready' \in Nat
      BY <3>1 DEF RemoveParticipant
    <3>3. connected' \in Int
      BY <3>1 DEF RemoveParticipant
    <3>4. entry' \in [Pids -> Entries \cup {NoEntry}]
      <4>1. CASE entry[pid[s]].status \in Preserved
        BY <3>1, <4>1 DEF RemoveParticipant, Preserved
      <4>2. CASE entry[pid[s]].status \notin Preserved
        BY <3>1, <4>2 DEF RemoveParticipant
      <4> QED BY <4>1, <4>2
    <3> QED BY <1>4, <2>2, <3>2, <3>3, <3>4 DEF HandleClose, ceremony
  <2> QED BY <2>1, <2>2
<1>5. ASSUME NEW s \in Socks, HandleParticipantReady(s)
      PROVE  TypeOK'
  BY <1>5 DEF HandleParticipantReady, Speaks, Present, sockets, ceremony
<1>6. ASSUME NEW s \in Socks, HandleSignatureSubmit(s)
      PROVE  TypeOK'
  BY <1>6, SubmitKeepsEntries DEF HandleSignatureSubmit, Entered, sockets
<1>7. ASSUME NEW s \in Socks, HandleTransactionRejected(s)
      PROVE  TypeOK'
  BY <1>7, RejectionKeepsEntries DEF HandleTransactionRejected, Entered, sockets
<1>8. ASSUME NEW s \in Socks, NEW p \in Pids, HandleAuth(s, p)
      PROVE  TypeOK'
  BY <1>8 DEF HandleAuth, AddParticipant, Register, ceremony
<1>9. ASSUME NEW s \in Socks, NEW p \in Pids, HandleReconnect(s, p)
      PROVE  TypeOK'
  BY <1>9 DEF HandleReconnect, Register, ceremony
<1>10. CASE HandleTransactionInject
  BY <1>10, ClearedKeepsEntries DEF HandleTransactionInject, Entered, sockets
<1>11. CASE HandleTransactionExpired \/ TransactionExecuted
  BY <1>11 DEF HandleTransactionExpired, TransactionExecuted, store, sockets
<1>12. ASSUME NEW s \in Socks, NEW named \in Statuses, HandleStatusUpdate(s, named)
       PROVE  TypeOK'
  BY <1>12, UpdateKeepsEntries DEF HandleStatusUpdate, Entered, sockets, ceremony
<1> QED
  BY <1>1, <1>2, <1>3, <1>4, <1>5, <1>6, <1>7, <1>8, <1>9, <1>10, <1>11, <1>12
     DEF Next, SocketStep, TransactionStep

LEMMA InitTyped ==
  ASSUME Init
  PROVE  TypeOK
<1>1. entry \in [Pids -> Entries \cup {NoEntry}] /\ tokens \in [Pids -> Nat]
  BY DEF Init
<1>2. connected \in Int /\ ready \in Nat
  BY DEF Init
<1>3. /\ state \in [Socks -> {"new", "open", "closed"}]
      /\ pid \in [Socks -> Pids \cup {None}]
      /\ clients \in [Pids -> Socks \cup {None}]
      /\ coordinatorClient \in Socks \cup {None}
  BY DEF Init
<1>4. isCoordinator \in [Socks -> BOOLEAN] /\ offered \in BOOLEAN
  BY DEF Init
<1>5. signers \subseteq Pids
  BY DEF Init
<1> QED BY <1>1, <1>2, <1>3, <1>4, <1>5 DEF TypeOK

\* TypeOK: above all, removeParticipant never takes the ready count below
\* zero, although it is kept apart from the statuses.
THEOREM TypeCorrect == Spec => []TypeOK
<1>1. Init => TypeOK
  BY InitTyped
<1>2. TypeOK /\ [Next]_vars => TypeOK'
  BY TypeStep
<1> QED BY <1>1, <1>2, PTL DEF Spec

-----------------------------------------------------------------------------

\* RegisteredIsLive: closing a socket, even one that another has replaced,
\* never leaves the maps pointing at a closed socket or at somebody else's.
\* Its induction needs, beyond the property, that a socket with an id in its
\* closure is no longer new, and that one socket has one role.
ClosuresSettled ==
  \A s \in Socks :
    /\ state[s] = "new" => pid[s] = None /\ ~isCoordinator[s]
    /\ ~(pid[s] # None /\ isCoordinator[s])

LEMMA RegisteredStep ==
  ASSUME TypeOK, ClosuresSettled, RegisteredIsLive, [Next]_vars
  PROVE  ClosuresSettled' /\ RegisteredIsLive'
<1> USE RegistryNone DEF TypeOK, ClosuresSettled, RegisteredIsLive
<1>1. CASE UNCHANGED vars
  BY <1>1 DEF vars, sockets
<1>2. ASSUME NEW s \in Socks, HandleConnection(s)
      PROVE  ClosuresSettled' /\ RegisteredIsLive'
  BY <1>2 DEF HandleConnection
<1>3. ASSUME NEW s \in Socks, HandleCoordinatorAuth(s)
      PROVE  ClosuresSettled' /\ RegisteredIsLive'
  BY <1>3 DEF HandleCoordinatorAuth, Unauthenticated
<1>4. ASSUME NEW s \in Socks, HandleClose(s)
      PROVE  ClosuresSettled' /\ RegisteredIsLive'
  BY <1>4 DEF HandleClose
<1>5. ASSUME NEW s \in Socks, NEW p \in Pids, Unauthenticated(s), Register(s, p)
      PROVE  ClosuresSettled' /\ RegisteredIsLive'
  BY <1>5 DEF Register, Unauthenticated
<1>6. ASSUME UNCHANGED sockets
      PROVE  ClosuresSettled' /\ RegisteredIsLive'
  BY <1>6 DEF sockets
<1> QED
  BY <1>1, <1>2, <1>3, <1>4, <1>5, <1>6
     DEF Next, SocketStep, TransactionStep, HandleAuth, HandleReconnect,
         HandleParticipantReady, HandleStatusUpdate, HandleSignatureSubmit,
         HandleTransactionRejected,
         HandleTransactionInject, HandleTransactionExpired, TransactionExecuted

\* What WebSocketServer's maps hold is open and knows the same id.
THEOREM RegisteredCorrect == Spec => []RegisteredIsLive
<1>1. Init => ClosuresSettled /\ RegisteredIsLive
  BY RegistryNone DEF Init, ClosuresSettled, RegisteredIsLive
<1>2. TypeOK /\ ClosuresSettled /\ RegisteredIsLive /\ [Next]_vars
        => ClosuresSettled' /\ RegisteredIsLive'
  BY RegisteredStep
<1> QED BY <1>1, <1>2, TypeCorrect, PTL DEF Spec

-----------------------------------------------------------------------------

\* A free id has no entry: without that, addParticipant would count an entry
\* twice.
FreeHasNoEntry == \A p \in Pids : tokens[p] = 0 => entry[p] = NoEntry

\* Setting the entry of a participant that has one leaves the set alone.
LEMMA PresentKept ==
  ASSUME \A p \in Pids : entry'[p] = NoEntry <=> entry[p] = NoEntry
  PROVE  Present' = Present
BY DEF Present

LEMMA CountStep ==
  ASSUME TypeOK, FreeHasNoEntry, ConnectedCountExact, [Next]_vars
  PROVE  FreeHasNoEntry' /\ ConnectedCountExact'
<1> USE RegistryNone DEF TypeOK
<1>a. IsFiniteSet(Present) /\ Cardinality(Present) \in Nat
  BY RegistryPids, FS_Subset, FS_CardinalityType DEF Present
<1>b. ASSUME \A p \in Pids : entry'[p] = NoEntry <=> entry[p] = NoEntry,
             connected' = connected, \A p \in Pids : tokens'[p] >= tokens[p],
             tokens' \in [Pids -> Nat]
      PROVE  FreeHasNoEntry' /\ ConnectedCountExact'
  BY <1>b, PresentKept DEF FreeHasNoEntry, ConnectedCountExact
<1>1. CASE UNCHANGED store
  BY <1>1, <1>b DEF store
<1>2. ASSUME NEW s \in Socks, HandleClose(s)
      PROVE  FreeHasNoEntry' /\ ConnectedCountExact'
  <2>1. CASE pid[s] = None
    BY <1>2, <2>1, <1>b DEF HandleClose
  <2>2. CASE pid[s] # None
    <3>1. pid[s] \in Pids /\ RemoveParticipant(pid[s]) /\ tokens' = tokens
      BY <1>2, <2>2 DEF HandleClose
    <3>2. CASE entry[pid[s]].status \in Preserved
      <4>1. /\ entry' = [entry EXCEPT ![pid[s]].status = "disconnected"]
            /\ connected' = connected
        BY <3>1, <3>2 DEF RemoveParticipant
      <4>2. entry'[pid[s]] # NoEntry /\ entry[pid[s]] # NoEntry
        BY <3>1, <3>2, <4>1 DEF Preserved, NoEntry, Entries, Statuses
      <4> QED BY <3>1, <4>1, <4>2, <1>b
    <3>3. CASE entry[pid[s]].status \notin Preserved
      <4>1. /\ entry' = [entry EXCEPT ![pid[s]] = NoEntry]
            /\ connected' = IF pid[s] \in Present
                            THEN connected - 1 ELSE connected
        BY <3>1, <3>3 DEF RemoveParticipant
      <4>2. Present' = Present \ {pid[s]}
        BY <3>1, <4>1 DEF Present
      <4>3. ConnectedCountExact'
        BY <1>a, <4>1, <4>2, FS_RemoveElement DEF ConnectedCountExact
      <4>4. FreeHasNoEntry'
        BY <3>1, <4>1 DEF FreeHasNoEntry
      <4> QED BY <4>3, <4>4
    <3> QED BY <3>2, <3>3
  <2> QED BY <2>1, <2>2
<1>3. ASSUME NEW s \in Socks, HandleParticipantReady(s)
      PROVE  FreeHasNoEntry' /\ ConnectedCountExact'
  <2>1. pid[s] \in Pids /\ entry[pid[s]] # NoEntry
    BY <1>3 DEF HandleParticipantReady, Present
  <2>2. /\ entry' = [entry EXCEPT ![pid[s]] =
                      [status |-> "ready", keysLoaded |-> TRUE]]
        /\ connected' = connected /\ tokens' = tokens
    BY <1>3 DEF HandleParticipantReady
  <2>3. [status |-> "ready", keysLoaded |-> TRUE] # NoEntry
    BY DEF NoEntry
  <2>4. \A p \in Pids : entry'[p] = NoEntry <=> entry[p] = NoEntry
    BY <2>1, <2>2, <2>3
  <2> QED BY <2>2, <2>4, <1>b
<1>4. ASSUME NEW s \in Socks, HandleSignatureSubmit(s)
      PROVE  FreeHasNoEntry' /\ ConnectedCountExact'
  <2>1. \A p \in Pids : entry'[p] = NoEntry <=> entry[p] = NoEntry
    BY <1>4, SubmitKeepsEntries
  <2>2. connected' = connected /\ tokens' = tokens
    BY <1>4 DEF HandleSignatureSubmit
  <2> QED BY <2>1, <2>2, <1>b
<1>5. ASSUME NEW s \in Socks, HandleTransactionRejected(s)
      PROVE  FreeHasNoEntry' /\ ConnectedCountExact'
  <2>1. \A p \in Pids : entry'[p] = NoEntry <=> entry[p] = NoEntry
    BY <1>5, RejectionKeepsEntries
  <2>2. connected' = connected /\ tokens' = tokens
    BY <1>5 DEF HandleTransactionRejected
  <2> QED BY <2>1, <2>2, <1>b
<1>6. CASE HandleTransactionInject
  BY <1>6, <1>b, ClearedKeepsEntries DEF HandleTransactionInject, Entered
<1>7. ASSUME NEW s \in Socks, NEW p \in Pids, HandleAuth(s, p)
      PROVE  FreeHasNoEntry' /\ ConnectedCountExact'
  <2>1. entry[p] = NoEntry
    BY <1>7 DEF HandleAuth, Fresh, FreeHasNoEntry
  <2>2. /\ entry' = [entry EXCEPT ![p] =
                       [status |-> "connected", keysLoaded |-> FALSE]]
        /\ connected' = connected + 1
        /\ tokens' = [tokens EXCEPT ![p] = @ + 1]
    BY <1>7 DEF HandleAuth, AddParticipant, Register
  <2>3. Present' = Present \cup {p} /\ p \notin Present
    BY <2>1, <2>2 DEF Present, NoEntry
  <2>4. ConnectedCountExact'
    BY <1>a, <2>2, <2>3, FS_AddElement DEF ConnectedCountExact
  <2>5. FreeHasNoEntry'
    BY <2>2 DEF FreeHasNoEntry
  <2> QED BY <2>4, <2>5
<1>8. ASSUME NEW s \in Socks, NEW p \in Pids, HandleReconnect(s, p)
      PROVE  FreeHasNoEntry' /\ ConnectedCountExact'
  BY <1>8, <1>b DEF HandleReconnect, Register
<1>9. ASSUME NEW s \in Socks, NEW named \in Statuses, HandleStatusUpdate(s, named)
      PROVE  FreeHasNoEntry' /\ ConnectedCountExact'
  <2>1. \A p \in Pids : entry'[p] = NoEntry <=> entry[p] = NoEntry
    BY <1>9, UpdateKeepsEntries
  <2>2. connected' = connected /\ tokens' = tokens
    BY <1>9 DEF HandleStatusUpdate
  <2> QED BY <2>1, <2>2, <1>b
<1> QED
  BY <1>1, <1>2, <1>3, <1>4, <1>5, <1>6, <1>7, <1>8, <1>9
     DEF Next, SocketStep, TransactionStep, vars, HandleConnection,
         HandleCoordinatorAuth, HandleTransactionExpired, TransactionExecuted

\* ConnectedCountExact: participantsConnected is the number of entries.
THEOREM ConnectedCorrect == Spec => []ConnectedCountExact
<1>1. Init => FreeHasNoEntry /\ ConnectedCountExact
  <2> SUFFICES ASSUME Init PROVE FreeHasNoEntry /\ ConnectedCountExact
    OBVIOUS
  <2>1. Present = {}
    BY DEF Init, Present
  <2> QED BY <2>1, FS_EmptySet DEF Init, FreeHasNoEntry, ConnectedCountExact
<1>2. TypeOK /\ FreeHasNoEntry /\ ConnectedCountExact /\ [Next]_vars
        => FreeHasNoEntry' /\ ConnectedCountExact'
  BY CountStep
<1> QED BY <1>1, <1>2, TypeCorrect, PTL DEF Spec
=============================================================================
