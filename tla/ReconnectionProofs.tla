-------------------------- MODULE ReconnectionProofs --------------------------
(* Proofs about Reconnection, for every set of users, ids and sockets, either *)
(* kind of client and any number of losses: that the server's half of it is   *)
(* ParticipantRegistry, and that client and server agree on the token.        *)
EXTENDS Reconnection, ParticipantRegistryProofs, SequenceTheorems

-----------------------------------------------------------------------------
(* Types of the connections and the clients *)

Issued == [pid : Pids, number : Nat]

Requests == [type : {"AUTH", "PARTICIPANT_READY", "SIGNATURE_SUBMIT",
                     "TRANSACTION_REJECTED"},
             token : Issued \cup {None}, pin : BOOLEAN]

Answers == [type : {"AUTH_SUCCESS"}, pid : Pids, number : Nat] \cup {Failed}

LinkTypeOK ==
  /\ end \in [Socks -> {"none", "opening", "open", "closed", "coordinator"}]
  /\ sent \in [Socks -> Seq(Requests)]
  /\ replies \in [Socks -> Seq(Answers)]

PersonTypeOK ==
  /\ ws \in [Users -> Socks \cup {None}]
  /\ held \in [Users -> Issued \cup {None}]
  /\ hasPin \in [Users -> BOOLEAN]
  /\ me \in [Users -> Pids \cup {None}]
  /\ status \in [Users -> {"disconnected", "connected", "ready", "signed",
                           "rejected"}]
  /\ timer \in [Users -> BOOLEAN]

-----------------------------------------------------------------------------
(* The inductive invariant *)

Asks(q) == q # <<>> /\ Head(q).type = "AUTH"

FirstOnly(q) == \A i \in 2..Len(q) : q[i].type # "AUTH"

\* A socket is used in order: the client's end before the server's, nothing
\* sent or answered before; and by one client, who waits for no other.
SocketsInOrder ==
  /\ \A s \in Socks :
       /\ end[s] \in {"none", "opening"} => state[s] = "new"
       /\ state[s] = "new" => sent[s] = <<>> /\ pid[s] = None
       /\ end[s] # "open" => replies[s] = <<>>
  /\ \A u \in Users : ws[u] # None =>
       /\ end[ws[u]] \in {"opening", "open"}
       /\ ~timer[u]
       /\ \A v \in Users : ws[v] = ws[u] => v = u

\* AUTH is the first message on a socket and the only one of its kind, asks
\* with the token the client still holds, and has the only reply.
AuthOnce ==
  /\ \A s \in Socks :
       /\ FirstOnly(sent[s])
       /\ Asks(sent[s]) => pid[s] = None /\ replies[s] = <<>>
       /\ Len(replies[s]) <= 1
  /\ \A u \in Users : ws[u] # None =>
       (Asks(sent[ws[u]]) => Head(sent[ws[u]]).token = held[u])

\* The reply with the token has arrived, or is under way on the connection.
Pending(u) ==
  /\ ws[u] # None
  /\ replies[ws[u]] # <<>>
  /\ Head(replies[ws[u]]).type = "AUTH_SUCCESS"

Granted(u) == Pending(u) \/ Online(u)

Grant(u) == IF Pending(u) THEN [pid    |-> Head(replies[ws[u]]).pid,
                                number |-> Head(replies[ws[u]]).number]
            ELSE held[u]

\* The tokens in AUTHs that the server has yet to read.
UnderWay == {Head(sent[s]).token : s \in {q \in Socks : Asks(sent[q])}} \ {None}

\* Tokens are numbered from one, and none is newer than the server's.
TokensIssued ==
  /\ \A u \in Users : held[u] # None =>
       held[u].number \in 1..tokens[held[u].pid]
  /\ \A t \in UnderWay : t.number <= tokens[t.pid]

\* What a client was granted on its connection is the newest token of the id
\* its socket has at the server; an AUTH under way elsewhere has an older one.
Newest(u) ==
  /\ ws[u] # None
  /\ end[ws[u]] = "open"
  /\ ~Asks(sent[ws[u]])
  /\ Online(u) => replies[ws[u]] = <<>> /\ me[u] = held[u].pid
  /\ Grant(u) \in Issued
  /\ Grant(u).number = tokens[Grant(u).pid]
  /\ Grant(u).number > 0
  /\ pid[ws[u]] = Grant(u).pid
  /\ \A t \in UnderWay : t.pid = Grant(u).pid => t.number < Grant(u).number

GrantIsNewest == \A u \in Users : Granted(u) => Newest(u)

\* The ids a client has a token of, in hand or under way.
Knows(u) == {p \in Pids : \/ held[u] # None /\ held[u].pid = p
                          \/ Granted(u) /\ Grant(u).pid = p}

\* No two clients know tokens of one id.
TokensApart ==
  \A u, v \in Users : u # v => Knows(u) \cap Knows(v) = {}

Types == TypeOK /\ LinkTypeOK /\ PersonTypeOK

Agreed ==
  SocketsInOrder /\ AuthOnce /\ TokensIssued /\ GrantIsNewest /\ TokensApart

TokenInv == Types /\ Agreed

-----------------------------------------------------------------------------
(* What becomes of the queue of a connection *)

\* Taking the first message leaves none that asks.
LEMMA TailAsksNot ==
  ASSUME NEW q \in Seq(Requests), q # <<>>, FirstOnly(q)
  PROVE  Tail(q) \in Seq(Requests) /\ FirstOnly(Tail(q)) /\ ~Asks(Tail(q))
<1>1. Tail(q) \in Seq(Requests) /\ Len(Tail(q)) = Len(q) - 1
  OBVIOUS
<1>2. \A i \in 1..Len(Tail(q)) : Tail(q)[i] = q[i + 1] /\ i + 1 \in 2..Len(q)
  BY <1>1
<1>3. \A i \in 1..Len(Tail(q)) : Tail(q)[i].type # "AUTH"
  BY <1>2 DEF FirstOnly
<1>4. FirstOnly(Tail(q))
  BY <1>1, <1>3 DEF FirstOnly
<1>5. Tail(q) # <<>> => Head(Tail(q)) = Tail(q)[1] /\ 1 \in 1..Len(Tail(q))
  BY <1>1
<1> QED BY <1>1, <1>3, <1>4, <1>5 DEF Asks

\* A message that is no AUTH goes behind what is there.
LEMMA AppendAsksSame ==
  ASSUME NEW q \in Seq(Requests), NEW m \in Requests, m.type # "AUTH",
         FirstOnly(q)
  PROVE  /\ Append(q, m) \in Seq(Requests) /\ FirstOnly(Append(q, m))
         /\ Asks(Append(q, m)) <=> Asks(q)
         /\ Asks(q) => Head(Append(q, m)) = Head(q)
<1>1. /\ Append(q, m) \in Seq(Requests) /\ Len(Append(q, m)) = Len(q) + 1
      /\ Len(q) \in Nat
  OBVIOUS
<1>2. \A i \in 1..Len(q) + 1 :
        Append(q, m)[i] = IF i = Len(q) + 1 THEN m ELSE q[i]
  OBVIOUS
<1>3. FirstOnly(Append(q, m))
  BY <1>1, <1>2 DEF FirstOnly
<1>4. Append(q, m) # <<>> /\ Head(Append(q, m)) = Append(q, m)[1]
  BY <1>1
<1>5. CASE q = <<>>
  BY <1>1, <1>2, <1>3, <1>4, <1>5 DEF Asks
<1>6. CASE q # <<>>
  <2>1. Len(q) > 0 /\ Head(q) = q[1]
    BY <1>6
  <2>2. Append(q, m)[1] = q[1]
    BY <2>1, <1>1, <1>2
  <2> QED BY <1>1, <1>3, <1>4, <1>6, <2>1, <2>2 DEF Asks
<1> QED BY <1>5, <1>6

\* A queue with one AUTH, or with nothing.
LEMMA ShortQueues ==
  /\ \A m \in Requests : /\ <<m>> \in Seq(Requests) /\ FirstOnly(<<m>>)
                         /\ <<m>> # <<>> /\ Head(<<m>>) = m
  /\ <<>> \in Seq(Requests) /\ FirstOnly(<<>>) /\ ~Asks(<<>>)
BY DEF FirstOnly, Asks

\* At most one reply is under way.
LEMMA ShortReplies ==
  /\ <<>> \in Seq(Answers) /\ Len(<<>>) = 0
  /\ \A q \in Seq(Answers) :
       Len(q) <= 1 /\ q # <<>> => Tail(q) = <<>> /\ Head(q) \in Answers
  /\ \A a \in Answers : /\ Append(<<>>, a) \in Seq(Answers)
                        /\ Append(<<>>, a) # <<>>
                        /\ Len(Append(<<>>, a)) = 1
                        /\ Head(Append(<<>>, a)) = a
<1>1. <<>> \in Seq(Answers) /\ Len(<<>>) = 0
  OBVIOUS
<1>2. ASSUME NEW q \in Seq(Answers), Len(q) <= 1, q # <<>>
      PROVE  Tail(q) = <<>> /\ Head(q) \in Answers
  <2>1. Tail(q) \in Seq(Answers) /\ Len(Tail(q)) = Len(q) - 1 /\ Len(q) \in Nat
    BY <1>2
  <2>2. Len(q) # 0
    BY <1>2
  <2> QED BY <1>2, <2>1, <2>2
<1>3. ASSUME NEW a \in Answers
      PROVE  /\ Append(<<>>, a) \in Seq(Answers) /\ Append(<<>>, a) # <<>>
             /\ Len(Append(<<>>, a)) = 1 /\ Head(Append(<<>>, a)) = a
  OBVIOUS
<1> QED BY <1>1, <1>2, <1>3

-----------------------------------------------------------------------------
(* The server's half is ParticipantRegistry *)

LEMMA UnusedIsNew ==
  ASSUME \E s \in Socks : end[s] = "none"
  PROVE  Unused \in Socks /\ end[Unused] = "none"
BY DEF Unused

LEMMA NewPidIsFresh ==
  ASSUME \E p \in Pids : Fresh(p)
  PROVE  NewPid \in Pids /\ Fresh(NewPid)
BY DEF NewPid

\* The first message of a queue is a request.
LEMMA NextIsRequest ==
  ASSUME LinkTypeOK, NEW s \in Socks, sent[s] # <<>>
  PROVE  Head(sent[s]) \in Requests
BY DEF LinkTypeOK

\* Every step of a client leaves the server alone but for `connection'; every
\* message is served by one handler.
LEMMA RegistryStep ==
  ASSUME LinkTypeOK, PersonTypeOK, [ReconnectionNext]_all
  PROVE  [Next]_vars
<1>1. CASE UNCHANGED all
  BY <1>1 DEF all
<1>2. ASSUME NEW u \in Users, ClientStep(u)
      PROVE  [Next]_vars
  <2>1. CASE Open(u)
    <3>1. ws[u] \in Socks
      BY <2>1 DEF Open, LinkTypeOK, PersonTypeOK
    <3> QED BY <2>1, <3>1 DEF Open, Next, SocketStep
  <2>2. CASE ~Open(u)
    BY <1>2, <2>2
       DEF ClientStep, Connect, HandleAuthSuccess, HandleAuthFailed, SetReady,
           SubmitSignature, RejectTransaction, Send, Disconnect, ClientLearns,
           ClientDrops, ClientCloses
  <2> QED BY <2>1, <2>2
<1>3. ASSUME NEW s \in Socks, ServeAuth(s)
      PROVE  [Next]_vars
  <2> DEFINE m == Head(sent[s])
  <2>1. m \in Requests
    BY <1>3, NextIsRequest DEF ServeAuth, Next1
  <2>2. CASE Valid(m.token) /\ HandleReconnect(s, m.token.pid)
    <3>1. m.token.pid \in Pids
      BY <2>1, <2>2 DEF Valid, Requests, Issued
    <3> QED BY <2>2, <3>1 DEF Next, SocketStep
  <2>3. CASE (\E p \in Pids : Fresh(p)) /\ HandleAuth(s, NewPid)
    BY <2>3, NewPidIsFresh DEF Next, SocketStep
  <2>4. CASE UNCHANGED vars
    BY <2>4
  <2> QED BY <1>3, <2>2, <2>3, <2>4 DEF ServeAuth
<1>4. ASSUME NEW s \in Socks, ServeReady(s) \/ ServeSignature(s) \/ ServeRejection(s)
      PROVE  [Next]_vars
  BY <1>4 DEF ServeReady, ServeSignature, ServeRejection, Next, SocketStep
<1>5. ASSUME NEW s \in Socks, ServerLearns(s) \/ ServerDrops(s)
      PROVE  [Next]_vars
  BY <1>5 DEF ServerLearns, ServerDrops, ServerCloses, Next, SocketStep
<1>6. CASE CoordinatorConnects
  BY <1>6, UnusedIsNew DEF CoordinatorConnects, Next, SocketStep
<1>7. CASE CoordinatorJoins
  BY <1>7 DEF CoordinatorJoins, Next, SocketStep
<1>8. CASE CoordinatorActs
  BY <1>8 DEF CoordinatorActs, Next
<1> QED
  BY <1>1, <1>2, <1>3, <1>4, <1>5, <1>6, <1>7, <1>8 DEF ReconnectionNext, Serve

-----------------------------------------------------------------------------
(* Types *)

LEMMA MessagesTyped ==
  /\ \A t \in Issued \cup {None}, b \in BOOLEAN : Auth(t, b) \in Requests
  /\ \A ty \in {"PARTICIPANT_READY", "SIGNATURE_SUBMIT", "TRANSACTION_REJECTED"} :
       Other(ty) \in Requests /\ Other(ty).type = ty
  /\ \A p \in Pids, n \in Nat : Success(p, n) \in Answers
  /\ Failed \in Answers
BY DEF Auth, Other, Success, Failed, Requests, Answers, Issued

\* The status of a client and what it holds, whatever else it does.
LEMMA ClientTypeStep ==
  ASSUME TypeOK, LinkTypeOK, PersonTypeOK, SocketsInOrder, AuthOnce,
         NEW u \in Users, ClientStep(u)
  PROVE  LinkTypeOK' /\ PersonTypeOK'
<1> USE DEF LinkTypeOK, PersonTypeOK
<1>1. CASE Connect(u)
  <2>1. Unused \in Socks
    BY <1>1, UnusedIsNew DEF Connect
  <2> QED BY <1>1, <2>1 DEF Connect, KeptToken
<1>2. CASE Open(u)
  <2>1. ws[u] \in Socks
    BY <1>2 DEF Open
  <2>2. Auth(held[u], held[u] = None /\ hasPin[u]) \in Requests
    BY MessagesTyped
  <2> DEFINE m == Auth(held[u], held[u] = None /\ hasPin[u])
  <2>3. <<m>> \in Seq(Requests)
    BY <2>2, ShortQueues
  <2>4. sent' = [sent EXCEPT ![ws[u]] = <<m>>]
    BY <1>2 DEF Open
  <2> HIDE DEF m
  <2>5. sent' \in [Socks -> Seq(Requests)]
    BY <2>1, <2>3, <2>4
  <2> QED BY <1>2, <2>1, <2>5 DEF Open
<1>3. CASE HandleAuthSuccess(u)
  <2> DEFINE s == ws[u]
             r == Head(replies[s])
  <2>1. s \in Socks /\ r \in Answers /\ Tail(replies[s]) \in Seq(Answers)
    BY <1>3 DEF HandleAuthSuccess
  <2>2. r.pid \in Pids /\ r.number \in Nat
    BY <1>3, <2>1 DEF HandleAuthSuccess, Answers, Failed
  <2>3. sent' \in [Socks -> Seq(Requests)]
    <3>1. CASE Client # "agent"
      BY <1>3, <3>1 DEF HandleAuthSuccess
    <3>2. CASE Client = "agent"
      <4>1. sent' = [sent EXCEPT ![s] = Append(sent[s], Other("PARTICIPANT_READY"))]
        BY <1>3, <2>1, <3>2 DEF HandleAuthSuccess
      <4>2. Append(sent[s], Other("PARTICIPANT_READY")) \in Seq(Requests)
        BY <2>1, MessagesTyped, AppendAsksSame DEF AuthOnce
      <4> QED BY <2>1, <4>1, <4>2
    <3> QED BY <3>1, <3>2
  <2>4. replies' \in [Socks -> Seq(Answers)]
    BY <1>3, <2>1 DEF HandleAuthSuccess
  <2>5. held' \in [Users -> Issued \cup {None}] /\ me' \in [Users -> Pids \cup {None}]
    BY <1>3, <2>2 DEF HandleAuthSuccess, Issued
  <2> QED BY <1>3, <2>3, <2>4, <2>5 DEF HandleAuthSuccess
<1>4. CASE HandleAuthFailed(u)
  <2>1. ws[u] \in Socks /\ Tail(replies[ws[u]]) \in Seq(Answers)
    BY <1>4 DEF HandleAuthFailed
  <2> QED BY <1>4, <2>1 DEF HandleAuthFailed, person
<1>5. ASSUME NEW ty \in {"PARTICIPANT_READY", "SIGNATURE_SUBMIT",
                         "TRANSACTION_REJECTED"},
             NEW st \in {"ready", "signed", "rejected"}, Send(u, ty, st)
      PROVE  LinkTypeOK' /\ PersonTypeOK'
  <2>1. ws[u] \in Socks
    BY <1>5 DEF Send
  <2>2. Append(sent[ws[u]], Other(ty)) \in Seq(Requests)
    BY <2>1, MessagesTyped, AppendAsksSame DEF AuthOnce
  <2>3. sent' = [sent EXCEPT ![ws[u]] = Append(sent[ws[u]], Other(ty))]
    BY <1>5, <2>1 DEF Send
  <2>4. sent' \in [Socks -> Seq(Requests)]
    BY <2>1, <2>2, <2>3
  <2> QED BY <1>5, <2>4 DEF Send
<1>6. CASE Disconnect(u)
  BY <1>6, ShortReplies DEF Disconnect
<1>7. ASSUME ClientCloses(u)
      PROVE  LinkTypeOK' /\ PersonTypeOK'
  BY <1>7, ShortReplies DEF ClientCloses
<1> QED
  BY <1>1, <1>2, <1>3, <1>4, <1>5, <1>6, <1>7
     DEF ClientStep, SetReady, SubmitSignature, RejectTransaction, ClientLearns,
         ClientDrops

LEMMA ServerTypeStep ==
  ASSUME TypeOK, LinkTypeOK, PersonTypeOK, AuthOnce,
         NEW s \in Socks, Serve(s) \/ ServerCloses(s)
  PROVE  LinkTypeOK' /\ PersonTypeOK'
<1> USE DEF LinkTypeOK, PersonTypeOK
<1>1. UNCHANGED person => PersonTypeOK'
  BY DEF person
<1>2. ASSUME Take(s), sent[s] # <<>>
      PROVE  sent' \in [Socks -> Seq(Requests)]
  BY <1>2, TailAsksNot DEF Take, AuthOnce
<1>3. ASSUME NEW a \in Answers, Reply(s, a)
      PROVE  replies' \in [Socks -> Seq(Answers)]
  BY <1>3 DEF Reply
<1>4. CASE ServeAuth(s)
  <2>1. Head(sent[s]) \in Requests
    BY <1>4, NextIsRequest DEF ServeAuth, Next1
  <2> DEFINE t == Head(sent[s]).token
  <2>2. t \in Issued \cup {None}
    BY <2>1 DEF Requests
  <2>3. \E a \in Answers : Reply(s, a)
    <3>1. CASE Valid(t) /\ Reply(s, Success(t.pid, tokens[t.pid] + 1))
      <4>1. t.pid \in Pids /\ tokens[t.pid] + 1 \in Nat
        BY <2>2, <3>1 DEF Valid, Issued, TypeOK
      <4> QED BY <3>1, <4>1, MessagesTyped
    <3>2. CASE (\E p \in Pids : Fresh(p)) /\ Reply(s, Success(NewPid, 1))
      BY <3>2, NewPidIsFresh, MessagesTyped
    <3>3. CASE Reply(s, Failed)
      BY <3>3, MessagesTyped
    <3> QED BY <1>4, <3>1, <3>2, <3>3 DEF ServeAuth
  <2> HIDE DEF t
  <2> QED BY <1>1, <1>2, <1>3, <1>4, <2>3 DEF ServeAuth, Next1
<1>5. CASE ServeReady(s) \/ ServeSignature(s) \/ ServeRejection(s)
  BY <1>1, <1>2, <1>5 DEF ServeReady, ServeSignature, ServeRejection, Next1
<1>6. CASE ServerCloses(s)
  BY <1>1, <1>6, ShortQueues DEF ServerCloses, HandleClose
<1> QED BY <1>4, <1>5, <1>6 DEF Serve

-----------------------------------------------------------------------------
(* Steps of the clients *)

\* What a client was granted depends on its own connection alone.
SameClient(v) ==
  /\ ws'[v] = ws[v] /\ held'[v] = held[v] /\ status'[v] = status[v]
  /\ ws[v] # None => replies'[ws[v]] = replies[ws[v]]

LEMMA GrantKept ==
  ASSUME NEW v \in Users, SameClient(v)
  PROVE  /\ Granted(v)' <=> Granted(v)
         /\ Granted(v) => Grant(v)' = Grant(v)
         /\ Online(v)' <=> Online(v)
         /\ Knows(v)' = Knows(v)
<1>1. Pending(v)' <=> Pending(v)
  BY DEF Pending, SameClient
<1>2. Online(v)' <=> Online(v)
  BY DEF Online, SameClient
<1>3. Granted(v)' <=> Granted(v)
  BY <1>1, <1>2 DEF Granted
<1>4. Grant(v)' = Grant(v)
  BY <1>1 DEF Grant, Pending, SameClient
<1> QED BY <1>2, <1>3, <1>4 DEF Knows, SameClient

\* A grant stays the newest while the id gets no other and no AUTH with a
\* token of it is new.
LEMMA NewestKept ==
  ASSUME NEW v \in Users, Granted(v), Newest(v), SameClient(v),
         end'[ws[v]] = end[ws[v]], ~Asks(sent'[ws[v]]), me'[v] = me[v],
         pid'[ws[v]] = pid[ws[v]],
         tokens'[Grant(v).pid] = tokens[Grant(v).pid],
         \A t \in UnderWay' : t.pid = Grant(v).pid => t \in UnderWay
  PROVE  Newest(v)'
BY GrantKept DEF Newest, SameClient

\* No AUTH is under way that was not before.
LEMMA NothingNewUnderWay ==
  ASSUME \A s \in Socks : Asks(sent'[s]) =>
           Asks(sent[s]) /\ Head(sent'[s]) = Head(sent[s])
  PROVE  UnderWay' \subseteq UnderWay
BY DEF UnderWay

\* Nobody gets to know a token of another's id by forgetting one.
LEMMA ApartKept ==
  ASSUME TokensApart, \A v \in Users : Knows(v)' \subseteq Knows(v)
  PROVE  TokensApart'
BY DEF TokensApart

\* Steps of u and its sockets leave what the other clients have.
OthersSame(u) == \A v \in Users \ {u} : SameClient(v) /\ me'[v] = me[v]

LEMMA ConnectKeeps ==
  ASSUME TokenInv, NEW u \in Users, Connect(u)
  PROVE  Agreed'
<1> DEFINE n == Unused
<1>1. /\ n \in Socks /\ end[n] = "none" /\ state[n] = "new"
      /\ sent[n] = <<>> /\ replies[n] = <<>> /\ pid[n] = None
  BY UnusedIsNew DEF Connect, TokenInv, Agreed, SocketsInOrder
<1>2. ws[u] = None /\ n # None
  BY <1>1, RegistryNone DEF Connect, TokenInv, Agreed, SocketsInOrder
<1>3. /\ ws' = [ws EXCEPT ![u] = n]
      /\ end' = [end EXCEPT ![n] = "opening"]
      /\ timer' = [timer EXCEPT ![u] = FALSE]
      /\ held' = [held EXCEPT ![u] = held'[u]] /\ held'[u] \in {held[u], None}
      /\ UNCHANGED <<vars, sent, replies, me, status>>
  BY DEF Connect, KeptToken, TokenInv, Types, PersonTypeOK
<1> HIDE DEF n
<1>4. UNCHANGED <<state, pid, tokens>>
  BY <1>3 DEF vars, sockets, store
<1>5. \A v \in Users : ws[v] # n
  BY <1>1, <1>2 DEF TokenInv, Agreed, SocketsInOrder
<1> USE DEF TokenInv, Types, LinkTypeOK, PersonTypeOK
<1>6. SocketsInOrder'
  BY <1>1, <1>2, <1>3, <1>4, <1>5 DEF Agreed, SocketsInOrder
<1>7. AuthOnce'
  <2>1. ~Asks(sent[n])
    BY <1>1, ShortQueues
  <2> QED BY <1>1, <1>2, <1>3, <1>4, <1>5, <2>1 DEF Agreed, AuthOnce
<1>8. UnderWay' = UnderWay
  BY <1>3 DEF UnderWay
<1>9. TokensIssued'
  BY <1>3, <1>4, <1>8 DEF Agreed, TokensIssued
<1>10. ~Granted(u)'
  <2>1. ~Granted(u)
    BY <1>2 DEF Agreed, GrantIsNewest, Newest
  <2> QED BY <2>1, <1>1, <1>3 DEF Granted, Pending, Online
<1>11. OthersSame(u)
  BY <1>3 DEF OthersSame, SameClient
<1>12. GrantIsNewest'
  <2> SUFFICES ASSUME NEW v \in Users, Granted(v)'
               PROVE  Newest(v)'
    BY DEF GrantIsNewest
  <2>1. v # u /\ SameClient(v) /\ me'[v] = me[v]
    BY <1>10, <1>11 DEF OthersSame
  <2>2. Granted(v) /\ Newest(v)
    BY <2>1, GrantKept DEF Agreed, GrantIsNewest
  <2>3. ws[v] # n /\ ws[v] \in Socks
    BY <1>5, <2>2 DEF Newest
  <2>4. end'[ws[v]] = end[ws[v]] /\ ~Asks(sent'[ws[v]])
    BY <2>2, <2>3, <1>3 DEF Newest
  <2> QED BY <2>1, <2>2, <2>4, <1>4, <1>8, NewestKept
<1>13. TokensApart'
  <2>1. Knows(u)' \subseteq Knows(u)
    BY <1>3, <1>10 DEF Knows
  <2> QED BY <2>1, <1>11, GrantKept, ApartKept DEF Agreed, OthersSame
<1> QED BY <1>6, <1>7, <1>9, <1>12, <1>13 DEF Agreed

LEMMA OpenKeeps ==
  ASSUME TokenInv, NEW u \in Users, Open(u)
  PROVE  Agreed'
<1> USE DEF TokenInv, Types, LinkTypeOK, PersonTypeOK
<1> DEFINE s == ws[u]
           m == Auth(held[u], held[u] = None /\ hasPin[u])
<1>1. /\ s \in Socks /\ s # None /\ end[s] = "opening" /\ state[s] = "new"
      /\ sent[s] = <<>> /\ replies[s] = <<>> /\ pid[s] = None
  BY DEF Open, Agreed, SocketsInOrder
<1>2. /\ m \in Requests /\ m.token = held[u]
      /\ FirstOnly(<<m>>) /\ Head(<<m>>) = m
  BY MessagesTyped, ShortQueues DEF Auth
<1>3. /\ state' = [state EXCEPT ![s] = "open"]
      /\ end' = [end EXCEPT ![s] = "open"]
      /\ sent' = [sent EXCEPT ![s] = <<m>>]
      /\ UNCHANGED <<pid, tokens, replies, ws, held, me, status, timer>>
  BY DEF Open, HandleConnection, store
<1>4. \A v \in Users \ {u} : ws[v] # s
  BY <1>1 DEF Agreed, SocketsInOrder
<1> HIDE DEF m
<1>5. SocketsInOrder'
  BY <1>1, <1>3, <1>4 DEF Agreed, SocketsInOrder, TypeOK
<1>6. AuthOnce'
  BY <1>1, <1>2, <1>3, <1>4 DEF Agreed, AuthOnce
<1>7. UnderWay' \subseteq UnderWay \cup {held[u]}
  BY <1>1, <1>2, <1>3 DEF UnderWay
<1>8. TokensIssued'
  <2>1. \A t \in UnderWay' : t.number <= tokens[t.pid]
    <3> SUFFICES ASSUME NEW t \in UnderWay' PROVE t.number <= tokens[t.pid]
      OBVIOUS
    <3>1. CASE t \in UnderWay
      BY <3>1 DEF Agreed, TokensIssued
    <3>2. CASE t = held[u]
      <4>1. held[u] # None /\ held[u] \in Issued
        BY <3>2 DEF UnderWay
      <4>2. held[u].pid \in Pids /\ tokens[held[u].pid] \in Nat
        BY <4>1 DEF Issued, TypeOK
      <4> QED BY <3>2, <4>1, <4>2 DEF Agreed, TokensIssued
    <3> QED BY <1>7, <3>1, <3>2
  <2> QED BY <2>1, <1>3 DEF Agreed, TokensIssued
<1>9. OthersSame(u) /\ SameClient(u)
  BY <1>3 DEF OthersSame, SameClient
<1>10. ~Granted(u)
  BY <1>1 DEF Agreed, GrantIsNewest, Newest
<1>11. GrantIsNewest'
  <2> SUFFICES ASSUME NEW v \in Users, Granted(v)'
               PROVE  Newest(v)'
    BY DEF GrantIsNewest
  <2>1. v # u /\ SameClient(v) /\ me'[v] = me[v]
    BY <1>9, <1>10, GrantKept DEF OthersSame
  <2>2. Granted(v) /\ Newest(v)
    BY <2>1, GrantKept DEF Agreed, GrantIsNewest
  <2>3. ws[v] # s /\ ws[v] \in Socks
    BY <1>4, <2>1, <2>2 DEF Newest
  <2>4. /\ end'[ws[v]] = end[ws[v]] /\ ~Asks(sent'[ws[v]])
        /\ pid'[ws[v]] = pid[ws[v]]
    BY <2>2, <2>3, <1>3 DEF Newest
  <2>5. held[u] # None => held[u].pid # Grant(v).pid
    <3>1. Grant(v).pid \in Pids
      BY <2>2 DEF Newest, Issued
    <3>2. held[u] # None => held[u].pid \in Pids
      BY DEF Issued
    <3> QED BY <2>1, <2>2, <3>1, <3>2 DEF Agreed, TokensApart, Knows
  <2>6. \A t \in UnderWay' : t.pid = Grant(v).pid => t \in UnderWay
    BY <1>7, <2>5 DEF UnderWay
  <2> QED BY <2>1, <2>2, <2>4, <2>6, <1>3, NewestKept
<1>12. TokensApart'
  BY <1>9, GrantKept, ApartKept DEF Agreed, OthersSame
<1> QED BY <1>5, <1>6, <1>8, <1>11, <1>12 DEF Agreed

\* The token of the reply takes the place of the one held.
LEMMA AuthSuccessKeeps ==
  ASSUME TokenInv, NEW u \in Users, HandleAuthSuccess(u)
  PROVE  Agreed'
<1> USE DEF TokenInv, Types, LinkTypeOK, PersonTypeOK
<1> DEFINE s == ws[u]
           r == Head(replies[s])
           t == [pid |-> r.pid, number |-> r.number]
<1>1. /\ s \in Socks /\ s # None /\ end[s] = "open" /\ replies[s] # <<>>
      /\ r.type = "AUTH_SUCCESS"
  BY DEF HandleAuthSuccess
<1>2. Pending(u) /\ Granted(u) /\ Newest(u) /\ Grant(u) = t
  BY <1>1 DEF Pending, Granted, Grant, Agreed, GrantIsNewest
<1>3. /\ t \in Issued /\ t # None /\ t.pid = r.pid /\ t.number = tokens[t.pid]
      /\ t.number > 0 /\ pid[s] = t.pid /\ ~Asks(sent[s])
  BY <1>2, ReconnectionTokens DEF Newest, Issued
<1>4. /\ held' = [held EXCEPT ![u] = t]
      /\ me' = [me EXCEPT ![u] = r.pid]
      /\ replies' = [replies EXCEPT ![s] = Tail(replies[s])]
      /\ UNCHANGED <<vars, end, ws, timer>>
      /\ \E st \in {"ready", "connected"} : status' = [status EXCEPT ![u] = st]
  BY <1>1 DEF HandleAuthSuccess
<1>5. UNCHANGED <<state, pid, tokens>>
  BY <1>4 DEF vars, sockets, store
<1>6. Tail(replies[s]) = <<>> /\ Len(<<>>) = 0
  BY <1>1, ShortReplies DEF Agreed, AuthOnce
<1>7. \A q \in Socks :
        /\ q # s => sent'[q] = sent[q]
        /\ FirstOnly(sent'[q])
        /\ Asks(sent'[q]) <=> Asks(sent[q])
        /\ Asks(sent[q]) => Head(sent'[q]) = Head(sent[q])
  <2>1. CASE Client # "agent"
    BY <1>1, <2>1 DEF HandleAuthSuccess, Agreed, AuthOnce
  <2>2. CASE Client = "agent"
    <3>1. sent' = [sent EXCEPT ![s] = Append(sent[s], Other("PARTICIPANT_READY"))]
      BY <1>1, <2>2 DEF HandleAuthSuccess
    <3> QED BY <3>1, <1>1, MessagesTyped, AppendAsksSame DEF Agreed, AuthOnce
  <2> QED BY <2>1, <2>2
<1>8. \A v \in Users \ {u} : ws[v] # s
  BY <1>1 DEF Agreed, SocketsInOrder
<1> HIDE DEF t, r
<1>9. SocketsInOrder'
  <2>1. state[s] # "new"
    BY <1>1, <1>3, RegistryNone DEF Agreed, SocketsInOrder, Issued
  <2> QED BY <2>1, <1>1, <1>4, <1>5, <1>6, <1>7 DEF Agreed, SocketsInOrder
<1>10. AuthOnce'
  BY <1>1, <1>3, <1>4, <1>5, <1>6, <1>7, <1>8 DEF Agreed, AuthOnce
<1>11. UnderWay' \subseteq UnderWay
  BY <1>7, NothingNewUnderWay
<1>12. TokensIssued'
  <2>1. tokens[t.pid] \in Nat /\ t.number \in 1..tokens[t.pid]
    BY <1>3 DEF Issued, TypeOK
  <2> QED BY <2>1, <1>4, <1>5, <1>11 DEF Agreed, TokensIssued
<1>13. OthersSame(u)
  BY <1>4, <1>8 DEF OthersSame, SameClient
<1>14. ~Pending(u)' /\ Granted(u)' /\ Grant(u)' = t
  BY <1>1, <1>4, <1>6 DEF Pending, Granted, Grant, Online
<1>15. GrantIsNewest'
  <2> SUFFICES ASSUME NEW v \in Users, Granted(v)'
               PROVE  Newest(v)'
    BY DEF GrantIsNewest
  <2>1. CASE v = u
    BY <2>1, <1>1, <1>2, <1>3, <1>4, <1>5, <1>6, <1>7, <1>11, <1>14 DEF Newest
  <2>2. CASE v # u
    <3>1. SameClient(v) /\ me'[v] = me[v]
      BY <1>13, <2>2 DEF OthersSame
    <3>2. Granted(v) /\ Newest(v)
      BY <3>1, GrantKept DEF Agreed, GrantIsNewest
    <3>3. ~Asks(sent'[ws[v]])
      BY <3>2, <1>7 DEF Newest
    <3> QED BY <3>1, <3>2, <3>3, <1>4, <1>5, <1>11, NewestKept
  <2> QED BY <2>1, <2>2
<1>16. TokensApart'
  <2>1. Knows(u)' \subseteq Knows(u)
    BY <1>2, <1>4, <1>14 DEF Knows
  <2> QED BY <2>1, <1>13, GrantKept, ApartKept DEF Agreed, OthersSame
<1> QED BY <1>9, <1>10, <1>12, <1>15, <1>16 DEF Agreed

\* A reply without a token.
LEMMA AuthFailedKeeps ==
  ASSUME TokenInv, NEW u \in Users, HandleAuthFailed(u)
  PROVE  Agreed'
<1> USE DEF TokenInv, Types, LinkTypeOK, PersonTypeOK
<1> DEFINE s == ws[u]
<1>1. /\ s \in Socks /\ s # None /\ end[s] = "open" /\ replies[s] # <<>>
      /\ Head(replies[s]).type = "AUTH_FAILED"
  BY DEF HandleAuthFailed
<1>2. /\ replies' = [replies EXCEPT ![s] = Tail(replies[s])]
      /\ UNCHANGED <<vars, end, sent, person>>
  BY <1>1 DEF HandleAuthFailed
<1>3. UNCHANGED <<state, pid, tokens, ws, held, me, status, timer>>
  BY <1>2 DEF vars, sockets, store, person
<1>4. Tail(replies[s]) = <<>> /\ Len(<<>>) = 0
  BY <1>1, ShortReplies DEF Agreed, AuthOnce
<1>5. \A v \in Users \ {u} : ws[v] # s
  BY <1>1 DEF Agreed, SocketsInOrder
<1>6. SocketsInOrder' /\ AuthOnce'
  BY <1>1, <1>2, <1>3, <1>4 DEF Agreed, SocketsInOrder, AuthOnce
<1>7. UnderWay' = UnderWay
  BY <1>2 DEF UnderWay
<1>8. TokensIssued'
  BY <1>3, <1>7 DEF Agreed, TokensIssued
<1>9. OthersSame(u)
  BY <1>2, <1>3, <1>5 DEF OthersSame, SameClient
<1>10. ~Granted(u)'
  <2>1. ~Pending(u)
    BY <1>1 DEF Pending
  <2>2. ~Online(u)
    BY <1>1, <2>1 DEF Agreed, GrantIsNewest, Newest, Granted
  <2>3. ~Pending(u)' /\ ~Online(u)'
    BY <1>1, <1>2, <1>3, <1>4, <2>2 DEF Pending, Online
  <2> QED BY <2>3 DEF Granted
<1>11. GrantIsNewest'
  <2> SUFFICES ASSUME NEW v \in Users, Granted(v)'
               PROVE  Newest(v)'
    BY DEF GrantIsNewest
  <2>1. v # u /\ SameClient(v) /\ me'[v] = me[v]
    BY <1>9, <1>10 DEF OthersSame
  <2>2. Granted(v) /\ Newest(v)
    BY <2>1, GrantKept DEF Agreed, GrantIsNewest
  <2>3. ~Asks(sent'[ws[v]])
    BY <2>2, <1>2 DEF Newest
  <2> QED BY <2>1, <2>2, <2>3, <1>2, <1>3, <1>7, NewestKept
<1>12. TokensApart'
  <2>1. Knows(u)' \subseteq Knows(u)
    BY <1>3, <1>10 DEF Knows
  <2> QED BY <2>1, <1>9, GrantKept, ApartKept DEF Agreed, OthersSame
<1> QED BY <1>6, <1>8, <1>11, <1>12 DEF Agreed

\* The requests of a client that is in the session.
LEMMA SendKeeps ==
  ASSUME TokenInv, NEW u \in Users,
         NEW ty \in {"PARTICIPANT_READY", "SIGNATURE_SUBMIT", "TRANSACTION_REJECTED"},
         NEW st \in {"ready", "signed", "rejected"}, Online(u), Send(u, ty, st)
  PROVE  Agreed'
<1> USE DEF TokenInv, Types, LinkTypeOK, PersonTypeOK
<1> DEFINE s == ws[u]
<1>1. s \in Socks /\ s # None /\ end[s] = "open"
  BY DEF Send
<1>2. /\ sent' = [sent EXCEPT ![s] = Append(sent[s], Other(ty))]
      /\ status' = [status EXCEPT ![u] = st]
      /\ UNCHANGED <<vars, end, replies, ws, held, me, timer>>
  BY <1>1 DEF Send
<1>3. UNCHANGED <<state, pid, tokens>>
  BY <1>2 DEF vars, sockets, store
<1>4. Granted(u) /\ Newest(u) /\ replies[s] = <<>> /\ state[s] # "new"
  BY RegistryNone
     DEF Granted, Newest, Agreed, GrantIsNewest, SocketsInOrder, Issued
<1>5. \A q \in Socks :
        /\ q # s => sent'[q] = sent[q]
        /\ FirstOnly(sent'[q])
        /\ Asks(sent'[q]) <=> Asks(sent[q])
        /\ Asks(sent[q]) => Head(sent'[q]) = Head(sent[q])
  <2>1. Other(ty) \in Requests /\ Other(ty).type # "AUTH"
    BY MessagesTyped
  <2> DEFINE m == Other(ty)
  <2> HIDE DEF m
  <2>2. sent' = [sent EXCEPT ![s] = Append(sent[s], m)]
    BY <1>2 DEF m
  <2>3. m \in Requests /\ m.type # "AUTH"
    BY <2>1 DEF m
  <2> QED BY <2>2, <2>3, <1>1, AppendAsksSame DEF Agreed, AuthOnce
<1>6. SocketsInOrder'
  BY <1>1, <1>2, <1>3, <1>4, <1>5 DEF Agreed, SocketsInOrder
<1>7. AuthOnce'
  BY <1>1, <1>2, <1>3, <1>5 DEF Agreed, AuthOnce
<1>8. UnderWay' \subseteq UnderWay
  BY <1>5, NothingNewUnderWay
<1>9. TokensIssued'
  BY <1>2, <1>3, <1>8 DEF Agreed, TokensIssued
<1>10. OthersSame(u)
  BY <1>2 DEF OthersSame, SameClient
<1>11. /\ Granted(u)' /\ Online(u)' /\ Grant(u)' = Grant(u)
       /\ Knows(u)' = Knows(u)
  <2>1. ~Pending(u) /\ ~Pending(u)'
    BY <1>2, <1>4 DEF Pending
  <2>2. Online(u)'
    BY <1>2 DEF Online
  <2> QED BY <2>1, <2>2, <1>2 DEF Granted, Grant, Knows
<1>12. GrantIsNewest'
  <2> SUFFICES ASSUME NEW v \in Users, Granted(v)'
               PROVE  Newest(v)'
    BY DEF GrantIsNewest
  <2>1. CASE v = u
    BY <2>1, <1>1, <1>2, <1>3, <1>4, <1>5, <1>8, <1>11 DEF Newest
  <2>2. CASE v # u
    <3>1. SameClient(v) /\ me'[v] = me[v]
      BY <1>10, <2>2 DEF OthersSame
    <3>2. Granted(v) /\ Newest(v)
      BY <3>1, GrantKept DEF Agreed, GrantIsNewest
    <3>3. ~Asks(sent'[ws[v]])
      BY <3>2, <1>5 DEF Newest
    <3> QED BY <3>1, <3>2, <3>3, <1>2, <1>3, <1>8, NewestKept
  <2> QED BY <2>1, <2>2
<1>13. TokensApart'
  BY <1>10, <1>11, GrantKept, ApartKept DEF Agreed, OthersSame
<1> QED BY <1>6, <1>7, <1>9, <1>12, <1>13 DEF Agreed

\* Hanging up, on purpose or not: what was under way to the client is lost.
LEMMA LeavingKeeps ==
  ASSUME TokenInv, NEW u \in Users, Disconnect(u) \/ ClientCloses(u)
  PROVE  Agreed'
<1> USE DEF TokenInv, Types, LinkTypeOK, PersonTypeOK
<1> DEFINE s == ws[u]
<1>1. /\ ws' = [ws EXCEPT ![u] = None]
      /\ status' = [status EXCEPT ![u] = "disconnected"]
      /\ held' = [held EXCEPT ![u] = held'[u]] /\ held'[u] \in {held[u], None}
      /\ end' = IF s = None THEN end ELSE [end EXCEPT ![s] = "closed"]
      /\ replies' = IF s = None THEN replies ELSE [replies EXCEPT ![s] = <<>>]
      /\ \A v \in Users \ {u} : timer'[v] = timer[v]
      /\ UNCHANGED <<vars, sent, me>>
  <2>1. CASE Disconnect(u)
    BY <2>1 DEF Disconnect
  <2>2. CASE ClientCloses(u)
    BY <2>2 DEF ClientCloses
  <2> QED BY <2>1, <2>2
<1>2. UNCHANGED <<state, pid, tokens>>
  BY <1>1 DEF vars, sockets, store
<1>3. \A v \in Users \ {u} : ws[v] # None => ws[v] # s
  BY DEF Agreed, SocketsInOrder
<1>4. s # None => s \in Socks /\ end[s] \in {"opening", "open"}
  BY DEF Agreed, SocketsInOrder
<1>5. SocketsInOrder'
  BY <1>1, <1>2, <1>3, <1>4 DEF Agreed, SocketsInOrder
<1>6. AuthOnce'
  BY <1>1, <1>2, <1>3, <1>4, ShortReplies DEF Agreed, AuthOnce
<1>7. UnderWay' = UnderWay
  BY <1>1 DEF UnderWay
<1>8. TokensIssued'
  BY <1>1, <1>2, <1>7 DEF Agreed, TokensIssued
<1>9. OthersSame(u)
  BY <1>1, <1>3 DEF OthersSame, SameClient
<1>10. ~Granted(u)'
  BY <1>1 DEF Granted, Pending, Online
<1>11. GrantIsNewest'
  <2> SUFFICES ASSUME NEW v \in Users, Granted(v)'
               PROVE  Newest(v)'
    BY DEF GrantIsNewest
  <2>1. v # u /\ SameClient(v) /\ me'[v] = me[v]
    BY <1>9, <1>10 DEF OthersSame
  <2>2. Granted(v) /\ Newest(v)
    BY <2>1, GrantKept DEF Agreed, GrantIsNewest
  <2>3. /\ ~Asks(sent'[ws[v]]) /\ end'[ws[v]] = end[ws[v]]
    BY <2>1, <2>2, <1>1, <1>3 DEF Newest
  <2> QED BY <2>1, <2>2, <2>3, <1>1, <1>2, <1>7, NewestKept
<1>12. TokensApart'
  <2>1. Knows(u)' \subseteq Knows(u)
    BY <1>1, <1>10 DEF Knows
  <2> QED BY <2>1, <1>9, GrantKept, ApartKept DEF Agreed, OthersSame
<1> QED BY <1>5, <1>6, <1>8, <1>11, <1>12 DEF Agreed

-----------------------------------------------------------------------------
(* Steps of the server *)

\* Reading a message, without an answer or with AUTH_FAILED.
LEMMA ReadKeeps ==
  ASSUME TokenInv, NEW s \in Socks, sent[s] # <<>>, Take(s),
         replies' = replies \/ (Asks(sent[s]) /\ Reply(s, Failed)),
         UNCHANGED <<state, pid, tokens, end, person>>
  PROVE  Agreed'
<1> USE DEF TokenInv, Types, LinkTypeOK, PersonTypeOK
<1>1. /\ sent' = [sent EXCEPT ![s] = Tail(sent[s])]
      /\ Tail(sent[s]) \in Seq(Requests) /\ FirstOnly(Tail(sent[s]))
      /\ ~Asks(Tail(sent[s]))
  BY TailAsksNot DEF Take, Agreed, AuthOnce
<1>2. UNCHANGED <<ws, held, me, status, timer>>
  BY DEF person
<1>3. /\ \A q \in Socks : q # s => replies'[q] = replies[q]
      /\ replies'[s] # replies[s] =>
           /\ Asks(sent[s]) /\ end[s] = "open"
           /\ Len(replies'[s]) = 1
           /\ Head(replies'[s]).type = "AUTH_FAILED"
  <2>1. CASE replies' = replies
    BY <2>1
  <2>2. CASE Asks(sent[s]) /\ Reply(s, Failed) /\ end[s] = "open"
    <3>1. replies[s] = <<>>
      BY <2>2 DEF Agreed, AuthOnce
    <3>2. replies' = [replies EXCEPT ![s] = Append(<<>>, Failed)]
      BY <2>2, <3>1 DEF Reply
    <3>3. Len(Append(<<>>, Failed)) = 1 /\ Head(Append(<<>>, Failed)) = Failed
      BY MessagesTyped, ShortReplies
    <3> QED BY <2>2, <3>2, <3>3 DEF Failed
  <2>3. CASE Reply(s, Failed) /\ end[s] # "open"
    BY <2>3 DEF Reply
  <2> QED BY <2>1, <2>2, <2>3
<1>4. SocketsInOrder'
  <2>1. state[s] # "new"
    BY DEF Agreed, SocketsInOrder
  <2> QED BY <2>1, <1>1, <1>2, <1>3 DEF Agreed, SocketsInOrder
<1>5. AuthOnce'
  <2>1. \A q \in Socks : /\ q # s => sent'[q] = sent[q] /\ replies'[q] = replies[q]
                         /\ sent'[s] = Tail(sent[s])
    BY <1>1, <1>3
  <2>2. \A q \in Socks : FirstOnly(sent'[q]) /\ Len(replies'[q]) <= 1
    <3> SUFFICES ASSUME NEW q \in Socks
                 PROVE  FirstOnly(sent'[q]) /\ Len(replies'[q]) <= 1
      OBVIOUS
    <3>1. FirstOnly(sent[q]) /\ Len(replies[q]) <= 1
      BY DEF Agreed, AuthOnce
    <3>2. CASE q # s
      BY <2>1, <3>1, <3>2
    <3>3. CASE q = s
      <4>1. FirstOnly(sent'[s])
        BY <2>1, <1>1
      <4>2. Len(replies'[s]) <= 1
        <5>1. CASE replies'[s] = replies[s]
          BY <3>1, <3>3, <5>1
        <5>2. CASE Len(replies'[s]) = 1
          BY <5>2
        <5> QED BY <5>1, <5>2, <1>3
      <4> QED BY <3>3, <4>1, <4>2
    <3> QED BY <3>2, <3>3
  <2>3. \A q \in Socks : Asks(sent'[q]) => q # s
    BY <2>1, <1>1
  <2> HIDE DEF TokenInv, Types, LinkTypeOK
  <2>4. AuthOnce /\ PersonTypeOK
    BY DEF TokenInv, Types, Agreed
  <2> QED BY <2>1, <2>2, <2>3, <2>4, <1>2 DEF AuthOnce, PersonTypeOK
<1>6. UnderWay' \subseteq UnderWay
  BY <1>1, NothingNewUnderWay
<1>7. TokensIssued'
  BY <1>2, <1>6 DEF Agreed, TokensIssued
<1>8. ASSUME NEW v \in Users
      PROVE  SameClient(v) \/ (~Granted(v) /\ ~Granted(v)' /\ held'[v] = held[v])
  <2>1. CASE ws[v] # None => replies'[ws[v]] = replies[ws[v]]
    BY <2>1, <1>2 DEF SameClient
  <2>2. CASE ws[v] = s /\ replies'[s] # replies[s]
    <3>1. ~Granted(v)
      BY <2>2, <1>3 DEF Agreed, GrantIsNewest, Newest
    <3>2. ~Granted(v)'
      BY <2>2, <3>1, <1>2, <1>3 DEF Granted, Pending, Online
    <3> QED BY <3>1, <3>2, <1>2
  <2> QED BY <2>1, <2>2, <1>3
<1>9. GrantIsNewest'
  <2> SUFFICES ASSUME NEW v \in Users, Granted(v)'
               PROVE  Newest(v)'
    BY DEF GrantIsNewest
  <2>1. SameClient(v)
    BY <1>8
  <2>2. Granted(v) /\ Newest(v)
    BY <2>1, GrantKept DEF Agreed, GrantIsNewest
  <2>3. ~Asks(sent'[ws[v]])
    BY <2>2, <1>1 DEF Newest
  <2> QED BY <2>1, <2>2, <2>3, <1>2, <1>6, NewestKept
<1>10. TokensApart'
  <2>1. \A v \in Users : Knows(v)' \subseteq Knows(v)
    BY <1>8, GrantKept DEF Knows
  <2> QED BY <2>1, ApartKept DEF Agreed
<1> QED BY <1>4, <1>5, <1>7, <1>9, <1>10 DEF Agreed

\* Admission: the socket gets an id and the client, if it is still there, the
\* id's newest token.  Nobody was granted a token of that id on a connection,
\* and nobody but the client on this one has one.
LEMMA RegisterKeeps ==
  ASSUME TokenInv, NEW s \in Socks, NEW p \in Pids,
         Next1(s, "AUTH"), Take(s), state[s] = "open", Register(s, p),
         Reply(s, Success(p, tokens[p] + 1)), UNCHANGED <<end, person>>,
         \A v \in Users : Granted(v) => Grant(v).pid # p,
         \A v, w \in Users : ws[v] = s /\ w # v => p \notin Knows(w)
  PROVE  Agreed'
<1> USE DEF TokenInv, Types, LinkTypeOK, PersonTypeOK
<1> DEFINE n == tokens[p] + 1
           a == Success(p, n)
<1>1. /\ sent' = [sent EXCEPT ![s] = Tail(sent[s])]
      /\ Tail(sent[s]) \in Seq(Requests) /\ FirstOnly(Tail(sent[s]))
      /\ ~Asks(Tail(sent[s])) /\ Asks(sent[s])
  BY TailAsksNot DEF Take, Next1, Asks, Agreed, AuthOnce
<1>2. UNCHANGED <<ws, held, me, status, timer, state, end>>
  BY DEF person, Register
<1>3. /\ pid' = [pid EXCEPT ![s] = p]
      /\ tokens' = [tokens EXCEPT ![p] = n] /\ n \in Nat /\ n > 0
  BY DEF Register, TypeOK
<1>4. /\ pid[s] = None /\ replies[s] = <<>>
      /\ \A v \in Users : ws[v] = s => ~Granted(v)
  BY <1>1 DEF Agreed, AuthOnce, GrantIsNewest, Newest
<1>5. a.type = "AUTH_SUCCESS" /\ a.pid = p /\ a.number = n /\ a \in Answers
  BY <1>3, MessagesTyped DEF Success
<1>6. /\ Len(Append(<<>>, a)) = 1 /\ Append(<<>>, a) # <<>>
      /\ Head(Append(<<>>, a)) = a
  BY <1>5, ShortReplies
<1>7. replies' = IF end[s] = "open" THEN [replies EXCEPT ![s] = Append(<<>>, a)]
                 ELSE replies
  BY <1>4 DEF Reply
<1> HIDE DEF n, a
<1>8. SocketsInOrder'
  BY <1>1, <1>2, <1>3, <1>7 DEF Agreed, SocketsInOrder
<1>9. AuthOnce'
  BY <1>1, <1>2, <1>3, <1>6, <1>7 DEF Agreed, AuthOnce
<1>10. UnderWay' \subseteq UnderWay
  BY <1>1, NothingNewUnderWay
<1>11. \A t \in UnderWay : t \in Issued
  BY NextIsRequest DEF UnderWay, Asks, Requests
<1>12. \A q \in Pids : /\ tokens[q] \in Nat /\ tokens'[q] \in Nat
                       /\ tokens'[q] >= tokens[q]
  BY <1>3 DEF TypeOK, n
<1>13. TokensIssued'
  <2>1. \A v \in Users : held[v] # None =>
          held[v].number \in 1..tokens'[held[v].pid]
    BY <1>12 DEF Agreed, TokensIssued, Issued
  <2>2. \A t \in UnderWay' : t.number <= tokens'[t.pid]
    BY <1>10, <1>11, <1>12 DEF Agreed, TokensIssued, Issued
  <2> QED BY <2>1, <2>2, <1>2 DEF TokensIssued
<1>14. \A v \in Users : ws[v] # s => SameClient(v)
  BY <1>2, <1>7 DEF SameClient
<1>15. ASSUME NEW v \in Users, ws[v] = s
       PROVE  /\ Knows(v)' \subseteq Knows(v) \cup {p}
              /\ ~Online(v)'
              /\ Granted(v)' => end[s] = "open" /\ Grant(v)' = [pid |-> p, number |-> n]
  <2>1. ~Online(v)'
    BY <1>2, <1>4, <1>15 DEF Granted, Online
  <2>2. Granted(v)' => end[s] = "open" /\ Grant(v)' = [pid |-> p, number |-> n]
    BY <2>1, <1>2, <1>4, <1>5, <1>6, <1>7, <1>15 DEF Granted, Grant, Pending
  <2> QED BY <2>1, <2>2, <1>2 DEF Knows
<1>16. GrantIsNewest'
  <2> SUFFICES ASSUME NEW v \in Users, Granted(v)'
               PROVE  Newest(v)'
    BY DEF GrantIsNewest
  <2>1. CASE ws[v] = s
    <3> DEFINE g == [pid |-> p, number |-> n]
    <3>1. /\ Grant(v)' = g /\ end[s] = "open" /\ ~Online(v)'
          /\ g \in Issued /\ g.pid = p /\ g.number = n
      BY <2>1, <1>3, <1>15 DEF Issued
    <3>2. \A t \in UnderWay' : t.pid = p => t.number < n
      <4> SUFFICES ASSUME NEW t \in UnderWay', t.pid = p PROVE t.number < n
        OBVIOUS
      <4>1. t.number <= tokens[p] /\ t.number \in Nat /\ tokens[p] \in Nat
        BY <1>10, <1>11, <1>12 DEF Agreed, TokensIssued, Issued
      <4> QED BY <4>1 DEF n
    <3> HIDE DEF g
    <3>3. ws'[v] = s /\ s # None /\ ~Asks(sent'[s]) /\ pid'[s] = p
      BY <2>1, <1>1, <1>2, <1>3, RegistryNone DEF TypeOK
    <3>4. tokens'[p] = n
      BY <1>3 DEF TypeOK
    <3> QED BY <3>1, <3>2, <3>3, <3>4, <1>2, <1>3 DEF Newest
  <2>2. CASE ws[v] # s
    <3>1. SameClient(v) /\ me'[v] = me[v]
      BY <2>2, <1>2, <1>14
    <3>2. Granted(v) /\ Newest(v) /\ Grant(v).pid # p
      BY <3>1, GrantKept DEF Agreed, GrantIsNewest
    <3>3. /\ ~Asks(sent'[ws[v]]) /\ pid'[ws[v]] = pid[ws[v]]
      BY <2>2, <3>2, <1>1, <1>3 DEF Newest, TypeOK
    <3>4. tokens'[Grant(v).pid] = tokens[Grant(v).pid]
      BY <3>2, <1>3 DEF Newest, Issued, TypeOK
    <3> QED BY <3>1, <3>2, <3>3, <3>4, <1>2, <1>10, NewestKept
  <2> QED BY <2>1, <2>2
<1>17. TokensApart'
  <2> SUFFICES ASSUME NEW v \in Users, NEW w \in Users, v # w
               PROVE  Knows(v)' \cap Knows(w)' = {}
    BY DEF TokensApart
  <2>1. \A x \in Users : ws[x] # s => Knows(x)' = Knows(x)
    BY <1>14, GrantKept
  <2>2. ~(ws[v] = s /\ ws[w] = s)
    <3>1. s # None /\ SocketsInOrder
      BY RegistryNone DEF Agreed
    <3> QED BY <3>1 DEF SocketsInOrder
  <2>3. Knows(v) \cap Knows(w) = {}
    BY DEF Agreed, TokensApart
  <2> QED BY <2>1, <2>2, <2>3, <1>15
<1> QED BY <1>8, <1>9, <1>13, <1>16, <1>17 DEF Agreed

\* AUTH, with the latest token of an id, with the PIN, or with neither.
LEMMA ServeAuthKeeps ==
  ASSUME TokenInv, NEW s \in Socks, ServeAuth(s)
  PROVE  Agreed'
<1> USE DEF TokenInv, Types, LinkTypeOK, PersonTypeOK
<1> DEFINE t == Head(sent[s]).token
<1>1. /\ Next1(s, "AUTH") /\ Take(s) /\ sent[s] # <<>> /\ Asks(sent[s])
      /\ UNCHANGED <<end, person>> /\ t \in Issued \cup {None}
  BY NextIsRequest DEF ServeAuth, Next1, Asks, Requests
<1>2. CASE /\ Valid(t) /\ HandleReconnect(s, t.pid)
           /\ Reply(s, Success(t.pid, tokens[t.pid] + 1))
  <2>1. t \in UnderWay /\ t # None /\ t.pid \in Pids /\ t.number = tokens[t.pid]
    BY <1>1, <1>2 DEF Valid, UnderWay, Issued
  <2>2. state[s] = "open" /\ Register(s, t.pid)
    BY <1>2 DEF HandleReconnect, Unauthenticated
  <2>3. \A v \in Users : Granted(v) => Grant(v).pid # t.pid
    <3> SUFFICES ASSUME NEW v \in Users, Granted(v), Grant(v).pid = t.pid
                 PROVE  FALSE
      OBVIOUS
    <3>1. /\ Grant(v).number = tokens[t.pid] /\ t.number < Grant(v).number
          /\ Grant(v).number \in Nat
      BY <2>1 DEF Agreed, GrantIsNewest, Newest, Issued
    <3> QED BY <2>1, <3>1
  <2>4. \A v, w \in Users : ws[v] = s /\ w # v => t.pid \notin Knows(w)
    <3> SUFFICES ASSUME NEW v \in Users, NEW w \in Users, ws[v] = s, w # v
                 PROVE  t.pid \notin Knows(w)
      OBVIOUS
    <3>1. held[v] = t
      BY <1>1, RegistryNone DEF Agreed, AuthOnce
    <3>2. t.pid \in Knows(v)
      BY <2>1, <3>1 DEF Knows
    <3> QED BY <3>2 DEF Agreed, TokensApart
  <2> HIDE DEF t
  <2> QED BY <1>1, <1>2, <2>1, <2>2, <2>3, <2>4, RegisterKeeps
<1>3. CASE /\ \E p \in Pids : Fresh(p)
           /\ HandleAuth(s, NewPid) /\ Reply(s, Success(NewPid, 1))
  <2>1. NewPid \in Pids /\ tokens[NewPid] = 0
    BY <1>3, NewPidIsFresh DEF Fresh
  <2> DEFINE p == NewPid
  <2> HIDE DEF p
  <2>2. p \in Pids /\ tokens[p] = 0
    BY <2>1 DEF p
  <2>3. /\ state[s] = "open" /\ Register(s, p)
        /\ Reply(s, Success(p, tokens[p] + 1))
    BY <1>3, <2>1 DEF HandleAuth, Unauthenticated, p
  <2>4. \A v \in Users : /\ Granted(v) => Grant(v).pid # p
                         /\ held[v] # None => held[v].pid # p
    <3> SUFFICES ASSUME NEW v \in Users
                 PROVE  /\ Granted(v) => Grant(v).pid # p
                        /\ held[v] # None => held[v].pid # p
      OBVIOUS
    <3>1. Granted(v) => Newest(v)
      BY DEF Agreed, GrantIsNewest
    <3>2. Granted(v) => Grant(v).pid # p
      BY <2>2, <3>1 DEF Newest, Issued
    <3>3. held[v] # None => held[v].number \in 1..tokens[held[v].pid]
      BY DEF Agreed, TokensIssued
    <3>4. held[v] # None => held[v].pid # p
      BY <2>2, <3>3
    <3> QED BY <3>2, <3>4
  <2>5. \A w \in Users : p \notin Knows(w)
    BY <2>4 DEF Knows
  <2> QED BY <1>1, <2>2, <2>3, <2>4, <2>5, RegisterKeeps
<1>4. CASE Reply(s, Failed) /\ UNCHANGED vars
  <2>1. UNCHANGED <<state, pid, tokens>>
    BY <1>4 DEF vars, sockets, store
  <2> QED BY <1>1, <1>4, <2>1, ReadKeeps
<1> QED BY <1>2, <1>3, <1>4 DEF ServeAuth

LEMMA ServeOtherKeeps ==
  ASSUME TokenInv, NEW s \in Socks,
         ServeReady(s) \/ ServeSignature(s) \/ ServeRejection(s)
  PROVE  Agreed'
<1>1. Take(s) /\ sent[s] # <<>> /\ UNCHANGED <<replies, end, person>>
  BY DEF ServeReady, ServeSignature, ServeRejection, Next1
<1>2. UNCHANGED <<state, pid, tokens>>
  BY DEF ServeReady, ServeSignature, ServeRejection, HandleParticipantReady,
         HandleSignatureSubmit, HandleTransactionRejected, vars, sockets, store
<1> QED BY <1>1, <1>2, ReadKeeps

\* The server's end closes: what was sent on it is lost, the ids and tokens
\* stay.
LEMMA ServerClosesKeeps ==
  ASSUME TokenInv, NEW s \in Socks, ServerCloses(s)
  PROVE  Agreed'
<1> USE DEF TokenInv, Types, LinkTypeOK, PersonTypeOK
<1>1. /\ state' = [state EXCEPT ![s] = "closed"] /\ state[s] = "open"
      /\ sent' = [sent EXCEPT ![s] = <<>>]
      /\ UNCHANGED <<pid, tokens, end, replies, person>>
  BY DEF ServerCloses, HandleClose
<1>2. UNCHANGED <<ws, held, me, status, timer>>
  BY <1>1 DEF person
<1>3. FirstOnly(<<>>) /\ ~Asks(<<>>)
  BY ShortQueues
<1>4. SocketsInOrder' /\ AuthOnce'
  BY <1>1, <1>2, <1>3 DEF Agreed, SocketsInOrder, AuthOnce, TypeOK
<1>5. UnderWay' \subseteq UnderWay
  BY <1>1, <1>3, NothingNewUnderWay
<1>6. TokensIssued'
  BY <1>1, <1>2, <1>5 DEF Agreed, TokensIssued
<1>7. \A v \in Users : SameClient(v)
  BY <1>1, <1>2 DEF SameClient
<1>8. GrantIsNewest'
  <2> SUFFICES ASSUME NEW v \in Users, Granted(v)'
               PROVE  Newest(v)'
    BY DEF GrantIsNewest
  <2>1. SameClient(v) /\ Granted(v) /\ Newest(v)
    BY <1>7, GrantKept DEF Agreed, GrantIsNewest
  <2>2. ~Asks(sent'[ws[v]])
    BY <2>1, <1>1, <1>3 DEF Newest
  <2> QED BY <2>1, <2>2, <1>1, <1>2, <1>5, NewestKept
<1>9. TokensApart'
  BY <1>7, GrantKept, ApartKept DEF Agreed
<1> QED BY <1>4, <1>6, <1>8, <1>9 DEF Agreed

\* The coordinator's connection is none of the clients'.
LEMMA CoordinatorConnectsKeeps ==
  ASSUME TokenInv, CoordinatorConnects
  PROVE  Agreed'
<1> USE DEF TokenInv, Types, LinkTypeOK, PersonTypeOK
<1> DEFINE n == Unused
<1>1. n \in Socks /\ end[n] = "none"
  BY UnusedIsNew DEF CoordinatorConnects
<1>2. /\ end' = [end EXCEPT ![n] = "coordinator"]
      /\ state' = [state EXCEPT ![n] = "open"]
      /\ UNCHANGED <<pid, tokens, sent, replies, person>>
  BY DEF CoordinatorConnects, HandleConnection, store
<1> HIDE DEF n
<1>3. UNCHANGED <<ws, held, me, status, timer>>
  BY <1>2 DEF person
<1>4. \A v \in Users : ws[v] # None => ws[v] # n
  BY <1>1 DEF Agreed, SocketsInOrder
<1>5. SocketsInOrder' /\ AuthOnce'
  BY <1>1, <1>2, <1>3, <1>4 DEF Agreed, SocketsInOrder, AuthOnce, TypeOK
<1>6. UnderWay' = UnderWay
  BY <1>2 DEF UnderWay
<1>7. TokensIssued'
  BY <1>2, <1>3, <1>6 DEF Agreed, TokensIssued
<1>8. \A v \in Users : SameClient(v)
  BY <1>2, <1>3 DEF SameClient
<1>9. GrantIsNewest'
  <2> SUFFICES ASSUME NEW v \in Users, Granted(v)'
               PROVE  Newest(v)'
    BY DEF GrantIsNewest
  <2>1. SameClient(v) /\ Granted(v) /\ Newest(v)
    BY <1>8, GrantKept DEF Agreed, GrantIsNewest
  <2>2. ~Asks(sent'[ws[v]]) /\ end'[ws[v]] = end[ws[v]]
    BY <2>1, <1>2, <1>4 DEF Newest
  <2> QED BY <2>1, <2>2, <1>2, <1>3, <1>6, NewestKept
<1>10. TokensApart'
  BY <1>8, GrantKept, ApartKept DEF Agreed
<1> QED BY <1>5, <1>7, <1>9, <1>10 DEF Agreed

\* Steps that touch neither connections nor tokens.
LEMMA StillKeeps ==
  ASSUME TokenInv, UNCHANGED <<state, pid, tokens, link, person>>
  PROVE  Agreed'
<1> USE DEF TokenInv, Types
<1>1. UNCHANGED <<end, sent, replies, ws, held, me, status, timer>>
  BY DEF link, person
<1>2. SocketsInOrder' /\ AuthOnce'
  BY <1>1 DEF Agreed, SocketsInOrder, AuthOnce
<1>3. UnderWay' = UnderWay
  BY <1>1 DEF UnderWay
<1>4. TokensIssued'
  BY <1>1, <1>3 DEF Agreed, TokensIssued
<1>5. \A v \in Users : SameClient(v)
  BY <1>1 DEF SameClient
<1>6. GrantIsNewest'
  <2> SUFFICES ASSUME NEW v \in Users, Granted(v)'
               PROVE  Newest(v)'
    BY DEF GrantIsNewest
  <2>1. SameClient(v) /\ Granted(v) /\ Newest(v)
    BY <1>5, GrantKept DEF Agreed, GrantIsNewest
  <2>2. ~Asks(sent'[ws[v]])
    BY <2>1, <1>1 DEF Newest
  <2> QED BY <2>1, <2>2, <1>1, <1>3, NewestKept
<1>7. TokensApart'
  BY <1>5, GrantKept, ApartKept DEF Agreed
<1> QED BY <1>2, <1>4, <1>6, <1>7 DEF Agreed

-----------------------------------------------------------------------------
(* The theorems *)

LEMMA TokenInvInit ==
  ASSUME Init, ClientInit
  PROVE  TokenInv
<1>1. TypeOK
  BY InitTyped
<1>2. LinkTypeOK /\ PersonTypeOK
  BY ShortQueues, ShortReplies DEF ClientInit, LinkTypeOK, PersonTypeOK
<1>3. SocketsInOrder
  BY DEF Init, ClientInit, SocketsInOrder
<1>4. AuthOnce
  BY ShortQueues, ShortReplies DEF Init, ClientInit, AuthOnce
<1>5. UnderWay = {}
  BY ShortQueues DEF ClientInit, UnderWay
<1>6. TokensIssued
  BY <1>5 DEF ClientInit, TokensIssued
<1>7. \A u \in Users : ~Granted(u) /\ Knows(u) = {}
  BY DEF ClientInit, Granted, Pending, Online, Knows
<1> QED
  BY <1>1, <1>2, <1>3, <1>4, <1>6, <1>7
     DEF TokenInv, Types, Agreed, GrantIsNewest, TokensApart

LEMMA TokenInvStep ==
  ASSUME TokenInv, [ReconnectionNext]_all
  PROVE  TokenInv'
<1> USE DEF TokenInv, Types
<1>1. TypeOK'
  BY RegistryStep, TypeStep
<1>2. CASE UNCHANGED all
  <2>1. UNCHANGED <<state, pid, tokens, link, person>>
    BY <1>2 DEF all, vars, sockets, store
  <2>2. LinkTypeOK' /\ PersonTypeOK'
    BY <2>1 DEF link, person, LinkTypeOK, PersonTypeOK
  <2> QED BY <1>1, <2>1, <2>2, StillKeeps
<1>3. ASSUME NEW u \in Users, ClientStep(u)
      PROVE  TokenInv'
  <2>1. LinkTypeOK' /\ PersonTypeOK'
    BY <1>3, ClientTypeStep DEF Agreed
  <2>2. CASE Connect(u)
    BY <1>1, <2>1, <2>2, ConnectKeeps
  <2>3. CASE Open(u)
    BY <1>1, <2>1, <2>3, OpenKeeps
  <2>4. CASE HandleAuthSuccess(u)
    BY <1>1, <2>1, <2>4, AuthSuccessKeeps
  <2>5. CASE HandleAuthFailed(u)
    BY <1>1, <2>1, <2>5, AuthFailedKeeps
  <2>6. CASE SetReady(u) \/ SubmitSignature(u) \/ RejectTransaction(u)
    <3>1. Online(u)
      BY <2>6, ReconnectionClient
         DEF SetReady, SubmitSignature, RejectTransaction, Online
    <3>2. Agreed'
      BY <2>6, <3>1, SendKeeps DEF SetReady, SubmitSignature, RejectTransaction
    <3> QED BY <1>1, <2>1, <3>2
  <2>7. CASE Disconnect(u) \/ ClientLearns(u) \/ ClientDrops(u)
    BY <1>1, <2>1, <2>7, LeavingKeeps DEF ClientLearns, ClientDrops
  <2> QED
    BY <1>3, <2>2, <2>3, <2>4, <2>5, <2>6, <2>7 DEF ClientStep
<1>4. ASSUME NEW s \in Socks, Serve(s) \/ ServerLearns(s) \/ ServerDrops(s)
      PROVE  TokenInv'
  <2>1. Serve(s) \/ ServerCloses(s)
    BY <1>4 DEF ServerLearns, ServerDrops
  <2>2. LinkTypeOK' /\ PersonTypeOK'
    BY <2>1, ServerTypeStep DEF Agreed
  <2>3. Agreed'
    BY <2>1, ServeAuthKeeps, ServeOtherKeeps, ServerClosesKeeps DEF Serve
  <2> QED BY <1>1, <2>2, <2>3
<1>5. CASE CoordinatorConnects
  <2>1. LinkTypeOK' /\ PersonTypeOK'
    BY <1>5, UnusedIsNew
       DEF CoordinatorConnects, person, LinkTypeOK, PersonTypeOK
  <2> QED BY <1>1, <1>5, <2>1, CoordinatorConnectsKeeps
<1>6. CASE CoordinatorJoins \/ CoordinatorActs
  <2>1. UNCHANGED <<state, pid, tokens, link, person>>
    BY <1>6
       DEF CoordinatorJoins, CoordinatorActs, HandleCoordinatorAuth,
           TransactionStep, HandleTransactionInject, HandleTransactionExpired,
           TransactionExecuted, store, sockets
  <2>2. LinkTypeOK' /\ PersonTypeOK'
    BY <2>1 DEF link, person, LinkTypeOK, PersonTypeOK
  <2> QED BY <1>1, <2>1, <2>2, StillKeeps
<1> QED BY <1>2, <1>3, <1>4, <1>5, <1>6 DEF ReconnectionNext

LEMMA TokenInvAlways == ReconnectionSpec => []TokenInv
<1>1. Init /\ ClientInit => TokenInv
  BY TokenInvInit
<1>2. TokenInv /\ [ReconnectionNext]_all => TokenInv'
  BY TokenInvStep
<1> QED BY <1>1, <1>2, PTL DEF ReconnectionSpec

\* Refinement: whatever clients and connections do, the server's half is a
\* behaviour of ParticipantRegistry, whose messages come at any time.
THEOREM RegistryImplemented == ReconnectionSpec => Spec
<1>1. TokenInv /\ [ReconnectionNext]_all => [Next]_vars
  BY RegistryStep DEF TokenInv, Types
<1> QED BY <1>1, TokenInvAlways, PTL DEF ReconnectionSpec, Spec

\* TypeOK, ConnectedCountExact and RegisteredIsLive, of the server with its
\* clients.
THEOREM RegistryInvariantsKept ==
  ReconnectionSpec => [](TypeOK /\ ConnectedCountExact /\ RegisteredIsLive)
BY RegistryImplemented, TypeCorrect, ConnectedCorrect, RegisteredCorrect, PTL

\* TokenAgreed: a client in the session holds the newest token of the id that
\* its socket has at the server, however connections drop and whatever is late.
THEOREM TokenAgreedAlways == ReconnectionSpec => []TokenAgreed
<1>1. TokenInv => TokenAgreed
  <2> SUFFICES ASSUME TokenInv, NEW u \in Users, Online(u)
               PROVE  /\ held[u] # None
                      /\ held[u].pid = me[u]
                      /\ held[u].number = tokens[me[u]]
                      /\ pid[ws[u]] = me[u]
    BY DEF TokenAgreed
  <2>1. Granted(u) /\ Newest(u)
    BY DEF Granted, TokenInv, Agreed, GrantIsNewest
  <2>2. Grant(u) = held[u]
    BY <2>1 DEF Newest, Grant, Pending
  <2> QED BY <2>1, <2>2, ReconnectionTokens DEF Newest, Issued
<1> QED BY <1>1, TokenInvAlways, PTL
=============================================================================
