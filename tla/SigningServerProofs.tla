------------------------- MODULE SigningServerProofs -------------------------
(***************************************************************************)
(* SigningServer for any participants, keys, transactions and threshold,   *)
(* any combination of its options and any bounds.                          *)
(***************************************************************************)
EXTENDS SigningServer, SequenceTheorems, FiniteSetTheorems, TLAPS

\* An execution that waits for the network or the mirror node is the head of
\* the lock's chain, so the Tail its end takes is that of a non-empty queue.
LockHeld == phase # "idle" => Head1("exec")

TypeInv == TypeOK /\ LockHeld

\* What Append, Tail and Head do to a chain of jobs.
LEMMA QueueFacts ==
  ASSUME NEW S, NEW q \in Seq(S)
  PROVE  /\ \A x \in S : Append(q, x) \in Seq(S) /\ Append(q, x) # <<>>
         /\ q # <<>> => Tail(q) \in Seq(S) /\ Head(q) \in S
         /\ \A x \in S : q # <<>> => Head(Append(q, x)) = Head(q)
  OBVIOUS

\* What is spelt like an eligible key is a key.
LEMMA EligibleIsKey ==
  ASSUME NEW k, isKeyEligible(k)
  PROVE  k \in Keys
<1>1. PICK e \in Eligible : toRawPublicKeyHex(e) = toRawPublicKeyHex(k)
  BY DEF isKeyEligible
<1>2. PICK pair \in KeyPairs : e \in pair
  BY KeysAssumption DEF Keys
<1>3. pair \in toRawPublicKeyHex(k)
  BY <1>1, <1>2 DEF toRawPublicKeyHex
<1> QED
  BY <1>3 DEF toRawPublicKeyHex, Keys

\* Reading a session (getSession) gives one of its statuses.
LEMMA ReadType ==
  ASSUME TypeOK, NEW st \in Statuses
  PROVE  Read(st) \in Statuses
  BY DEF Read, Statuses

\* A session as createSession leaves it has its types, and no lock is held.
LEMMA InitType == Init => TypeInv
<1> SUFFICES ASSUME Init PROVE TypeInv
  OBVIOUS
<1> USE DEF Init
<1>1. status \in Statuses /\ frozenTx \in Txs \cup {NoTx}
  BY DEF Statuses
<1>2. sigs \in [Keys -> Txs \cup {NoTx}]
  BY DEF NoSigs
<1>3. part \in [Pids -> PartStates]
  BY DEF PartStates
<1>4. round \in Nat
  OBVIOUS
<1>5. queue \in Seq(Jobs) /\ submitted \in Seq(HandedOverTxs)
  BY EmptySeq
<1> QED
  BY <1>1, <1>2, <1>3, <1>4, <1>5, FlagsAssumption DEF TypeInv, TypeOK, LockHeld

\* No handler, promise job or timer breaks a type, or takes the lock from an
\* execution that waits for the network.
LEMMA NextType == TypeInv /\ [Next]_vars => TypeInv'
<1> SUFFICES ASSUME TypeInv, [Next]_vars PROVE TypeInv'
  OBVIOUS
<1> USE DEF TypeInv, TypeOK, LockHeld, links, lock, history, session, Settle
<1>1. ASSUME NEW p \in Pids, HandleAuth(p) PROVE TypeInv'
  BY <1>1, ReadType DEF HandleAuth, PartStates, Head1
<1>2. ASSUME NEW p \in Pids, HandleReconnect(p) PROVE TypeInv'
  BY <1>2, ReadType DEF HandleReconnect, Head1
<1>3. ASSUME NEW p \in Pids, HandleClose(p) PROVE TypeInv'
  BY <1>3, ReadType DEF HandleClose, Head1, Removed, PartStates
<1>4. ASSUME NEW p \in Pids, HandleParticipantReady(p) PROVE TypeInv'
  BY <1>4, ReadType DEF HandleParticipantReady, Head1, PartStates
<1>4a. ASSUME NEW p \in Pids, NEW named \in InSession \ {"signed"},
              HandleStatusUpdate(p, named)
       PROVE  TypeInv'
  <2>1. named \in PartStates
    BY DEF InSession, PartStates
  <2> QED
    BY <1>4a, <2>1, ReadType DEF HandleStatusUpdate, Head1
<1>5. ASSUME NEW p \in Pids, HandleTransactionRejected(p) PROVE TypeInv'
  BY <1>5, ReadType DEF HandleTransactionRejected, Head1, PartStates, DropTransaction, NoSigs, Unsigned, Statuses
<1>6. ASSUME NEW p \in Pids, NEW k \in Keys, NEW t \in Txs,
             HandleSignatureSubmit(p, k, t)
      PROVE  TypeInv'
  BY <1>6, QueueFacts DEF HandleSignatureSubmit, Head1, Submission, Jobs
<1>7. ASSUME HandleCoordinatorAuth \/ HandleCoordinatorClose PROVE TypeInv'
  BY <1>7 DEF HandleCoordinatorAuth, HandleCoordinatorClose, Head1
<1>8. ASSUME HandleResetTransaction PROVE TypeInv'
  BY <1>8, ReadType DEF HandleResetTransaction, Head1, DropTransaction, NoSigs, Statuses
<1>9. ASSUME HandleScheduleAnnounce \/ CancelSession PROVE TypeInv'
  BY <1>9, ReadType DEF HandleScheduleAnnounce, CancelSession, Head1, Statuses
<1>10. ASSUME HandleExecuteTransaction \/ ContinueToExecution PROVE TypeInv'
  <2>1. queue' = Append(queue, Execution) /\ Execution \in Jobs
    BY <1>10 DEF HandleExecuteTransaction, ContinueToExecution, Jobs
  <2>2. queue' \in Seq(Jobs) /\ (phase # "idle" => Head1("exec"))'
    BY <2>1, <1>10, QueueFacts DEF HandleExecuteTransaction, ContinueToExecution, Head1
  <2>3. CASE HandleExecuteTransaction
    BY <2>3, <2>2 DEF HandleExecuteTransaction
  <2>4. CASE ContinueToExecution
    BY <2>4, <2>2, ReadType DEF ContinueToExecution
  <2> QED
    BY <1>10, <2>3, <2>4
<1>11. ASSUME NEW t \in Txs, HandleTransactionInject(t) PROVE TypeInv'
  BY <1>11 DEF HandleTransactionInject, Head1
<1>12. ASSUME NEW t \in Txs, InjectTransaction(t) PROVE TypeInv'
  BY <1>12 DEF InjectTransaction, Head1, Statuses
<1>13. ASSUME NEW t \in Txs, NEW x \in Expiries,
              HandleDetailedInject(t, x) \/ HandleDecoded(t, x)
       PROVE  TypeInv'
  <2>1. ASSUME Inject(t, x)
        PROVE  /\ status' \in Statuses
               /\ frozenTx' \in Txs \cup {NoTx} /\ sigs' \in [Keys -> Txs \cup {NoTx}]
               /\ part' \in [Pids -> PartStates] /\ window' \in {"unset", "open", "over"}
               /\ timer' \in Nat /\ round' \in Nat
               /\ UNCHANGED <<scheduled, life, handlers>>
    BY <2>1, ReadType DEF Inject, NoSigs, Unsigned, PartStates, Statuses
  <2>2. CASE HandleDetailedInject(t, x)
    BY <2>1, <2>2 DEF HandleDetailedInject, Head1
  <2>3. CASE HandleDecoded(t, x)
    BY <2>1, <2>3 DEF HandleDecoded, Head1
  <2> QED
    BY <1>13, <2>2, <2>3
<1>14. ASSUME SubmitRefused PROVE TypeInv'
  <2>1. status' \in Statuses
    BY <1>14, ReadType DEF SubmitRefused, StatusOnSubmit, Statuses
  <2> QED
    BY <1>14, <2>1, QueueFacts DEF SubmitRefused, Head1
<1>15. ASSUME SubmitAccepted PROVE TypeInv'
  <2>1. status' \in Statuses
    BY <1>15, ReadType DEF SubmitAccepted, StatusOnSubmit, Statuses
  <2>2. Head(queue) \in Jobs /\ Head(queue).kind = "submit"
    BY <1>15, QueueFacts DEF SubmitAccepted, Head1
  <2>3. Head(queue) \in [kind : {"submit"}, pid : Pids, key : Keys, tx : Txs]
    BY <2>2 DEF Jobs, Execution, Deadlocked
  <2>4. sigs' \in [Keys -> Txs \cup {NoTx}] /\ part' \in [Pids -> PartStates]
    BY <1>15, <2>3 DEF SubmitAccepted, PartStates
  <2>5. queue' \in Seq(Jobs)
    <3> DEFINE met == Cardinality(Collected') >= Threshold
               front == IF met /\ AutoExecute THEN <<Deadlocked>> ELSE <<>>
    <3>1. front \in Seq(Jobs) /\ Chained(met) \in Seq(Jobs)
      <4>1. Execution \in Jobs /\ Deadlocked \in Jobs
        BY DEF Jobs
      <4> QED
        BY <4>1 DEF Chained
    <3>2. Tail(queue) \in Seq(Jobs)
      BY <1>15, QueueFacts DEF SubmitAccepted, Head1
    <3> QED
      BY <1>15, <3>1, <3>2, ConcatProperties DEF SubmitAccepted
  <2>6. phase = "idle"
    BY <1>15, <2>2 DEF Head1
  <2> QED
    BY <1>15, <2>1, <2>4, <2>5, <2>6 DEF SubmitAccepted
<1>16. ASSUME ExecutionRefused PROVE TypeInv'
  BY <1>16, ReadType, QueueFacts DEF ExecutionRefused, Head1
<1>17. ASSUME ExecutionStarts PROVE TypeInv'
  <2> DEFINE out == [round |-> round, tx |-> frozenTx, sigs |-> sigs]
  <2>1. out \in HandedOverTxs
    BY DEF HandedOverTxs
  <2>2. submitted' \in Seq(HandedOverTxs)
    BY <1>17, <2>1, QueueFacts DEF ExecutionStarts
  <2> QED
    BY <1>17, <2>2 DEF ExecutionStarts, Head1, Statuses
<1>18. ASSUME NetworkAccepts PROVE TypeInv'
  BY <1>18 DEF NetworkAccepts, Head1, Statuses
<1>19. ASSUME NetworkRefuses \/ MirrorDone PROVE TypeInv'
  <2>1. status' \in Statuses
    BY <1>19, ReadType DEF NetworkRefuses, MirrorDone, Statuses
  <2>2. queue' \in Seq(Jobs)
    BY <1>19, QueueFacts DEF NetworkRefuses, MirrorDone, Head1
  <2>3. CASE NetworkRefuses
    BY <2>1, <2>2, <2>3 DEF NetworkRefuses
  <2>4. CASE MirrorDone
    BY <2>1, <2>2, <2>4 DEF MirrorDone
  <2> QED
    BY <1>19, <2>3, <2>4
<1>20. ASSUME HandleTransactionExpired PROVE TypeInv'
  BY <1>20 DEF HandleTransactionExpired, DropTransaction, NoSigs, Head1, Statuses
<1>21. ASSUME WindowElapses \/ SessionElapses PROVE TypeInv'
  BY <1>21 DEF WindowElapses, SessionElapses, Head1
<1>22. ASSUME CleanupExpiredSessions \/ ReadSession PROVE TypeInv'
  BY <1>22, ReadType DEF CleanupExpiredSessions, ReadSession, Head1, Statuses
<1>23. CASE UNCHANGED vars
  BY <1>23 DEF vars, Head1
<1> QED
  BY <1>1, <1>2, <1>3, <1>4, <1>4a, <1>5, <1>6, <1>7, <1>8, <1>9, <1>10, <1>11,
     <1>12, <1>13, <1>14, <1>15, <1>16, <1>17, <1>18, <1>19, <1>20, <1>21, <1>22, <1>23
  DEF Next, ParticipantActs, CoordinatorActs, ServerActs, TimeActs

\* Every variable keeps its type, and an execution in flight holds the lock.
THEOREM LockCorrect == Spec => []TypeInv
<1>1. Init => TypeInv
  BY InitType
<1>2. TypeInv /\ [Next]_vars => TypeInv'
  BY NextType
<1> QED
  BY <1>1, <1>2, PTL DEF Spec

\* The session record, the lock's queue and the ledger keep their types: in
\* particular status stays one of the states shared/protocol.js declares.
THEOREM TypeCorrect == Spec => []TypeOK
<1>1. TypeInv => TypeOK
  BY DEF TypeInv
<1> QED
  BY <1>1, LockCorrect, PTL

-----------------------------------------------------------------------------
(* Status, transaction and signatures *)

\* The session object is deleted only once it is marked expired, and nothing
\* marks it otherwise afterwards.
GoneIsExpired == ~Exists => status = "expired"

\* A transaction on offer was injected.
OfferIsNumbered == frozenTx # NoTx => round # 0

SessionInv ==
  /\ SignaturesMatchTransaction
  /\ StatusMatchesTransaction
  /\ ExecutingIsUnderWay
  /\ TimerMatchesTransaction
  /\ GoneIsExpired
  /\ OfferIsNumbered

\* A new session satisfies SessionInv, with or without a first transaction.
LEMMA InitSession == Init => SessionInv
<1> SUFFICES ASSUME Init PROVE SessionInv
  OBVIOUS
<1>1. Collected = {}
  BY DEF Init, NoSigs, Collected
<1> QED
  BY <1>1
  DEF Init, SessionInv, SignaturesMatchTransaction, StatusMatchesTransaction,
      ExecutingIsUnderWay, TimerMatchesTransaction, GoneIsExpired, OfferIsNumbered, Exists

\* Threshold is at least one, so a session that meets it holds a signature
\* and, by SignaturesMatchTransaction, a transaction.
LEMMA ThresholdFacts ==
  ASSUME TypeOK, SessionInv, ThresholdMet
  PROVE  /\ Collected # {}
         /\ frozenTx # NoTx
         /\ status # "waiting"
<1>1. Collected # {}
  BY FS_EmptySet, ThresholdAssumption DEF ThresholdMet
<1>2. frozenTx # NoTx
  BY <1>1 DEF SessionInv, SignaturesMatchTransaction, Collected
<1> QED
  BY <1>1, <1>2 DEF SessionInv, StatusMatchesTransaction

\* The paths that drop the transaction drop every signature.
LEMMA DropFacts ==
  ASSUME sigs' = NoSigs
  PROVE  Collected' = {}
  BY DEF NoSigs, Collected

\* Settling a status either keeps it or marks the session expired.
LEMMA SettleFacts ==
  ASSUME NEW st
  PROVE  /\ Read(st) \in {st, "expired"}
         /\ ~Exists => Read(st) = st
  BY DEF Read, Exists

\* Actions that only read the session, or touch what SessionInv does not
\* mention, keep it.
LEMMA QuietStep ==
  ASSUME SessionInv,
         UNCHANGED <<frozenTx, sigs, timer, round, phase, running>>,
         status' \in {status, "expired"},
         ~Exists' => status' = "expired"
  PROVE  SessionInv'
  BY DEF SessionInv, SignaturesMatchTransaction, StatusMatchesTransaction,
         ExecutingIsUnderWay, TimerMatchesTransaction, GoneIsExpired, OfferIsNumbered,
         Collected, Exists

\* So do the paths back to 'waiting'.
LEMMA DroppingStep ==
  ASSUME TypeOK, SessionInv, Exists, UNCHANGED <<life, phase, running, round>>,
         frozenTx' = NoTx, sigs' = NoSigs,
         status' \in {"waiting", "expired"}
  PROVE  SessionInv'
  BY DropFacts
  DEF SessionInv, SignaturesMatchTransaction, StatusMatchesTransaction,
      ExecutingIsUnderWay, TimerMatchesTransaction, GoneIsExpired, OfferIsNumbered, Exists

\* _handleTransactionInject keeps SessionInv whatever state it meets, because
\* it drops the signatures of the transaction it replaces.
LEMMA InjectStep ==
  ASSUME TypeOK, SessionInv, Exists, UNCHANGED <<phase, running>>,
         NEW t \in Txs, NEW x \in Expiries, Inject(t, x)
  PROVE  SessionInv'
<1>1. CASE x = "past"
  BY <1>1, DroppingStep DEF Inject
<1>2. CASE x # "past"
  <2>1. Collected' = {} /\ frozenTx' # NoTx /\ round' # 0
    BY <1>2, DropFacts, NoTxAssumption DEF Inject, TypeOK
  <2>2. status' \in {"transaction-received", "expired"}
    BY <1>2, SettleFacts DEF Inject, Settle
  <2>3. timer' = 0 \/ timer' = round'
    BY <1>2 DEF Inject
  <2>4. Exists'
    BY DEF Inject, Exists
  <2> QED
    BY <2>1, <2>2, <2>3, <2>4
    DEF SessionInv, SignaturesMatchTransaction, StatusMatchesTransaction,
        ExecutingIsUnderWay, TimerMatchesTransaction, GoneIsExpired, OfferIsNumbered
<1> QED
  BY <1>1, <1>2

\* SessionInv is preserved by every step.
LEMMA NextSession == TypeInv /\ SessionInv /\ [Next]_vars => SessionInv'
<1> SUFFICES ASSUME TypeInv, SessionInv, [Next]_vars PROVE SessionInv'
  OBVIOUS
<1> USE DEF links, lock, history, session, Settle
<1>0. TypeOK
  BY DEF TypeInv
<1>g. ~Exists => status = "expired"
  BY DEF SessionInv, GoneIsExpired
<1>1. ASSUME NEW p \in Pids,
             \/ HandleAuth(p) \/ HandleReconnect(p) \/ HandleClose(p)
             \/ HandleParticipantReady(p)
             \/ \E named \in InSession \ {"signed"} : HandleStatusUpdate(p, named)
      PROVE  SessionInv'
  <2>1. UNCHANGED <<frozenTx, sigs, timer, round, phase, running, life>>
    BY <1>1 DEF HandleAuth, HandleReconnect, HandleClose, HandleParticipantReady,
                HandleStatusUpdate
  <2>2. status' = Read(status)
    BY <1>1 DEF HandleAuth, HandleReconnect, HandleClose, HandleParticipantReady,
                HandleStatusUpdate
  <2> QED
    BY <2>1, <2>2, <1>g, SettleFacts, QuietStep DEF Exists
<1>2. ASSUME NEW p \in Pids, HandleTransactionRejected(p) PROVE SessionInv'
  <2>1. status' \in {"waiting", "expired"}
    BY <1>2, SettleFacts DEF HandleTransactionRejected
  <2> QED
    BY <1>0, <1>2, <2>1, DroppingStep DEF HandleTransactionRejected, DropTransaction
<1>3. ASSUME NEW p \in Pids, NEW k \in Keys, NEW t \in Txs,
             HandleSignatureSubmit(p, k, t)
      PROVE  SessionInv'
  BY <1>3, <1>g, QuietStep DEF HandleSignatureSubmit, Exists
<1>4. ASSUME \/ HandleCoordinatorAuth \/ HandleCoordinatorClose
             \/ HandleExecuteTransaction
             \/ \E t \in Txs : HandleTransactionInject(t)
      PROVE  SessionInv'
  <2>1. UNCHANGED <<status, frozenTx, sigs, timer, round, phase, running, life>>
    BY <1>4 DEF HandleCoordinatorAuth, HandleCoordinatorClose,
                HandleExecuteTransaction, HandleTransactionInject
  <2> QED
    BY <2>1, <1>g, QuietStep DEF Exists
<1>5. ASSUME HandleResetTransaction PROVE SessionInv'
  <2>1. CASE Read(status) \in ResetableStates
    <3>1. status' = "waiting"
      BY <1>5, <2>1 DEF HandleResetTransaction, Read, ResetableStates
    <3> QED
      BY <1>0, <1>5, <2>1, <3>1, DroppingStep DEF HandleResetTransaction, DropTransaction
  <2>2. CASE Read(status) \notin ResetableStates
    <3>1. status' \in {status, "expired"}
      BY <1>5, <2>2 DEF HandleResetTransaction, Read, ResetableStates
    <3> QED
      BY <1>5, <2>2, <3>1, QuietStep DEF HandleResetTransaction, Exists
  <2> QED
    BY <2>1, <2>2
<1>6. ASSUME HandleScheduleAnnounce \/ ReadSession \/ ContinueToExecution
             \/ ExecutionRefused
      PROVE  SessionInv'
  <2>1. UNCHANGED <<frozenTx, sigs, timer, round, phase, running, life>>
    BY <1>6 DEF HandleScheduleAnnounce, ReadSession, ContinueToExecution, ExecutionRefused
  <2>2. status' = Read(status)
    BY <1>6 DEF HandleScheduleAnnounce, ReadSession, ContinueToExecution, ExecutionRefused
  <2> QED
    BY <2>1, <2>2, <1>g, SettleFacts, QuietStep DEF Exists
<1>7. ASSUME CancelSession PROVE SessionInv'
  BY <1>7 DEF CancelSession, SessionInv, SignaturesMatchTransaction,
     StatusMatchesTransaction, ExecutingIsUnderWay, TimerMatchesTransaction,
     GoneIsExpired, OfferIsNumbered, Collected, Exists
<1>8. ASSUME NEW t \in Txs, InjectTransaction(t) PROVE SessionInv'
  <2>1. status = "waiting" /\ Collected = {}
    BY <1>8, SettleFacts DEF InjectTransaction, SessionInv, StatusMatchesTransaction
  <2>2. Collected' = {}
    BY <1>8, <2>1 DEF InjectTransaction, Collected
  <2>3. frozenTx' # NoTx /\ status' = "transaction-received" /\ round' # 0 /\ LocalInject
    BY <1>0, <1>8, NoTxAssumption DEF InjectTransaction, TypeOK
  <2> QED
    BY <1>8, <2>2, <2>3
    DEF InjectTransaction, SessionInv, SignaturesMatchTransaction,
        StatusMatchesTransaction, ExecutingIsUnderWay, TimerMatchesTransaction,
        GoneIsExpired, OfferIsNumbered, Exists
<1>9. ASSUME NEW t \in Txs, NEW x \in Expiries, HandleDetailedInject(t, x)
      PROVE  SessionInv'
  BY <1>0, <1>9, InjectStep DEF HandleDetailedInject
<1>10. ASSUME NEW t \in Txs, NEW x \in Expiries, HandleDecoded(t, x)
       PROVE  SessionInv'
  <2>1. CASE Exists
    BY <1>0, <1>10, <2>1, InjectStep DEF HandleDecoded
  <2>2. CASE ~Exists
    BY <1>10, <1>g, <2>2, QuietStep DEF HandleDecoded, Exists
  <2> QED
    BY <2>1, <2>2
<1>11. ASSUME SubmitRefused PROVE SessionInv'
  <2>1. CASE Exists /\ TakesSignatures
    <3>1. frozenTx # NoTx /\ status' \in {"signing", status, "expired"}
      BY <1>11, <2>1, SettleFacts
      DEF SubmitRefused, StatusOnSubmit, TakesSignatures, Read, SessionInv,
          StatusMatchesTransaction
    <3> QED
      BY <1>11, <2>1, <3>1
      DEF SubmitRefused, SessionInv, SignaturesMatchTransaction,
          StatusMatchesTransaction, ExecutingIsUnderWay, TimerMatchesTransaction,
          GoneIsExpired, OfferIsNumbered, Collected, Exists
  <2>2. CASE ~(Exists /\ TakesSignatures)
    <3>1. status' \in {status, "expired"}
      BY <1>11, <2>2, SettleFacts DEF SubmitRefused, StatusOnSubmit
    <3> QED
      BY <1>11, <1>g, <2>2, <3>1, QuietStep DEF SubmitRefused, Exists
  <2> QED
    BY <2>1, <2>2
<1>12. ASSUME SubmitAccepted PROVE SessionInv'
  <2> DEFINE job == Head(queue)
  <2>1. /\ Acceptable(job) /\ sigs' = [sigs EXCEPT ![job.key] = frozenTx]
        /\ isKeyEligible(job.key) /\ frozenTx # NoTx /\ Exists
    BY <1>12 DEF SubmitAccepted, Acceptable, TakesSignatures
  <2>2. status' \in {"signing", "transaction-received"}
    BY <1>12, <2>1
    DEF SubmitAccepted, Acceptable, TakesSignatures, StatusOnSubmit
  <2>3. SignaturesMatchTransaction'
    BY <1>0, <1>12, <2>1
    DEF SubmitAccepted, SessionInv, SignaturesMatchTransaction, Collected, TypeOK
  <2> QED
    BY <1>12, <2>1, <2>2, <2>3
    DEF SubmitAccepted, SessionInv, StatusMatchesTransaction, ExecutingIsUnderWay,
        TimerMatchesTransaction, GoneIsExpired, OfferIsNumbered, Exists
<1>13. ASSUME ExecutionStarts PROVE SessionInv'
  <2>1. frozenTx # NoTx /\ round # 0 /\ Exists
    BY <1>0, <1>13, ThresholdFacts
    DEF ExecutionStarts, Executable, SessionInv, OfferIsNumbered
  <2> QED
    BY <1>13, <2>1
    DEF ExecutionStarts, SessionInv, SignaturesMatchTransaction,
        StatusMatchesTransaction, ExecutingIsUnderWay, TimerMatchesTransaction,
        GoneIsExpired, OfferIsNumbered, Collected, Exists
<1>14. ASSUME NetworkAccepts PROVE SessionInv'
  BY <1>14, <1>g
  DEF NetworkAccepts, SessionInv, SignaturesMatchTransaction,
      StatusMatchesTransaction, ExecutingIsUnderWay, TimerMatchesTransaction,
      GoneIsExpired, OfferIsNumbered, Collected, Exists
<1>15. ASSUME NetworkRefuses PROVE SessionInv'
  <2>1. /\ status' \in {status, "expired", "execution-failed"}
        /\ status' # "executing"
        /\ Exists \/ status' = "expired"
    BY <1>15, <1>g, SettleFacts DEF NetworkRefuses
  <2> QED
    BY <1>15, <2>1
    DEF NetworkRefuses, SessionInv, SignaturesMatchTransaction,
        StatusMatchesTransaction, ExecutingIsUnderWay, TimerMatchesTransaction,
        GoneIsExpired, OfferIsNumbered, Collected, Exists
<1>16. ASSUME MirrorDone PROVE SessionInv'
  <2>1. /\ status' \in {status, "expired"} /\ status' # "executing"
        /\ Exists \/ status' = "expired"
    BY <1>16, <1>g, SettleFacts DEF MirrorDone, SessionInv, ExecutingIsUnderWay
  <2> QED
    BY <1>16, <2>1
    DEF MirrorDone, SessionInv, SignaturesMatchTransaction,
        StatusMatchesTransaction, ExecutingIsUnderWay, TimerMatchesTransaction,
        GoneIsExpired, OfferIsNumbered, Collected, Exists
<1>17. ASSUME HandleTransactionExpired PROVE SessionInv'
  <2>1. CASE Exists /\ Read(status) # "completed"
    BY <1>17, <2>1, DropFacts
    DEF HandleTransactionExpired, DropTransaction, SessionInv,
        SignaturesMatchTransaction, StatusMatchesTransaction, ExecutingIsUnderWay,
        TimerMatchesTransaction, GoneIsExpired, OfferIsNumbered, Exists
  <2>2. CASE ~(Exists /\ Read(status) # "completed")
    BY <1>17, <2>2
    DEF HandleTransactionExpired, SessionInv, SignaturesMatchTransaction,
        StatusMatchesTransaction, ExecutingIsUnderWay, TimerMatchesTransaction,
        GoneIsExpired, OfferIsNumbered, Collected, Exists
  <2> QED
    BY <2>1, <2>2
<1>18. ASSUME WindowElapses \/ SessionElapses PROVE SessionInv'
  BY <1>18, QuietStep DEF WindowElapses, SessionElapses, Exists, SessionInv, GoneIsExpired
<1>19. ASSUME CleanupExpiredSessions PROVE SessionInv'
  BY <1>19, QuietStep DEF CleanupExpiredSessions
<1>20. CASE UNCHANGED vars
  BY <1>20, <1>g, QuietStep DEF vars, Exists
<1> QED
  BY <1>1, <1>2, <1>3, <1>4, <1>5, <1>6, <1>7, <1>8, <1>9, <1>10, <1>11, <1>12,
     <1>13, <1>14, <1>15, <1>16, <1>17, <1>18, <1>19, <1>20
  DEF Next, ParticipantActs, CoordinatorActs, ServerActs, TimeActs

-----------------------------------------------------------------------------
(* What goes to the network *)

\* Rounds are numbered in the order of injection.
RoundsAreCounted == \A i \in DOMAIN submitted : submitted[i].round <= round

LedgerInv ==
  /\ RoundsAreCounted
  /\ SubmittedIsClosed
  /\ SubmissionsApproved
  /\ SubmittedOnce

\* Nothing has been handed to the network at first.
LEMMA InitLedger == Init => LedgerInv
  BY DEF Init, LedgerInv, RoundsAreCounted, SubmittedIsClosed, SubmissionsApproved,
         SubmittedOnce

\* Only a session in 'transaction-received' or 'signing' can pass the checks of
\* an execution that begins, so a round that was submitted is not submitted
\* again: this is where SubmittedIsClosed is needed.
LEMMA StartFacts ==
  ASSUME TypeInv, SessionInv, LedgerInv, ExecutionStarts
  PROVE  /\ status \in {"transaction-received", "signing"}
         /\ \A i \in DOMAIN submitted : submitted[i].round < round
         /\ frozenTx # NoTx
<1>1. status # "waiting" /\ frozenTx # NoTx
  BY ThresholdFacts DEF ExecutionStarts, Executable, TypeInv
<1>2. status # "executing"
  BY DEF ExecutionStarts, SessionInv, ExecutingIsUnderWay
<1>3. status \notin {"completed", "execution-failed", "cancelled", "expired"}
  BY DEF ExecutionStarts, Executable, Read
<1>4. status \in {"transaction-received", "signing"}
  BY <1>1, <1>2, <1>3 DEF TypeInv, TypeOK, Statuses
<1>5. \A i \in DOMAIN submitted : submitted[i].round < round
  <2> SUFFICES ASSUME NEW i \in DOMAIN submitted
               PROVE  submitted[i].round < round
    OBVIOUS
  <2>1. submitted[i].round # round /\ submitted[i].round <= round
    BY <1>4 DEF LedgerInv, SubmittedIsClosed, RoundsAreCounted
  <2>2. submitted[i] \in HandedOverTxs /\ round \in Nat
    BY ElementOfSeq DEF TypeInv, TypeOK
  <2> QED
    BY <2>1, <2>2 DEF HandedOverTxs
<1> QED
  BY <1>1, <1>4, <1>5

\* A step that leaves the ledger alone keeps it in order when it opens no
\* submitted round: it stays in the round without moving to a status that
\* takes signatures, or begins a later round.
LEMMA UnsubmittedStep ==
  ASSUME TypeOK, LedgerInv, UNCHANGED submitted,
         \/ round' = round
            /\ (status' \in {"transaction-received", "signing"} =>
                  status \in {"transaction-received", "signing"})
         \/ round' = round + 1
  PROVE  LedgerInv'
<1>1. \A i \in DOMAIN submitted : submitted[i].round \in Nat
  <2>1. \A i \in DOMAIN submitted : submitted[i] \in HandedOverTxs
    BY ElementOfSeq DEF TypeOK
  <2> QED
    BY <2>1 DEF HandedOverTxs
<1>2. SubmissionsApproved' /\ SubmittedOnce'
  BY DEF LedgerInv, SubmissionsApproved, SubmittedOnce, Signers
<1>3. RoundsAreCounted' /\ SubmittedIsClosed'
  BY <1>1 DEF LedgerInv, RoundsAreCounted, SubmittedIsClosed, TypeOK
<1> QED
  BY <1>2, <1>3 DEF LedgerInv

\* Every action but ExecutionStarts is such a step.
LEMMA UnsubmittedNext ==
  ASSUME TypeInv, SessionInv, [Next]_vars, ~ExecutionStarts
  PROVE  /\ UNCHANGED submitted
         /\ \/ round' = round
               /\ (status' \in {"transaction-received", "signing"} =>
                     status \in {"transaction-received", "signing"})
            \/ round' = round + 1
<1> USE DEF session, history, Settle, Read
<1>1. CASE \E p \in Pids : ParticipantActs(p)
  BY <1>1 DEF ParticipantActs, HandleAuth, HandleReconnect, HandleClose,
     HandleParticipantReady, HandleStatusUpdate, HandleTransactionRejected,
     HandleSignatureSubmit
<1>2. CASE CoordinatorActs
  BY <1>2 DEF CoordinatorActs, HandleCoordinatorAuth, HandleCoordinatorClose,
     HandleResetTransaction, HandleScheduleAnnounce, HandleExecuteTransaction,
     CancelSession, HandleTransactionInject, InjectTransaction,
     HandleDetailedInject, Inject, ResetableStates
<1>3. CASE ServerActs
  BY <1>3 DEF ServerActs, SubmitRefused, SubmitAccepted, StatusOnSubmit,
     TakesSignatures, ContinueToExecution, ExecutionRefused, NetworkAccepts,
     NetworkRefuses, MirrorDone, HandleDecoded, Inject
<1>4. CASE TimeActs
  BY <1>4 DEF TimeActs, HandleTransactionExpired, WindowElapses, SessionElapses,
     CleanupExpiredSessions, ReadSession
<1>5. CASE UNCHANGED vars
  BY <1>5 DEF vars
<1> QED
  BY <1>1, <1>2, <1>3, <1>4, <1>5 DEF Next

\* LedgerInv is preserved by every step; only ExecutionStarts adds an entry.
LEMMA NextLedger ==
  TypeInv /\ SessionInv /\ LedgerInv /\ [Next]_vars => LedgerInv'
<1> SUFFICES ASSUME TypeInv, SessionInv, LedgerInv, [Next]_vars PROVE LedgerInv'
  OBVIOUS
<1>1. CASE ExecutionStarts
  <2> DEFINE out == [round |-> round, tx |-> frozenTx, sigs |-> sigs]
             n == Len(submitted)
  <2>1. /\ submitted \in Seq(HandedOverTxs) /\ out \in HandedOverTxs
        /\ round \in Nat
    BY DEF TypeInv, TypeOK, HandedOverTxs
  <2>2. submitted' = Append(submitted, out) /\ round' = round /\ status' = "executing"
    BY <1>1 DEF ExecutionStarts
  <2>3. /\ DOMAIN submitted' = 1 .. n + 1
        /\ DOMAIN submitted = 1 .. n
        /\ n \in Nat
        /\ submitted'[n + 1] = out
        /\ \A i \in 1 .. n : submitted'[i] = submitted[i]
    BY <2>1, <2>2
  <2>4. \A i \in 1 .. n : submitted[i].round < round /\ submitted[i].round \in Nat
    <3>1. \A i \in 1 .. n : submitted[i] \in HandedOverTxs
      BY <2>1, <2>3, ElementOfSeq
    <3> QED
      BY <1>1, <2>3, <3>1, StartFacts DEF HandedOverTxs
  <2>5. RoundsAreCounted'
    BY <2>1, <2>2, <2>3, <2>4 DEF RoundsAreCounted
  <2>6. SubmittedIsClosed'
    BY <2>2 DEF SubmittedIsClosed
  <2>7. SubmittedOnce'
    <3>1. \A i, j \in 1 .. n : submitted[i].round = submitted[j].round => i = j
      BY <2>3 DEF LedgerInv, SubmittedOnce
    <3>2. out.round = round
      OBVIOUS
    <3> QED
      BY <2>1, <2>3, <2>4, <3>1, <3>2 DEF SubmittedOnce
  <2>8. SubmissionsApproved'
    <3>1. /\ out.tx # NoTx /\ Signers(out) = Collected
          /\ Cardinality(Collected) >= Threshold
          /\ \A k \in Collected : sigs[k] = frozenTx /\ isKeyEligible(k)
      BY <1>1, StartFacts
      DEF ExecutionStarts, Executable, ThresholdMet, Signers, Collected, SessionInv,
          SignaturesMatchTransaction
    <3>2. \A k \in Signers(out) : out.sigs[k] = out.tx /\ isKeyEligible(k)
      BY <3>1
    <3>3. Cardinality(Signers(out)) >= Threshold
      BY <3>1
    <3>4. \A i \in 1 .. n :
            /\ submitted[i].tx # NoTx
            /\ Cardinality(Signers(submitted[i])) >= Threshold
            /\ \A k \in Signers(submitted[i]) :
                 submitted[i].sigs[k] = submitted[i].tx /\ isKeyEligible(k)
      BY <2>3 DEF LedgerInv, SubmissionsApproved
    <3> HIDE DEF out
    <3> SUFFICES ASSUME NEW i \in 1 .. n + 1
                 PROVE  /\ submitted'[i].tx # NoTx
                        /\ Cardinality(Signers(submitted'[i])) >= Threshold
                        /\ \A k \in Signers(submitted'[i]) :
                             submitted'[i].sigs[k] = submitted'[i].tx /\ isKeyEligible(k)
      BY <2>3 DEF SubmissionsApproved, Signers
    <3>5. CASE i \in 1 .. n
      BY <2>3, <3>4, <3>5
    <3>6. CASE i = n + 1
      BY <2>3, <3>1, <3>2, <3>3, <3>6
    <3> QED
      BY <2>3, <3>5, <3>6
  <2> QED
    BY <2>5, <2>6, <2>7, <2>8 DEF LedgerInv
<1>2. CASE ~ExecutionStarts
  BY <1>2, UnsubmittedNext, UnsubmittedStep DEF TypeInv
<1> QED
  BY <1>1, <1>2

-----------------------------------------------------------------------------
(* The inductive invariant, and what it yields *)

IInv == TypeInv /\ SessionInv /\ LedgerInv

\* The inductive invariant holds of every behaviour.
LEMMA Inductive == Spec => []IInv
<1>1. Init => IInv
  BY InitType, InitSession, InitLedger DEF IInv
<1>2. IInv /\ [Next]_vars => IInv'
  BY NextType, NextSession, NextLedger DEF IInv
<1> QED
  BY <1>1, <1>2, PTL DEF Spec

\* The signatures a session holds are those of its transaction, on every path
\* that replaces or drops a transaction.
THEOREM SignaturesMatch == Spec => []SignaturesMatchTransaction
<1>1. IInv => SignaturesMatchTransaction
  BY DEF IInv, SessionInv
<1> QED
  BY <1>1, Inductive, PTL

\* Status and transaction agree: one to sign while signatures are taken, none
\* and no signature while the session waits.
THEOREM StatusMatches == Spec => []StatusMatchesTransaction
<1>1. IInv => StatusMatchesTransaction
  BY DEF IInv, SessionInv
<1> QED
  BY <1>1, Inductive, PTL

\* 'executing' is never left behind by an execution that is over.
THEOREM ExecutingUnderWay == Spec => []ExecutingIsUnderWay
<1>1. IInv => ExecutingIsUnderWay
  BY DEF IInv, SessionInv
<1> QED
  BY <1>1, Inductive, PTL

\* An armed timer is that of the transaction on offer, unless the embedding
\* process injects through the manager.
THEOREM TimerMatches == Spec => []TimerMatchesTransaction
<1>1. IInv => TimerMatchesTransaction
  BY DEF IInv, SessionInv
<1> QED
  BY <1>1, Inductive, PTL

\* Only approved transactions reach the network: Threshold signatures, each
\* over that transaction and under a spelling of its own of an eligible key.
THEOREM OnlyApproved == Spec => []SubmissionsApproved
<1>1. IInv => SubmissionsApproved
  BY DEF IInv, LedgerInv
<1> QED
  BY <1>1, Inductive, PTL

\* When every key has one spelling, the signatures are those of as many keys:
\* what docs/SECURITY_ARCHITECTURE.md says holds of clients that agree on a form.
THEOREM OneSignerEach ==
  ASSUME \A pair \in KeyPairs : \E k : pair = {k}
  PROVE  Spec => []OneKeyOneSigner
<1>1. ASSUME TypeOK, SubmissionsApproved PROVE OneKeyOneSigner
  <2> SUFFICES ASSUME NEW i \in DOMAIN submitted
               PROVE  Cardinality({pair \in KeyPairs :
                                     pair \cap Signers(submitted[i]) # {}}) >= Threshold
    BY DEF OneKeyOneSigner
  <2> DEFINE S == Signers(submitted[i])
             P == {pair \in KeyPairs : pair \cap S # {}}
             f == [k \in S |-> {k}]
  <2>1. S \subseteq Keys /\ IsFiniteSet(S) /\ Cardinality(S) >= Threshold
    BY <1>1, KeysAssumption, FS_Subset DEF SubmissionsApproved, Signers
  <2>2. \A k \in S : {k} \in P
    BY <2>1 DEF Keys
  <2>3. \A pair \in P : \E k \in S : pair = {k}
    OBVIOUS
  <2>4. f \in Bijection(S, P)
    <3>1. f \in [S -> P] /\ \A k \in S : f[k] = {k}
      BY <2>2
    <3>2. \A a, b \in S : f[a] = f[b] => a = b
      BY <3>1
    <3>3. \A pair \in P : \E k \in S : f[k] = pair
      BY <2>3, <3>1
    <3> HIDE DEF S, P, f
    <3> QED
      BY <3>1, <3>2, <3>3 DEF Bijection, Injection, Surjection, IsInjective
  <2>5. Cardinality(P) = Cardinality(S)
    <3> HIDE DEF S, P, f
    <3> QED
      BY <2>1, <2>4, FS_Bijection DEF ExistsBijection
  <2> QED
    BY <2>1, <2>5
<1>2. TypeInv => TypeOK
  BY DEF TypeInv
<1> QED
  BY <1>1, <1>2, LockCorrect, OnlyApproved, PTL

\* No injected transaction reaches the network twice, with any number of
\* executions requested by any party.
THEOREM AtMostOnce == Spec => []SubmittedOnce
<1>1. IInv => SubmittedOnce
  BY DEF IInv, LedgerInv
<1> QED
  BY <1>1, Inductive, PTL

\* A round that went to the network takes no further signature.
THEOREM ClosedOnceSubmitted == Spec => []SubmittedIsClosed
<1>1. IInv => SubmittedIsClosed
  BY DEF IInv, LedgerInv
<1> QED
  BY <1>1, Inductive, PTL

-----------------------------------------------------------------------------
(* Who is shown as having signed *)

ShownSigned == {p \in Pids : part[p] = "signed"}

MarksInv == IsFiniteSet(ShownSigned) /\ NoStaleSignedStatus

\* A mark that an action other than an acceptance leaves was there before; the
\* offer and its signatures stay, or go without leaving a mark that counts.
LEMMA UnmarkedNext ==
  ASSUME TypeInv, [Next]_vars, ~SubmitAccepted, ~LocalInject
  PROVE  /\ ShownSigned' \subseteq ShownSigned
         /\ \/ UNCHANGED <<frozenTx, sigs>>
            \/ frozenTx' = NoTx
            \/ ShownSigned' = {}
<1> USE DEF session, links, lock, history, TypeInv, TypeOK, ShownSigned
<1>1. ASSUME NEW p \in Pids, ParticipantActs(p), ~HandleTransactionRejected(p)
      PROVE  ShownSigned' \subseteq ShownSigned /\ UNCHANGED <<frozenTx, sigs>>
  BY <1>1
  DEF ParticipantActs, HandleAuth, HandleReconnect, HandleClose, Removed,
      HandleParticipantReady, HandleStatusUpdate, HandleSignatureSubmit, InSession
<1>2. ASSUME NEW p \in Pids, HandleTransactionRejected(p)
      PROVE  ShownSigned' \subseteq ShownSigned /\ frozenTx' = NoTx
  BY <1>2 DEF HandleTransactionRejected, Unsigned, Kept, DropTransaction
<1>3. ASSUME NEW t \in Txs, NEW x \in Expiries,
             HandleDetailedInject(t, x) \/ HandleDecoded(t, x)
      PROVE  /\ ShownSigned' \subseteq ShownSigned
             /\ ShownSigned' = {} \/ UNCHANGED <<frozenTx, sigs>>
  BY <1>3 DEF HandleDetailedInject, HandleDecoded, Inject, Unsigned, Kept
<1>4. CASE HandleResetTransaction \/ HandleTransactionExpired
  BY <1>4 DEF HandleResetTransaction, HandleTransactionExpired, DropTransaction
<1>5. CASE \/ HandleCoordinatorAuth \/ HandleCoordinatorClose
           \/ HandleScheduleAnnounce \/ HandleExecuteTransaction \/ CancelSession
           \/ \E t \in Txs : HandleTransactionInject(t)
  BY <1>5
  DEF HandleCoordinatorAuth, HandleCoordinatorClose, HandleScheduleAnnounce,
      HandleExecuteTransaction, CancelSession, HandleTransactionInject
<1>6. CASE \/ SubmitRefused \/ ContinueToExecution \/ ExecutionRefused
           \/ ExecutionStarts \/ NetworkAccepts \/ NetworkRefuses \/ MirrorDone
  BY <1>6
  DEF SubmitRefused, ContinueToExecution, ExecutionRefused, ExecutionStarts,
      NetworkAccepts, NetworkRefuses, MirrorDone
<1>7. CASE WindowElapses \/ SessionElapses \/ CleanupExpiredSessions \/ ReadSession
  BY <1>7 DEF WindowElapses, SessionElapses, CleanupExpiredSessions, ReadSession
<1>8. CASE UNCHANGED vars
  BY <1>8 DEF vars
<1> QED
  BY <1>1, <1>2, <1>3, <1>4, <1>5, <1>6, <1>7, <1>8
  DEF Next, CoordinatorActs, ServerActs, TimeActs, InjectTransaction

\* An acceptance marks one participant and adds the signature of one key that
\* had none.
LEMMA AcceptedMarksOne ==
  ASSUME TypeInv, MarksInv, SubmitAccepted
  PROVE  MarksInv'
<1> DEFINE job == Head(queue)
<1> USE DEF TypeInv, TypeOK
<1>1. job \in [kind : {"submit"}, pid : Pids, key : Keys, tx : Txs]
  BY QueueFacts DEF SubmitAccepted, Head1, Jobs, Execution, Deadlocked
<1>2. /\ job.key \in Keys /\ sigs[job.key] = NoTx /\ job.tx # NoTx /\ frozenTx # NoTx
      /\ sigs' = [sigs EXCEPT ![job.key] = job.tx]
      /\ part' = [part EXCEPT ![job.pid] = "signed"]
      /\ frozenTx' = frozenTx
  BY <1>1, NoTxAssumption DEF SubmitAccepted, Acceptable
<1> HIDE DEF job
<1>3. Collected' = Collected \cup {job.key} /\ job.key \notin Collected
  BY <1>2 DEF Collected
<1>4. ShownSigned' = ShownSigned \cup {job.pid}
  BY <1>1, <1>2 DEF ShownSigned
<1>5. IsFiniteSet(Collected) /\ IsFiniteSet(ShownSigned)
  BY KeysAssumption, FS_Subset DEF Collected, MarksInv
<1>6. Cardinality(Collected') = Cardinality(Collected) + 1
  BY <1>3, <1>5, FS_AddElement
<1>7. /\ IsFiniteSet(ShownSigned')
      /\ Cardinality(ShownSigned') <= Cardinality(ShownSigned) + 1
      /\ Cardinality(ShownSigned') \in Nat
  <2>1. IsFiniteSet(ShownSigned') /\ Cardinality(ShownSigned') \in Nat
    BY <1>4, <1>5, FS_AddElement, FS_CardinalityType
  <2>2. CASE job.pid \in ShownSigned
    <3>1. ShownSigned' = ShownSigned
      BY <1>4, <2>2
    <3>2. Cardinality(ShownSigned) \in Nat
      BY <1>5, FS_CardinalityType
    <3> QED
      BY <2>1, <3>1, <3>2
  <2>3. CASE job.pid \notin ShownSigned
    <3>1. Cardinality(ShownSigned') = Cardinality(ShownSigned) + 1
      BY <1>4, <1>5, <2>3, FS_AddElement
    <3> QED
      BY <2>1, <3>1
  <2> QED
    BY <2>2, <2>3
<1>8. Cardinality(ShownSigned) \in Nat /\ Cardinality(Collected) \in Nat
  BY <1>5, FS_CardinalityType
<1> QED
  BY <1>2, <1>6, <1>7, <1>8 DEF MarksInv, NoStaleSignedStatus, ShownSigned

LEMMA NextMarks ==
  ASSUME TypeInv, MarksInv, [Next]_vars, ~LocalInject
  PROVE  MarksInv'
<1>1. CASE SubmitAccepted
  BY <1>1, AcceptedMarksOne
<1>2. CASE ~SubmitAccepted
  <2>1. ShownSigned' \subseteq ShownSigned
    BY <1>2, UnmarkedNext
  <2>2. /\ IsFiniteSet(ShownSigned) /\ IsFiniteSet(ShownSigned')
        /\ Cardinality(ShownSigned') <= Cardinality(ShownSigned)
        /\ Cardinality(ShownSigned) \in Nat /\ Cardinality(ShownSigned') \in Nat
    BY <2>1, FS_Subset, FS_CardinalityType DEF MarksInv
  <2>3. CASE UNCHANGED <<frozenTx, sigs>>
    <3>1. Collected' = Collected /\ IsFiniteSet(Collected)
      BY <2>3, KeysAssumption, FS_Subset DEF Collected
    <3>2. Cardinality(Collected) \in Nat
      BY <3>1, FS_CardinalityType
    <3> QED
      BY <2>2, <2>3, <3>1, <3>2 DEF MarksInv, NoStaleSignedStatus, ShownSigned
  <2>4. CASE frozenTx' = NoTx
    BY <2>2, <2>4 DEF MarksInv, NoStaleSignedStatus
  <2>5. CASE ShownSigned' = {}
    <3>1. IsFiniteSet(Collected')
      BY KeysAssumption, FS_Subset DEF Collected
    <3>2. Cardinality(ShownSigned') = 0 /\ Cardinality(Collected') \in Nat
      BY <2>5, <3>1, FS_EmptySet, FS_CardinalityType
    <3> QED
      BY <2>2, <3>2 DEF MarksInv, NoStaleSignedStatus, ShownSigned
  <2> QED
    BY <1>2, <2>3, <2>4, <2>5, UnmarkedNext
<1> QED
  BY <1>1, <1>2

\* No mark 'signed' that the server set outlives the signature it stands for:
\* not the paths that drop the transaction, nor those that replace it.
THEOREM NoStaleSigned == Spec => []NoStaleSignedStatus
<1>1. CASE LocalInject
  <2>1. NoStaleSignedStatus
    BY <1>1 DEF NoStaleSignedStatus
  <2> QED
    BY <2>1, PTL
<1>2. CASE ~LocalInject
  <2>1. Init => MarksInv
    <3> SUFFICES ASSUME Init PROVE MarksInv
      OBVIOUS
    <3>1. ShownSigned = {}
      BY DEF Init, ShownSigned
    <3>2. IsFiniteSet(Collected)
      BY KeysAssumption, FS_Subset DEF Collected
    <3>3. /\ IsFiniteSet(ShownSigned) /\ Cardinality(ShownSigned) = 0
          /\ Cardinality(Collected) \in Nat
      BY <3>1, <3>2, FS_EmptySet, FS_CardinalityType
    <3> QED
      BY <3>3 DEF MarksInv, NoStaleSignedStatus, ShownSigned
  <2>2. TypeInv /\ MarksInv /\ [Next]_vars => MarksInv'
    BY <1>2, NextMarks
  <2>3. MarksInv => NoStaleSignedStatus
    BY DEF MarksInv
  <2> QED
    BY <2>1, <2>2, <2>3, LockCorrect, PTL DEF Spec
<1> QED
  BY <1>1, <1>2

-----------------------------------------------------------------------------
(* The server implements MultisigCeremony *)

\* The ledger as the ceremony sees it: sent, after the substitution.
SentView ==
  [i \in DOMAIN submitted |->
     [round     |-> submitted[i].round,
      tx        |-> submitted[i].tx,
      approvers |-> Signers(submitted[i])]]

\* A new session is a ceremony that has not begun, or has its first offer.
LEMMA InitRefines == Init => Ceremony!Init
<1> SUFFICES ASSUME Init PROVE Ceremony!Init
  OBVIOUS
<1>1. Collected = {}
  BY DEF Init, NoSigs, Collected
<1>2. SentView = <<>>
  BY DEF Init, SentView
<1> QED
  BY <1>1, <1>2 DEF Init, Ceremony!Init, SentView

\* The signatures and the ledger do not change in an action that leaves sigs
\* and submitted alone.
LEMMA UnchangedView ==
  ASSUME UNCHANGED <<round, frozenTx, sigs, submitted>>
  PROVE  UNCHANGED Ceremony!vars
  BY DEF Ceremony!vars, Collected, Signers

\* The paths back to 'waiting' withdraw the offer.
LEMMA WithdrawView ==
  ASSUME UNCHANGED <<round, submitted>>, frozenTx' = NoTx, sigs' = NoSigs
  PROVE  Ceremony!Withdraw
  BY DropFacts DEF Ceremony!Withdraw, Signers

\* An injection makes an offer, or withdraws one when the transaction it brings
\* is already past its validity.
LEMMA InjectRefines ==
  ASSUME NEW t \in Txs, NEW x \in Expiries, Inject(t, x), UNCHANGED submitted
  PROVE  Ceremony!Offer(t) \/ Ceremony!Withdraw
<1>1. CASE x = "past"
  BY <1>1, WithdrawView DEF Inject
<1>2. CASE x # "past"
  BY <1>2, DropFacts DEF Inject, Ceremony!Offer, Signers
<1> QED
  BY <1>1, <1>2

\* A function on 1 .. n + 1 that extends f by x is f with x appended.
LEMMA AppendFunction ==
  ASSUME NEW S, NEW n \in Nat, NEW f \in [1 .. n -> S], NEW x \in S,
         NEW g \in [1 .. n + 1 -> S],
         g[n + 1] = x, \A i \in 1 .. n : g[i] = f[i]
  PROVE  g = Append(f, x)
<1>1. f \in Seq(S) /\ g \in Seq(S)
  BY SeqDef
<1>2. Len(f) = n /\ Len(g) = n + 1
  BY <1>1, LenProperties
<1>3. Append(f, x) \in Seq(S) /\ Len(Append(f, x)) = n + 1
  BY <1>1, <1>2, AppendProperties
<1>4. ASSUME NEW i \in 1 .. n + 1 PROVE g[i] = Append(f, x)[i]
  BY <1>1, <1>2, AppendProperties
<1> QED
  BY <1>1, <1>2, <1>3, <1>4, SeqEqual

\* Handing a transaction over appends it, as the ceremony sees it.
LEMMA AppendView ==
  ASSUME submitted \in Seq(HandedOverTxs), NEW out \in HandedOverTxs,
         submitted' = Append(submitted, out)
  PROVE  SentView' = Append(SentView, [round     |-> out.round,
                                       tx        |-> out.tx,
                                       approvers |-> Signers(out)])
<1> DEFINE Views == [round : Nat, tx : Txs \cup {NoTx}, approvers : SUBSET Keys]
           view  == [round |-> out.round, tx |-> out.tx, approvers |-> Signers(out)]
           n     == Len(submitted)
<1>1. /\ n \in Nat /\ DOMAIN submitted = 1 .. n
      /\ DOMAIN submitted' = 1 .. n + 1
      /\ submitted'[n + 1] = out
      /\ \A i \in 1 .. n : submitted'[i] = submitted[i] /\ submitted[i] \in HandedOverTxs
  OBVIOUS
<1>2. \A s \in HandedOverTxs :
        [round |-> s.round, tx |-> s.tx, approvers |-> Signers(s)] \in Views
  BY DEF HandedOverTxs, Signers
<1>3. view \in Views
  BY <1>2
<1>4. SentView \in [1 .. n -> Views]
  BY <1>1, <1>2 DEF SentView
<1>5. \A i \in 1 .. n + 1 : submitted'[i] \in HandedOverTxs
  BY <1>1
<1>6. SentView' \in [1 .. n + 1 -> Views]
  BY <1>1, <1>2, <1>5 DEF SentView, Signers
<1>7. SentView'[n + 1] = view
  <2>1. \A i \in DOMAIN submitted' :
          SentView'[i] = [round     |-> submitted'[i].round,
                          tx        |-> submitted'[i].tx,
                          approvers |-> Signers(submitted'[i])]
    BY DEF SentView, Signers
  <2>2. n + 1 \in DOMAIN submitted'
    BY <1>1
  <2> QED
    BY <1>1, <2>1, <2>2
<1>8. \A i \in 1 .. n : SentView'[i] = SentView[i]
  BY <1>1 DEF SentView, Signers
<1> QED
  <2> HIDE DEF Views, view
  <2>1. SentView' = Append(SentView, view)
    BY <1>1, <1>3, <1>4, <1>6, <1>7, <1>8, AppendFunction
  <2> QED
    BY <2>1 DEF view

\* Every step of the server is a step of the ceremony or invisible to it.
LEMMA StepRefines ==
  IInv /\ [Next]_vars => [Ceremony!Next]_(Ceremony!vars)
<1> SUFFICES ASSUME IInv, [Next]_vars PROVE [Ceremony!Next]_(Ceremony!vars)
  OBVIOUS
<1> USE DEF session, history
<1>1. ASSUME NEW p \in Pids, ParticipantActs(p)
      PROVE  UNCHANGED Ceremony!vars \/ Ceremony!Withdraw
  BY <1>1, UnchangedView, WithdrawView
  DEF ParticipantActs, HandleAuth, HandleReconnect, HandleClose,
      HandleParticipantReady, HandleStatusUpdate, HandleTransactionRejected,
      HandleSignatureSubmit,
      DropTransaction
<1>2. CASE \/ HandleCoordinatorAuth \/ HandleCoordinatorClose
           \/ HandleScheduleAnnounce \/ HandleExecuteTransaction \/ CancelSession
           \/ \E t \in Txs : HandleTransactionInject(t)
  BY <1>2, UnchangedView
  DEF HandleCoordinatorAuth, HandleCoordinatorClose, HandleScheduleAnnounce,
      HandleExecuteTransaction, CancelSession, HandleTransactionInject
<1>3. CASE HandleResetTransaction \/ HandleTransactionExpired
  BY <1>3, UnchangedView, WithdrawView
  DEF HandleResetTransaction, HandleTransactionExpired, DropTransaction, Ceremony!Next
<1>4. ASSUME NEW t \in Txs, InjectTransaction(t) PROVE Ceremony!Offer(t)
  <2>1. Collected' = {}
    BY <1>4, SettleFacts
    DEF InjectTransaction, IInv, SessionInv, StatusMatchesTransaction, Collected
  <2> QED
    BY <1>4, <2>1 DEF InjectTransaction, Ceremony!Offer, Signers
<1>5. ASSUME NEW t \in Txs, NEW x \in Expiries,
             HandleDetailedInject(t, x) \/ HandleDecoded(t, x)
      PROVE  UNCHANGED Ceremony!vars \/ Ceremony!Offer(t) \/ Ceremony!Withdraw
  BY <1>5, InjectRefines, UnchangedView DEF HandleDetailedInject, HandleDecoded
<1>6. CASE \/ SubmitRefused \/ ContinueToExecution \/ ExecutionRefused
           \/ NetworkAccepts \/ NetworkRefuses \/ MirrorDone
  BY <1>6, UnchangedView
  DEF SubmitRefused, ContinueToExecution, ExecutionRefused, NetworkAccepts,
      NetworkRefuses, MirrorDone
<1>7. CASE SubmitAccepted
  <2> DEFINE job == Head(queue)
  <2>1. /\ frozenTx # NoTx /\ sigs[job.key] = NoTx /\ isKeyEligible(job.key)
        /\ job.tx = frozenTx /\ sigs' = [sigs EXCEPT ![job.key] = job.tx]
        /\ UNCHANGED <<round, frozenTx, submitted>>
    BY <1>7 DEF SubmitAccepted, Acceptable
  <2>2. status \in {"transaction-received", "signing"}
    BY <1>7 DEF SubmitAccepted, Acceptable, TakesSignatures, Read
  <2>3. ~Ceremony!HandedOver(round)
    BY <2>2 DEF Ceremony!HandedOver, IInv, LedgerInv, SubmittedIsClosed
  <2>4. Collected' = Collected \cup {job.key} /\ job.key \notin Collected
    BY <2>1, EligibleIsKey DEF Collected, IInv, TypeInv, TypeOK
  <2>5. Ceremony!Approve(job.key)
    BY <2>1, <2>3, <2>4 DEF Ceremony!Approve, Signers
  <2>6. job.key \in {k \in Keys : isKeyEligible(k)}
    BY <2>1, EligibleIsKey
  <2> QED
    BY <2>5, <2>6 DEF Ceremony!Next
<1>8. CASE ExecutionStarts
  <2> DEFINE out == [round |-> round, tx |-> frozenTx, sigs |-> sigs]
             view == [round |-> round, tx |-> frozenTx, approvers |-> Collected]
  <2>1. /\ submitted' = Append(submitted, out)
        /\ UNCHANGED <<round, frozenTx, sigs>>
        /\ ThresholdMet
    BY <1>8 DEF ExecutionStarts, Executable
  <2>2. submitted \in Seq(HandedOverTxs) /\ round \in Nat
    BY DEF IInv, TypeInv, TypeOK
  <2>3. out \in HandedOverTxs
    BY DEF IInv, TypeInv, TypeOK, HandedOverTxs
  <2>4. frozenTx # NoTx /\ ~Ceremony!HandedOver(round)
    <3>1. frozenTx # NoTx /\ \A i \in DOMAIN submitted : submitted[i].round < round
      BY <1>8, StartFacts DEF IInv
    <3>2. \A i \in DOMAIN submitted : submitted[i].round # round
      BY <2>2, <3>1
    <3> QED
      BY <3>1, <3>2 DEF Ceremony!HandedOver
  <2>5. Signers(out) = Collected
    BY DEF Signers, Collected
  <2>6. SentView' = Append(SentView, view)
    BY <2>1, <2>2, <2>3, <2>5, AppendView
  <2>7. Collected' = Collected
    BY <2>1 DEF Collected
  <2>8. Ceremony!Cardinality(Collected) = Cardinality(Collected)
    BY DEF Ceremony!Cardinality, Cardinality
  <2>9. Ceremony!HandOver
    BY <2>1, <2>4, <2>6, <2>7, <2>8 DEF Ceremony!HandOver, ThresholdMet, SentView
  <2> QED
    BY <2>9 DEF Ceremony!Next
<1>9. CASE WindowElapses \/ SessionElapses \/ CleanupExpiredSessions \/ ReadSession
  BY <1>9, UnchangedView
  DEF WindowElapses, SessionElapses, CleanupExpiredSessions, ReadSession
<1>10. CASE UNCHANGED vars
  BY <1>10, UnchangedView DEF vars
<1> QED
  BY <1>1, <1>2, <1>3, <1>4, <1>5, <1>6, <1>7, <1>8, <1>9, <1>10
  DEF Next, CoordinatorActs, ServerActs, TimeActs, Ceremony!Next

\* The session record, its lock, timer and sockets keep the promises of
\* MultisigCeremony: every handler is one of its steps or invisible to it.
THEOREM Refinement == Spec => ImplementsCeremony
<1>1. Init => Ceremony!Init
  BY InitRefines
<1>2. IInv /\ [Next]_vars => [Ceremony!Next]_(Ceremony!vars)
  BY StepRefines
<1> QED
  BY <1>1, <1>2, Inductive, PTL DEF Spec, ImplementsCeremony, Ceremony!Spec

=============================================================================
