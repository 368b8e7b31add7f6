---------------------------- MODULE CommandProofs ----------------------------
(* Proofs about the ceremonies that one command or one process drives from  *)
(* end to end, for any number of transactions, keys, signatures and runs:   *)
(* the local ceremony, the air-gapped commands, scheduled signing, and the  *)
(* selection of the nodes that a transaction is frozen for.                 *)
EXTENDS LocalCeremony, AirGapped, ScheduledSigning, NodeSelection,
        FiniteSetTheorems, SequenceTheorems, TLAPS

-----------------------------------------------------------------------------
(* The local ceremony *)

EnoughVerified == Cardinality(VerifiedTuples(signatures)) >= Threshold

\* Until the collection is over nothing has happened but the collecting, and only
\* the interactive flow's countdown can announce the expiry ...
Collecting ==
  /\ step \in {"freeze", "collect", "ask"} =>
       network = "none" /\ outcome = "none" /\ audit = <<>> /\ ~confirmed
  /\ countdown => flow = "interactive" /\ step \in {"collect", "ask"}
  /\ isExpired => /\ flow = "interactive" /\ step \in {"collect", "ask", "done"}
                  /\ network = "none" /\ outcome \in {"none", "failure"}

\* ... from then on what was collected is verified, and nobody is told anything
\* before the end.
Executing ==
  /\ step \in {"submit", "receipt", "mirror"} =>
       outcome = "none" /\ audit = <<>> /\ ~confirmed /\ EnoughVerified
  /\ step = "submit" => network = "none"
  /\ network # "none" => EnoughVerified /\ step \in {"receipt", "mirror", "done"}
  /\ step = "mirror" => network = "executed"

Told ==
  /\ outcome = "success" \/ confirmed => network = "executed"
  /\ audit = <<>> \/ audit = <<outcome>>

CeremonyInv == step \in Steps /\ Collecting /\ Executing /\ Told

LEMMA CeremonyInvInit == CeremonyInit => CeremonyInv
  BY DEF CeremonyInit, CeremonyInv, Collecting, Executing, Told, Steps

\* The end of run(): a failure, while nothing has reached the network, or ...
LEMMA FailingKeepsCeremonyInv ==
  ASSUME CeremonyInv, step \in {"freeze", "collect", "ask"}, Returns("failure"),
         UNCHANGED <<flow, isExpired, network, audit, confirmed>>
  PROVE  CeremonyInv'
  BY DEF CeremonyInv, Collecting, Executing, Told, Returns, Steps

\* ... the outcome of execute(), which is a success only of an execution.
LEMMA ConcludingKeepsCeremonyInv ==
  ASSUME CeremonyInv, step \in {"submit", "receipt", "mirror"},
         NEW v \in {"success", "failure"}, Conclude(v),
         v = "success" \/ confirmed' => network' = "executed",
         UNCHANGED <<flow, isExpired, signatures>>
  PROVE  CeremonyInv'
<1>1. audit = <<>> /\ EnoughVerified /\ ~isExpired
  BY DEF CeremonyInv, Collecting, Executing
<1>2. /\ step' = "done" /\ countdown' = FALSE
      /\ outcome' \in {v, "failure"}
      /\ audit' = <<>> \/ audit' = <<outcome'>>
  <2>1. Append(<<>>, v) = <<v>>
    OBVIOUS
  <2>2. CASE flow = "library"
    BY <1>1, <2>1, <2>2 DEF Conclude, Returns
  <2>3. CASE flow # "library"
    BY <1>1, <2>3 DEF Conclude, Returns
  <2> QED BY <2>2, <2>3
<1>3. EnoughVerified'
  BY <1>1 DEF EnoughVerified
<1>4. Collecting'
  BY <1>1, <1>2 DEF Collecting
<1>5. Executing'
  BY <1>2, <1>3 DEF Executing
<1>6. Told'
  BY <1>2 DEF Told
<1> QED BY <1>2, <1>4, <1>5, <1>6 DEF CeremonyInv, Steps

LEMMA CeremonyInvStep == CeremonyInv /\ [CeremonyNext]_ceremonyVars => CeremonyInv'
<1> SUFFICES ASSUME CeremonyInv, [CeremonyNext]_ceremonyVars PROVE CeremonyInv'
  OBVIOUS
<1>1. ASSUME FreezeTransaction PROVE CeremonyInv'
  <2>1. CASE Returns("failure")
    BY <1>1, <2>1, FailingKeepsCeremonyInv DEF FreezeTransaction, collection, execution
  <2>2. CASE /\ step' = "collect" /\ UNCHANGED outcome
             /\ countdown' \in IF flow = "interactive" THEN BOOLEAN ELSE {FALSE}
    BY <1>1, <2>2 DEF FreezeTransaction, collection, execution, CeremonyInv, Collecting,
                      Executing, Told, Steps
  <2> QED BY <1>1, <2>1, <2>2 DEF FreezeTransaction
<1>2. ASSUME CountdownEnds PROVE CeremonyInv'
  BY <1>2 DEF CountdownEnds, collection, execution, CeremonyInv, Collecting, Executing,
              Told, EnoughVerified
<1>3. ASSUME AskSigner PROVE CeremonyInv'
  <2>1. CASE ExpirySeen
    BY <1>3, <2>1, FailingKeepsCeremonyInv DEF AskSigner, collection, execution
  <2>2. CASE ~ExpirySeen
    BY <1>3, <2>2 DEF AskSigner, collection, execution, CeremonyInv, Collecting,
                      Executing, Told, Steps
  <2> QED BY <2>1, <2>2
<1>4. ASSUME NEW s \in SignatureTuples \cup {NoTuple}, TakeSignature(s)
      PROVE  CeremonyInv'
  <2>1. CASE flow = "library" /\ s = NoTuple
    BY <1>4, <2>1, FailingKeepsCeremonyInv DEF TakeSignature, execution
  <2>2. CASE ~(flow = "library" /\ s = NoTuple)
    BY <1>4, <2>2 DEF TakeSignature, execution, CeremonyInv, Collecting, Executing, Told,
                      Steps
  <2> QED BY <2>1, <2>2
\* The collection stands only when verified, and not after an announced expiry.
<1>5. ASSUME EndCollection PROVE CeremonyInv'
  <2>1. CASE Returns("failure")
    BY <1>5, <2>1, FailingKeepsCeremonyInv DEF EndCollection, execution
  <2>2. CASE CollectionStands /\ ~Returns("failure")
    <3>1. EnoughVerified /\ EnoughVerified'
      BY <1>5, <2>2 DEF EndCollection, CollectionStands, EnoughVerified
    <3>2. ~isExpired
      BY <2>2 DEF CollectionStands, ExpirySeen, CeremonyInv, Collecting
    <3>3. /\ step = "collect" /\ UNCHANGED <<flow, isExpired, execution>>
          /\ \/ step' = "done" /\ outcome' = "signed" /\ countdown' = FALSE
             \/ step' = "submit" /\ countdown' = FALSE /\ UNCHANGED outcome
      BY <1>5, <2>2 DEF EndCollection, Returns
    <3> QED
      BY <3>1, <3>2, <3>3 DEF execution, CeremonyInv, Collecting, Executing, Told, Steps
  <2> QED BY <1>5, <2>1, <2>2 DEF EndCollection
<1>6. ASSUME SubmitToNetwork PROVE CeremonyInv'
  <2>1. step = "submit" /\ UNCHANGED <<flow, isExpired, signatures, confirmed>>
    BY <1>6 DEF SubmitToNetwork, collection
  <2>2. CASE Conclude("failure")
    BY <2>1, <2>2, ConcludingKeepsCeremonyInv DEF CeremonyInv, Executing
  <2>3. CASE step' = "receipt" /\ UNCHANGED <<outcome, countdown, audit>>
    BY <2>1, <2>3 DEF CeremonyInv, Collecting, Executing, Told, EnoughVerified, Steps
  <2> QED BY <1>6, <2>2, <2>3 DEF SubmitToNetwork
<1>7. ASSUME Receipt PROVE CeremonyInv'
  <2>1. /\ step = "receipt"
        /\ UNCHANGED <<flow, isExpired, signatures, network, confirmed>>
    BY <1>7 DEF Receipt, collection
  <2>2. CASE Conclude("failure")
    BY <2>1, <2>2, ConcludingKeepsCeremonyInv DEF CeremonyInv, Executing
  <2>3. CASE /\ network = "executed" /\ step' = "mirror"
             /\ UNCHANGED <<outcome, countdown, audit>>
    BY <2>1, <2>3 DEF CeremonyInv, Collecting, Executing, Told, EnoughVerified, Steps
  <2> QED BY <1>7, <2>2, <2>3 DEF Receipt, ReceiptSays
<1>8. ASSUME PollMirror PROVE CeremonyInv'
  <2>1. /\ step = "mirror" /\ network = "executed"
        /\ UNCHANGED <<flow, isExpired, signatures, network>>
    BY <1>8 DEF PollMirror, collection, CeremonyInv, Executing
  <2>2. CASE Conclude("success")
    BY <2>1, <2>2, ConcludingKeepsCeremonyInv
  <2>3. CASE UNCHANGED <<confirmed, step, outcome, countdown, audit>>
    BY <2>1, <2>3 DEF CeremonyInv, Collecting, Executing, Told, EnoughVerified
  <2> QED BY <1>8, <2>2, <2>3 DEF PollMirror
<1>9. ASSUME CeremonyTick \/ UNCHANGED ceremonyVars PROVE CeremonyInv'
  BY <1>9 DEF CeremonyTick, ceremonyVars, collection, execution, CeremonyInv,
              Collecting, Executing, Told, EnoughVerified
<1> QED
  BY <1>1, <1>2, <1>3, <1>4, <1>5, <1>6, <1>7, <1>8, <1>9 DEF CeremonyNext

\* A ceremony whose expiry was announced submits nothing and hands nothing out.
THEOREM AnnouncedExpiryStopsAlways == CeremonySpec => []AnnouncedExpiryStops
<1>1. CeremonyInv => AnnouncedExpiryStops
  BY DEF CeremonyInv, Collecting, AnnouncedExpiryStops
<1> QED BY CeremonyInvInit, CeremonyInvStep, <1>1, PTL DEF CeremonySpec

\* What reaches the network was verified, in whichever flow.
THEOREM ThresholdVerifiedAlways == CeremonySpec => []ThresholdVerified
<1>1. CeremonyInv => ThresholdVerified
  BY DEF CeremonyInv, Executing, EnoughVerified, VerifiedTuples, Good, ThresholdVerified
<1> QED BY CeremonyInvInit, CeremonyInvStep, <1>1, PTL DEF CeremonySpec

\* Neither the caller, nor the audit log, nor the mirror's record speaks of a
\* success that was none.
THEOREM OutcomesTrueAlways == CeremonySpec => []OutcomesTrue
<1>1. CeremonyInv => OutcomesTrue
  BY DEF CeremonyInv, Told, OutcomesTrue
<1> QED BY CeremonyInvInit, CeremonyInvStep, <1>1, PTL DEF CeremonySpec

\* A signer is asked only while there is one left.
CeremonyTypes ==
  /\ CeremonyTypeOK
  /\ step = "ask" => asked < Signers

LEMMA CeremonyNumbers ==
  /\ Signers \in Nat /\ ValidFor \in Nat /\ MaxPolls \in Nat
  /\ 0 \in 0..Signers /\ 0 \in 0..ValidFor /\ 0 \in 0..MaxPolls
  BY CeremonyAssumption

LEMMA CeremonyTypesInit == CeremonyInit => CeremonyTypes
<1> SUFFICES ASSUME CeremonyInit PROVE CeremonyTypes
  OBVIOUS
<1>1. signatures \in Seq(SignatureTuples) /\ audit \in Seq({"success", "failure"})
  BY DEF CeremonyInit
<1> QED BY <1>1, CeremonyNumbers DEF CeremonyInit, CeremonyTypes, CeremonyTypeOK, Steps

\* The log grows by an outcome, or not at all.
LEMMA ConcludeTyped ==
  ASSUME CeremonyTypes, NEW v \in {"success", "failure"}, Conclude(v)
  PROVE  /\ audit' \in Seq({"success", "failure"}) /\ outcome' \in {"success", "failure"}
         /\ step' = "done" /\ countdown' = FALSE
<1>1. Append(audit, v) \in Seq({"success", "failure"})
  BY AppendProperties DEF CeremonyTypes, CeremonyTypeOK
<1> QED BY <1>1 DEF Conclude, Returns, CeremonyTypes, CeremonyTypeOK

LEMMA CeremonyTypesStep == CeremonyTypes /\ [CeremonyNext]_ceremonyVars => CeremonyTypes'
<1> SUFFICES ASSUME CeremonyTypes, [CeremonyNext]_ceremonyVars PROVE CeremonyTypes'
  OBVIOUS
<1> USE CeremonyNumbers DEF CeremonyTypes, CeremonyTypeOK, Steps
<1>1. CASE FreezeTransaction
  <2>1. frozenFor' \in 0..ValidFor /\ countdown' \in BOOLEAN
    BY <1>1 DEF FreezeTransaction, Returns
  <2> QED BY <1>1, <2>1 DEF FreezeTransaction, Returns, collection, execution
<1>2. CASE CountdownEnds \/ AskSigner
  BY <1>2 DEF CountdownEnds, AskSigner, Returns, collection, execution
<1>0. CASE CeremonyTick
  BY <1>0 DEF CeremonyTick, collection, execution
<1>3. ASSUME NEW s \in SignatureTuples \cup {NoTuple}, TakeSignature(s) PROVE CeremonyTypes'
  <2>1. signatures' \in Seq(SignatureTuples)
    <3>1. Kept(s) => s \in SignatureTuples
      BY DEF Kept
    <3>2. Kept(s) => Append(signatures, s) \in Seq(SignatureTuples)
      BY <3>1, AppendProperties
    <3> QED BY <1>3, <3>2 DEF TakeSignature
  <2>2. asked' \in 0..Signers
    BY <1>3 DEF TakeSignature
  <2> QED BY <1>3, <2>1, <2>2 DEF TakeSignature, Returns, execution
<1>4. CASE EndCollection
  <2>1. attached' \subseteq SignatureTuples
    <3>1. CASE UNCHANGED attached
      BY <3>1
    <3>2. ASSUME NEW N \in SUBSET DOMAIN signatures, attached' = AttachedAs({signatures[n] : n \in N})
          PROVE  attached' \subseteq SignatureTuples
      <4>1. {signatures[n] : n \in N} \subseteq SignatureTuples
        BY <3>2, ElementOfSeq, LenProperties
      <4>2. ASSUME NEW t \in SignatureTuples PROVE [t EXCEPT !.good = FALSE] \in SignatureTuples
        BY DEF SignatureTuples
      <4> QED BY <3>2, <4>1, <4>2 DEF AttachedAs
    <3> QED BY <1>4, <3>1, <3>2 DEF EndCollection, VerifiedTuples
  <2> QED BY <1>4, <2>1 DEF EndCollection, Returns, execution
<1>5. CASE SubmitToNetwork
  <2>1. \/ /\ step' = "receipt" /\ UNCHANGED <<outcome, countdown, audit>>
        \/ Conclude("failure")
    BY <1>5 DEF SubmitToNetwork
  <2> QED BY <1>5, <2>1, ConcludeTyped DEF SubmitToNetwork, collection
<1>6. CASE Receipt
  <2>1. \/ step' = "mirror" /\ UNCHANGED <<outcome, countdown, audit>>
        \/ Conclude("failure")
    BY <1>6 DEF Receipt
  <2> QED BY <1>6, <2>1, ConcludeTyped DEF Receipt, collection
<1>7. CASE PollMirror
  <2>1. \/ UNCHANGED <<step, outcome, countdown, audit>> \/ Conclude("success")
    BY <1>7 DEF PollMirror
  <2>2. confirmed' \in BOOLEAN
    BY <1>7 DEF PollMirror
  <2>3. polls' = polls \/ (polls < MaxPolls /\ polls' = polls + 1)
    BY <1>7 DEF PollMirror
  <2>4. polls' \in 0..MaxPolls
    BY <2>3
  <2> QED BY <1>7, <2>1, <2>2, <2>4, ConcludeTyped DEF PollMirror, collection
<1>8. CASE UNCHANGED ceremonyVars
  BY <1>8 DEF ceremonyVars
<1> QED
  BY <1>0, <1>1, <1>2, <1>3, <1>4, <1>5, <1>6, <1>7, <1>8 DEF CeremonyNext

\* Every variable of the local ceremony keeps its type: no signer is asked twice,
\* and what is attached are tuples that were collected.
THEOREM CeremonyTypeCorrect == CeremonySpec => []CeremonyTypeOK
<1>1. CeremonyTypes => CeremonyTypeOK
  BY DEF CeremonyTypes
<1> QED BY CeremonyTypesInit, CeremonyTypesStep, <1>1, PTL DEF CeremonySpec

-----------------------------------------------------------------------------
(* The air-gapped commands: `offline execute` counts nobody who did not sign, *)
(* whatever happens to the text in between. *)

\* A tuple may be renamed or cut short, but its signatures were made by someone,
\* over something.
TuplesSigned == \A t \in tuples : <<t.by, t.over>> \in signedBy

AirInv == AirTypeOK /\ TuplesSigned /\ CountedSigned

LEMMA AirInvInit == AirInit => AirInv
  BY DEF AirInit, AirInv, AirTypeOK, TuplesSigned, CountedSigned, NoCommand

\* Steps that sign nothing, verify nothing and touch no tuple.
LEMMA UntouchedKeepsAirInv ==
  ASSUME AirInv, UNCHANGED <<tuples, signedBy>>,
         printed' \subseteq Texts, exitOk' \in BOOLEAN,
         desk' \subseteq [at : {"checksum", "warned", "confirm"},
                          tx : AirTxs \cup {NoAirTx}],
         command' \in {command, NoCommand}
  PROVE  AirInv'
  BY DEF AirInv, AirTypeOK, TuplesSigned, CountedSigned, NoCommand

\* signTransactionLocally, at the desk, through a pipe or in a wallet.
LEMMA SignedKeepsAirInv ==
  ASSUME AirInv, NEW k \in AirKeys, NEW tx \in AirTxs, NEW n \in {0, 1, Bodies},
         signedBy' = signedBy \cup {<<k, tx>>},
         tuples' = tuples \cup {[key |-> k, by |-> k, over |-> tx, sigs |-> n]},
         desk' \in {desk, {}}, exitOk' \in BOOLEAN, UNCHANGED <<printed, command>>
  PROVE  AirInv'
<1> DEFINE made == [key |-> k, by |-> k, over |-> tx, sigs |-> n]
<1>1. made \in Tuples /\ made.by = k /\ made.over = tx
  BY DEF Tuples
<1>2. tuples' = tuples \cup {made}
  OBVIOUS
<1> HIDE DEF made
<1>3. AirTypeOK'
  BY <1>1, <1>2 DEF AirInv, AirTypeOK
<1>4. TuplesSigned'
  BY <1>1, <1>2 DEF AirInv, TuplesSigned
<1>5. CountedSigned'
  BY DEF AirInv, CountedSigned
<1> QED BY <1>3, <1>4, <1>5 DEF AirInv

\* What is signed at the desk or through a pipe is a transaction.
LEMMA LocallySignedKeepsAirInv ==
  ASSUME AirInv, NEW k \in AirKeys, NEW tx \in AirTxs \cup {NoAirTx}, Signed(k, tx)
  PROVE  AirInv'
<1>1. tx \in AirTxs
  BY DEF Signed
<1> QED BY <1>1, SignedKeepsAirInv DEF Signed

\* A miscopied tuple keeps who made it and over what.
LEMMA MiscopyKeepsAirInv ==
  ASSUME AirInv, NEW tuple \in tuples, MiscopyTuple(tuple)
  PROVE  AirInv'
<1>1. PICK m \in {[tuple EXCEPT !.sigs = 0]} \cup {[tuple EXCEPT !.key = k] : k \in AirKeys} :
        tuples' = (tuples \ {tuple}) \cup {m}
  BY DEF MiscopyTuple
<1>2. tuple \in Tuples
  BY DEF AirInv, AirTypeOK
<1>3. m \in Tuples /\ m.by = tuple.by /\ m.over = tuple.over
  <2>1. CASE m = [tuple EXCEPT !.sigs = 0]
    BY <1>2, <2>1 DEF Tuples
  <2>2. ASSUME NEW k \in AirKeys, m = [tuple EXCEPT !.key = k]
        PROVE  m \in Tuples /\ m.by = tuple.by /\ m.over = tuple.over
    BY <1>2, <2>2 DEF Tuples
  <2> QED BY <1>1, <2>1, <2>2
<1>4. UNCHANGED <<printed, desk, signedBy, command, exitOk>>
  BY DEF MiscopyTuple
<1>5. AirTypeOK'
  BY <1>1, <1>3, <1>4 DEF AirInv, AirTypeOK
<1>6. TuplesSigned'
  BY <1>1, <1>3, <1>4 DEF AirInv, TuplesSigned
<1>7. CountedSigned'
  BY <1>4 DEF AirInv, CountedSigned
<1> QED BY <1>5, <1>6, <1>7 DEF AirInv

\* A key is counted for a tuple that it verifies: one it made, over the
\* transaction named.
LEMMA VerificationKeepsAirInv ==
  ASSUME AirInv, NEW tx \in AirTxs, NEW given \in Given, ExecuteVerifies(tx, given)
  PROVE  AirInv'
<1> DEFINE counted == {i \in DOMAIN given : TupleValid(given[i], tx)}
<1>1. UNCHANGED <<printed, desk, signedBy, tuples>>
  BY DEF ExecuteVerifies
<1>2. CASE command' = NoCommand /\ exitOk' = FALSE
  BY <1>1, <1>2, UntouchedKeepsAirInv DEF AirInv, AirTypeOK
<1>3. CASE /\ UNCHANGED exitOk
           /\ command' = [at |-> "met", tx |-> tx,
                          counted |-> {given[i].key : i \in counted}]
  <2>1. \A i \in DOMAIN given : given[i] \in tuples
    BY DEF Given
  <2>2. \A i \in counted : /\ given[i].key \in AirKeys
                           /\ <<given[i].key, tx>> \in signedBy
    BY <2>1 DEF TupleValid, AirInv, AirTypeOK, TuplesSigned, Tuples
  <2>3. {given[i].key : i \in counted} \subseteq AirKeys
    BY <2>2
  <2>4. AirTypeOK'
    BY <1>1, <1>3, <2>3 DEF AirInv, AirTypeOK
  <2>5. \A k \in {given[i].key : i \in counted} : <<k, tx>> \in signedBy
    BY <2>2
  <2>6. CountedSigned'
    BY <1>1, <1>3, <2>5 DEF CountedSigned
  <2>7. TuplesSigned'
    BY <1>1 DEF AirInv, TuplesSigned
  <2> QED BY <2>4, <2>6, <2>7 DEF AirInv
<1> QED BY <1>2, <1>3 DEF ExecuteVerifies

LEMMA AirInvStep == AirInv /\ [AirNext]_airVars => AirInv'
<1> SUFFICES ASSUME AirInv, [AirNext]_airVars PROVE AirInv'
  OBVIOUS
<1>a. AirTypeOK
  BY DEF AirInv
<1>1. ASSUME FreezeRefused \/ ExecuteRefused PROVE AirInv'
  BY <1>1, <1>a, UntouchedKeepsAirInv DEF FreezeRefused, ExecuteRefused, AirTypeOK
<1>2. ASSUME NEW tx \in AirTxs, NEW form \in Forms, FreezeToText(tx, form) PROVE AirInv'
  BY <1>2, <1>a, UntouchedKeepsAirInv DEF FreezeToText, AirTypeOK, Texts
<1>3. ASSUME NEW text \in printed, DecodeText(text) PROVE AirInv'
  BY <1>3, <1>a, UntouchedKeepsAirInv DEF DecodeText, AirTypeOK
<1>4. ASSUME NEW tx \in AirTxs \cup {NoAirTx}, BeginSigning(tx) PROVE AirInv'
  BY <1>4, <1>a, UntouchedKeepsAirInv DEF BeginSigning, AirTypeOK
<1>5. ASSUME SignFails PROVE AirInv'
  BY <1>5, <1>a, UntouchedKeepsAirInv DEF SignFails, AirTypeOK
<1>6. ASSUME NEW d \in desk, NEW q \in {"confirm", "warned"}, AskNext(d, q) PROVE AirInv'
  <2>1. [d EXCEPT !.at = q] \in [at : {"checksum", "warned", "confirm"},
                                 tx : AirTxs \cup {NoAirTx}]
    BY <1>a DEF AirTypeOK
  <2> QED BY <1>6, <1>a, <2>1, UntouchedKeepsAirInv DEF AskNext, AirTypeOK
<1>7. ASSUME NEW d \in desk, CompareChecksum(d) PROVE AirInv'
  BY <1>6, <1>7 DEF CompareChecksum
<1>8. ASSUME NEW d \in desk, ContinueAnyway(d) PROVE AirInv'
  BY <1>6, <1>8 DEF ContinueAnyway
<1>9. ASSUME NEW d \in desk, StopSigning(d) PROVE AirInv'
  BY <1>5, <1>9 DEF StopSigning
<1>10. ASSUME NEW d \in desk, SignConfirmed(d) PROVE AirInv'
  <2>1. d.tx \in AirTxs \cup {NoAirTx}
    BY <1>a DEF AirTypeOK
  <2> QED BY <1>5, <1>10, <2>1, LocallySignedKeepsAirInv DEF SignConfirmed
<1>11. ASSUME NEW k \in AirKeys, NEW text \in printed, SignPiped(k, text) PROVE AirInv'
  <2>1. Extracted(text) \in AirTxs \cup {NoAirTx}
    BY <1>a DEF Extracted, AirTypeOK, Texts
  <2> QED BY <1>5, <1>11, <2>1, LocallySignedKeepsAirInv DEF SignPiped
<1>12. ASSUME NEW k \in AirKeys, NEW tx \in AirTxs, SignElsewhere(k, tx) PROVE AirInv'
  BY <1>12, <1>a, SignedKeepsAirInv DEF SignElsewhere, AirTypeOK
<1>13. ASSUME ExecuteEnds PROVE AirInv'
  BY <1>13, <1>a, UntouchedKeepsAirInv DEF ExecuteEnds, AirTypeOK
<1>14. ASSUME UNCHANGED airVars PROVE AirInv'
  BY <1>14, <1>a, UntouchedKeepsAirInv DEF airVars, AirTypeOK
<1> QED
  BY <1>1, <1>2, <1>3, <1>4, <1>7, <1>8, <1>9, <1>10, <1>11, <1>12, <1>13, <1>14,
     MiscopyKeepsAirInv, VerificationKeepsAirInv DEF AirNext

\* The invariant's parts are well typed in every behaviour.
THEOREM AirTypeCorrect == AirSpec => []AirTypeOK
<1>1. AirInv => AirTypeOK
  BY DEF AirInv
<1> QED BY AirInvInit, AirInvStep, <1>1, PTL DEF AirSpec

\* Every key counted towards the threshold is that of a signer of the
\* transaction the coordinator named.
THEOREM CountedSignedAlways == AirSpec => []CountedSigned
<1>1. AirInv => CountedSigned
  BY DEF AirInv
<1> QED BY AirInvInit, AirInvStep, <1>1, PTL DEF AirSpec
-----------------------------------------------------------------------------
(* Scheduled signing: what `schedule sign` told its user stays true. *)

\* Before there is a schedule nothing is under way, and what the network answered
\* is so: an execution is for good, and so is a signature it took.
AnswersTrue ==
  /\ creation = "none" =>
       schedule = "none" /\ \A k \in ScheduleKeys : signing[k] = "none"
  /\ signing \in [ScheduleKeys -> SignAnswers]
  /\ told \in [ScheduleKeys -> Results]
  /\ \A k \in ScheduleKeys :
       /\ signing[k] \in {"executed", "already"} => schedule = "executed"
       /\ signing[k] \in {"executed", "counted"} => k \in signatories

ScheduleInv == AnswersTrue /\ SignersToldTrue

LEMMA ScheduleInvInit == ScheduleInit => ScheduleInv
  BY DEF ScheduleInit, ScheduleInv, AnswersTrue, SignersToldTrue, SignAnswers, Results

\* The network's answer to a signature is true of what it makes of the schedule,
\* which is never less than it was.
LEMMA LedgerTrue ==
  ASSUME NEW k \in ScheduleKeys
  PROVE  /\ Ledger(k).answer \in SignAnswers
         /\ Ledger(k).answer \in {"executed", "already"} => Ledger(k).schedule = "executed"
         /\ Ledger(k).answer \in {"executed", "counted"} => k \in Ledger(k).sigs
         /\ schedule = "executed" => Ledger(k).schedule = "executed"
         /\ signatories \subseteq Ledger(k).sigs
<1> DEFINE all == signatories \cup {k}
<1>1. CASE schedule = "executed"
  BY <1>1 DEF Ledger, SignAnswers
<1>2. CASE schedule # "executed" /\ (schedule = "gone" \/ k \in signatories)
  BY <1>2 DEF Ledger, SignAnswers
<1>3. CASE schedule # "executed" /\ ~(schedule = "gone" \/ k \in signatories)
  <2>1. CASE Cardinality(all) >= Needed /\ ~waits
    BY <1>3, <2>1 DEF Ledger, SignAnswers
  <2>2. CASE ~(Cardinality(all) >= Needed /\ ~waits)
    BY <1>3, <2>2 DEF Ledger, SignAnswers
  <2> QED BY <2>1, <2>2
<1> QED BY <1>1, <1>2, <1>3

LEMMA ScheduleInvStep == ScheduleInv /\ [ScheduleNext]_scheduleVars => ScheduleInv'
<1> SUFFICES ASSUME ScheduleInv, [ScheduleNext]_scheduleVars PROVE ScheduleInv'
  OBVIOUS
<1> USE DEF ScheduleInv, AnswersTrue, SignersToldTrue
\* Nobody has been told anything of a schedule that is not there yet.
<1>1. ASSUME CreateSchedule PROVE ScheduleInv'
  BY <1>1 DEF CreateSchedule, SignAnswers, Results
<1>2. ASSUME NEW k \in ScheduleKeys, SignSchedule(k) PROVE ScheduleInv'
  BY <1>2 DEF SignSchedule, SignAnswers, Results
<1>3. ASSUME NEW k \in ScheduleKeys, NetworkTakes(k) PROVE ScheduleInv'
  <2>1. creation # "none" /\ creation' # "none"
    BY <1>3 DEF NetworkTakes
  <2>2. /\ signing' = [signing EXCEPT ![k] = Ledger(k).answer]
        /\ schedule' = Ledger(k).schedule /\ signatories' = Ledger(k).sigs
        /\ told' = told
    BY <1>3 DEF NetworkTakes
  <2> QED BY <2>1, <2>2, LedgerTrue
\* What is told is the answer that came, or a failure.
<1>4. ASSUME NEW k \in ScheduleKeys, ReceiptComes(k) PROVE ScheduleInv'
  <2>1. /\ Reports(signing[k]) \in Results
        /\ Reports(signing[k]) = "executed" => signing[k] = "executed"
        /\ Reports(signing[k]) = "accepted" => signing[k] = "counted"
        /\ Reports(signing[k]) = "already executed" => signing[k] = "already"
    BY <1>4 DEF ReceiptComes, Reports, Results, SignAnswers
  <2> HIDE DEF ScheduleInv, AnswersTrue, SignersToldTrue
  <2>2. /\ told' = [told EXCEPT ![k] = Reports(signing[k])]
        /\ signing' = [signing EXCEPT ![k] = "none"]
        /\ UNCHANGED <<schedule, signatories, creation>>
    BY <1>4 DEF ReceiptComes
  <2>3. AnswersTrue'
    BY <2>1, <2>2 DEF ScheduleInv, AnswersTrue, SignAnswers
  <2>4. SignersToldTrue'
    BY <2>1, <2>2 DEF ScheduleInv, AnswersTrue, SignersToldTrue
  <2> QED BY <2>3, <2>4 DEF ScheduleInv
<1>5. ASSUME NEW k \in ScheduleKeys, ReceiptLost(k) PROVE ScheduleInv'
  BY <1>5 DEF ReceiptLost, SignAnswers, Results
<1>6. ASSUME ScheduleExpires PROVE ScheduleInv'
  BY <1>6 DEF ScheduleExpires
<1>7. ASSUME UNCHANGED scheduleVars PROVE ScheduleInv'
  BY <1>7 DEF scheduleVars
<1> QED
  BY <1>1, <1>2, <1>3, <1>4, <1>5, <1>6, <1>7 DEF ScheduleNext

\* Executed, by him or before him, is executed on the network; accepted is a
\* signature that the schedule has.
THEOREM SignersToldTrueAlways == ScheduleSpec => []SignersToldTrue
<1>1. ScheduleInv => SignersToldTrue
  BY DEF ScheduleInv
<1> QED BY ScheduleInvInit, ScheduleInvStep, <1>1, PTL DEF ScheduleSpec

LEMMA ScheduleTypeInit == ScheduleInit => ScheduleTypeOK
  BY ScheduleAssumption DEF ScheduleInit, ScheduleTypeOK, SignAnswers, Results

LEMMA RoomForOneMore == ASSUME NEW n \in Nat, NEW m \in 0..n, m < n PROVE m + 1 \in 0..n
  OBVIOUS

LEMMA ScheduleTypeStep == ScheduleTypeOK /\ [ScheduleNext]_scheduleVars => ScheduleTypeOK'
<1> SUFFICES ASSUME ScheduleTypeOK, [ScheduleNext]_scheduleVars PROVE ScheduleTypeOK'
  OBVIOUS
<1> USE ScheduleAssumption DEF ScheduleTypeOK, Results
<1>s. "none" \in SignAnswers /\ "submitted" \in SignAnswers
  BY DEF SignAnswers
<1>1. CASE CreateSchedule \/ ScheduleExpires
  BY <1>1 DEF CreateSchedule, ScheduleExpires
<1>2. ASSUME NEW k \in ScheduleKeys, SignSchedule(k) PROVE ScheduleTypeOK'
  <2>1. signs[k] \in 0..MaxSigns /\ MaxSigns \in Nat
    OBVIOUS
  <2>2. signs[k] < MaxSigns
    BY <1>2 DEF SignSchedule
  <2>3. signs[k] + 1 \in 0..MaxSigns
    BY <2>1, <2>2, RoomForOneMore
  <2>4. signs' \in [ScheduleKeys -> 0..MaxSigns]
    BY <1>2, <2>3 DEF SignSchedule
  <2> QED BY <1>2, <1>s, <2>4 DEF SignSchedule
<1>3. ASSUME NEW k \in ScheduleKeys, NetworkTakes(k) PROVE ScheduleTypeOK'
  <2>1. /\ Ledger(k).answer \in SignAnswers
        /\ Ledger(k).schedule \in {schedule, "executed"}
        /\ Ledger(k).sigs \in {signatories, signatories \cup {k}}
    <3>1. CASE schedule = "executed"
      BY <3>1, LedgerTrue DEF Ledger
    <3>2. CASE schedule # "executed" /\ (schedule = "gone" \/ k \in signatories)
      BY <3>2, LedgerTrue DEF Ledger
    <3>3. CASE schedule # "executed" /\ ~(schedule = "gone" \/ k \in signatories)
      <4>1. CASE Cardinality(signatories \cup {k}) >= Needed /\ ~waits
        BY <3>3, <4>1, LedgerTrue DEF Ledger
      <4>2. CASE ~(Cardinality(signatories \cup {k}) >= Needed /\ ~waits)
        BY <3>3, <4>2, LedgerTrue DEF Ledger
      <4> QED BY <4>1, <4>2
    <3> QED BY <3>1, <3>2, <3>3
  <2> QED BY <1>3, <2>1 DEF NetworkTakes
<1>4. ASSUME NEW k \in ScheduleKeys, ReceiptComes(k) \/ ReceiptLost(k) PROVE ScheduleTypeOK'
  <2>1. Reports(signing[k]) \in Results
    BY DEF Reports
  <2> QED BY <1>4, <1>s, <2>1 DEF ReceiptComes, ReceiptLost
<1>5. CASE UNCHANGED scheduleVars
  BY <1>5 DEF scheduleVars
<1> QED BY <1>1, <1>2, <1>3, <1>4, <1>5 DEF ScheduleNext

\* Every variable of scheduled signing keeps its type.
THEOREM ScheduleTypeCorrect == ScheduleSpec => []ScheduleTypeOK
  BY ScheduleTypeInit, ScheduleTypeStep, PTL DEF ScheduleSpec

-----------------------------------------------------------------------------
(* Induction, in a form that takes sets and functions only *)

\* Every non-empty set of natural numbers has a least one: otherwise to step down
\* maps the numbers up to one of them that are no less than a member one-to-one
\* into themselves, hence onto, and misses the greatest.
LEMMA LeastNumber ==
  ASSUME NEW T \in SUBSET Nat, T # {}
  PROVE  \E n \in T : \A m \in T : n <= m
<1> SUFFICES ASSUME \A n \in T : \E m \in T : m < n PROVE FALSE
  OBVIOUS
<1>1. PICK top \in T : TRUE
  OBVIOUS
<1> DEFINE U    == {n \in 0..top : \E m \in T : m <= n}
           down == [n \in U |-> n - 1]
<1>2. ASSUME NEW n \in U PROVE n - 1 \in U
  <2>1. PICK m \in T : m <= n
    OBVIOUS
  <2>2. PICK k \in T : k < m
    OBVIOUS
  <2>3. n \in 0..top /\ k \in Nat /\ m \in Nat
    OBVIOUS
  <2>4. n - 1 \in 0..top /\ k <= n - 1
    BY <2>1, <2>2, <2>3
  <2> QED BY <2>4
<1>3. down \in [U -> U]
  BY <1>2
<1>4. \A x, y \in U : down[x] = down[y] => x = y
  OBVIOUS
<1>5. down \in Injection(U, U)
  BY <1>3, <1>4 DEF Injection, IsInjective
<1>6. IsFiniteSet(U)
  <2>1. IsFiniteSet(0..top)
    BY FS_Interval
  <2> QED BY <2>1, FS_Subset
<1>7. down \in Surjection(U, U)
  BY <1>5, <1>6, FS_Injection
<1>8. top \in U
  OBVIOUS
<1>9. PICK n \in U : down[n] = top
  BY <1>7, <1>8 DEF Surjection
<1> QED BY <1>9

\* Induction up to N over a set.
LEMMA InductionUpTo ==
  ASSUME NEW N \in Nat, NEW I, 0 \in I, \A n \in 1..N : n - 1 \in I => n \in I
  PROVE  0..N \subseteq I
<1> DEFINE T == {n \in 0..N : n \notin I}
<1> SUFFICES ASSUME T # {} PROVE FALSE
  OBVIOUS
<1>1. T \in SUBSET Nat
  OBVIOUS
<1>2. PICK n \in T : \A m \in T : n <= m
  BY <1>1, LeastNumber
<1>3. n \in 1..N
  BY <1>2
<1>4. n - 1 \notin T /\ n - 1 \in 0..N
  BY <1>2, <1>3
<1> QED BY <1>2, <1>3, <1>4

\* What a loop of N rounds makes of a, round by round.
Loop(f, N, a, round) == f[0] = a /\ \A n \in 1..N : f[n] = round[n][f[n - 1]]

\* Every such loop has a result: what a recursive function needs to be one.
LEMMA LoopExists ==
  ASSUME NEW N \in Nat, NEW S, NEW a \in S, NEW round \in [1..N -> [S -> S]]
  PROVE  \E f \in [0..N -> S] : Loop(f, N, a, round)
<1> DEFINE I == {k \in 0..N : \E f \in [0..N -> S] : Loop(f, k, a, round)}
<1>1. 0 \in I
  <2>1. [n \in 0..N |-> a] \in [0..N -> S] /\ Loop([n \in 0..N |-> a], 0, a, round)
    BY DEF Loop
  <2> QED BY <2>1
<1>2. ASSUME NEW k \in 1..N, k - 1 \in I PROVE k \in I
  <2>1. PICK f \in [0..N -> S] : Loop(f, k - 1, a, round)
    BY <1>2
  <2> DEFINE g == [f EXCEPT ![k] = round[k][f[k - 1]]]
  <2>2. k - 1 \in 0..N /\ k \in 0..N /\ round[k] \in [S -> S]
    OBVIOUS
  <2>3. g \in [0..N -> S]
    BY <2>2
  <2>4. g[0] = a
    BY <2>1 DEF Loop
  <2>5. ASSUME NEW n \in 1..k PROVE g[n] = round[n][g[n - 1]]
    <3>1. n - 1 \in 0..N /\ n \in 0..N /\ n - 1 # k
      OBVIOUS
    <3>2. CASE n = k
      BY <3>1, <3>2
    <3>3. CASE n # k
      <4>1. n \in 1..(k - 1)
        BY <3>3
      <4> QED BY <2>1, <3>1, <3>3, <4>1 DEF Loop
    <3> QED BY <3>2, <3>3
  <2>6. Loop(g, k, a, round)
    BY <2>4, <2>5 DEF Loop
  <2> QED BY <2>2, <2>3, <2>6
<1> HIDE DEF I
<1>3. 0..N \subseteq I
  BY <1>1, <1>2, InductionUpTo
<1>4. N \in I
  BY <1>3
<1> QED BY <1>4 DEF I

-----------------------------------------------------------------------------
(* Node selection.  What is pushed of a list *)

Rounds(K, ids, places) ==
  /\ K[0] = <<>>
  /\ \A n \in 1..Len(ids) :
       K[n] = IF n \in places THEN Append(K[n - 1], ids[n]) ELSE K[n - 1]

\* The recursive function of Pushed, round by round.
LEMMA PushedRounds ==
  ASSUME NEW S, NEW ids \in Seq(S), NEW places
  PROVE  \E K \in [0..Len(ids) -> Seq(S)] :
           Rounds(K, ids, places) /\ Pushed(ids, places) = K[Len(ids)]
<1> DEFINE N == Len(ids)
           round == [n \in 1..N |-> [q \in Seq(S) |->
                      IF n \in places THEN Append(q, ids[n]) ELSE q]]
           Loops(K) == K = [n \in 0..N |->
             IF n = 0 THEN <<>>
             ELSE IF n \in places THEN Append(K[n - 1], ids[n]) ELSE K[n - 1]]
<1>1. N \in Nat /\ \A n \in 1..N : ids[n] \in S
  BY LenProperties, ElementOfSeq
<1>2. round \in [1..N -> [Seq(S) -> Seq(S)]]
  BY <1>1, AppendProperties
<1>3. <<>> \in Seq(S)
  OBVIOUS
<1> HIDE DEF N
<1>4. PICK f \in [0..N -> Seq(S)] : Loop(f, N, <<>>, round)
  <2> HIDE DEF round
  <2> QED BY <1>1, <1>2, <1>3, LoopExists
<1>5. ASSUME NEW n \in 1..N
      PROVE  f[n] = IF n \in places THEN Append(f[n - 1], ids[n]) ELSE f[n - 1]
  <2>1. f[n - 1] \in Seq(S)
    BY <1>1
  <2> QED BY <1>4, <2>1 DEF Loop
<1>6. Loops(f)
  <2>1. f = [n \in 0..N |-> f[n]]
    OBVIOUS
  <2>2. ASSUME NEW n \in 0..N
        PROVE  f[n] = IF n = 0 THEN <<>>
                      ELSE IF n \in places THEN Append(f[n - 1], ids[n]) ELSE f[n - 1]
    <3>1. n = 0 \/ n \in 1..N
      BY <1>1
    <3> QED BY <3>1, <1>4, <1>5 DEF Loop
  <2> QED BY <2>1, <2>2
<1>7. Loops(CHOOSE K : Loops(K))
  <2> HIDE DEF Loops
  <2> QED BY <1>6
<1> DEFINE K == CHOOSE K : Loops(K)
<1>8. Pushed(ids, places) = K[N]
  BY DEF Pushed, N
<1>9. Loops(K)
  BY <1>7
<1> HIDE DEF K
<1>10. K[0] = <<>> /\ 0 \in 0..N
  BY <1>1, <1>9
<1>11. ASSUME NEW n \in 1..N
       PROVE  K[n] = IF n \in places THEN Append(K[n - 1], ids[n]) ELSE K[n - 1]
  <2>1. n \in 0..N /\ n # 0
    BY <1>1
  <2> QED BY <1>9, <2>1
<1> DEFINE I == {n \in 0..N : K[n] \in Seq(S)}
<1>12. 0 \in I
  BY <1>3, <1>10
<1>13. ASSUME NEW n \in 1..N, n - 1 \in I PROVE n \in I
  <2>1. K[n - 1] \in Seq(S) /\ ids[n] \in S
    BY <1>1, <1>13
  <2>2. Append(K[n - 1], ids[n]) \in Seq(S)
    BY <2>1, AppendProperties
  <2>3. K[n] \in Seq(S)
    BY <1>11, <2>1, <2>2
  <2> QED BY <1>1, <2>3
<1>14. 0..N \subseteq I
  <2> HIDE DEF I
  <2> QED BY <1>1, <1>12, <1>13, InductionUpTo
<1>15. K \in [0..N -> Seq(S)]
  BY <1>9, <1>14
<1>16. Rounds(K, ids, places)
  BY <1>10, <1>11 DEF Rounds, N
<1> QED BY <1>8, <1>15, <1>16 DEF N

\* q takes the places of I, all of them and in their order; at[k] is where its
\* k-th came from.
Takes(q, ids, I, at) ==
  /\ at \in [1..Len(q) -> I]
  /\ \A i \in I : \E k \in 1..Len(q) : at[k] = i
  /\ \A k, l \in 1..Len(q) : k < l => at[k] < at[l]
  /\ \A k \in 1..Len(q) : q[k] = ids[at[k]]

\* What is pushed is what stands at the given places, in order.
LEMMA PushedTakes ==
  ASSUME NEW S, NEW ids \in Seq(S), NEW I \in SUBSET (1..Len(ids))
  PROVE  /\ Pushed(ids, I) \in Seq(S) /\ Len(Pushed(ids, I)) <= Len(ids)
         /\ \E at : Takes(Pushed(ids, I), ids, I, at)
<1> DEFINE N == Len(ids)
<1>1. N \in Nat /\ \A n \in 1..N : ids[n] \in S
  BY LenProperties, ElementOfSeq
<1>2. PICK K \in [0..N -> Seq(S)] : Rounds(K, ids, I) /\ Pushed(ids, I) = K[N]
  BY PushedRounds
<1>a. /\ K[0] = <<>>
      /\ \A n \in 1..N : K[n] = IF n \in I THEN Append(K[n - 1], ids[n]) ELSE K[n - 1]
  BY <1>2 DEF Rounds
<1> DEFINE Upto(n) == {i \in I : i <= n}
           J == {n \in 0..N : Len(K[n]) <= n
                              /\ \E at : Takes(K[n], ids, Upto(n), at)}
<1>b. \A i \in I : i \in 1..N /\ i \in Nat /\ i > 0 /\ i <= N
  BY <1>1
<1> HIDE DEF N
<1>3. 0 \in J
  <2>a. Upto(0) = {}
    <3>1. \A i \in I : ~ (i <= 0)
      BY <1>b
    <3> QED BY <3>1
  <2>b. Len(K[0]) = 0
    BY <1>a
  <2>1. Len(K[0]) = 0 /\ Upto(0) = {} /\ 0 \in 0..N
    BY <1>1, <2>a, <2>b
  <2>2. 1..0 = {}
    OBVIOUS
  <2>3. [k \in {} |-> 0] \in [1..0 -> {}]
    BY <2>2
  <2>4. Takes(K[0], ids, Upto(0), [k \in {} |-> 0])
    BY <2>1, <2>2, <2>3 DEF Takes
  <2>5. \E at : Takes(K[0], ids, Upto(0), at)
    BY <2>4
  <2> HIDE DEF Upto
  <2> QED BY <2>1, <2>5
<1>4. ASSUME NEW n \in 1..N, n - 1 \in J PROVE n \in J
  <2> DEFINE p == K[n - 1]
             q == K[n]
  <2>1. /\ n \in Nat /\ n \in 0..N /\ n - 1 \in 0..N /\ ids[n] \in S
        /\ p \in Seq(S) /\ q \in Seq(S) /\ Len(p) \in Nat /\ Len(p) <= n - 1
    BY <1>1, <1>4, LenProperties
  <2>2. PICK at : Takes(p, ids, Upto(n - 1), at)
    BY <1>4
  <2>3. CASE n \notin I
    <3>1. q = p
      BY <1>a, <2>3
    <3>2. Upto(n) = Upto(n - 1)
      <4>1. \A i \in I : i <= n <=> i <= n - 1
        BY <1>b, <2>1, <2>3
      <4> QED BY <4>1
    <3>3. Takes(q, ids, Upto(n), at)
      BY <2>2, <3>1, <3>2
    <3>4. Len(q) <= n
      BY <2>1, <3>1
    <3> HIDE DEF p, Upto
    <3> QED BY <2>1, <3>3, <3>4
  <2>4. CASE n \in I
    <3>1. q = Append(p, ids[n])
      BY <1>a, <2>4
    <3>2. /\ Len(q) = Len(p) + 1
          /\ \A k \in 1..Len(p) : q[k] = p[k]
          /\ q[Len(p) + 1] = ids[n]
      BY <2>1, <3>1, AppendProperties
    <3> DEFINE to == [k \in 1..(Len(p) + 1) |-> IF k = Len(p) + 1 THEN n ELSE at[k]]
    <3>3. Upto(n) = Upto(n - 1) \cup {n} /\ \A i \in Upto(n - 1) : i < n /\ i \in Nat
      <4>1. \A i \in I : i <= n <=> (i = n \/ i <= n - 1)
        BY <1>b, <2>1
      <4>2. \A i \in I : i \in Nat /\ (i <= n - 1 => i < n)
        BY <1>b, <2>1
      <4> QED BY <2>4, <4>1, <4>2
    <3> HIDE DEF p, q, Upto
    <3>4. ASSUME NEW k \in 1..(Len(p) + 1)
          PROVE  k \in 1..Len(p) \/ k = Len(p) + 1
      BY <2>1
    <3>5. \A k \in 1..Len(p) : to[k] = at[k] /\ at[k] \in Upto(n - 1)
      BY <2>1, <2>2 DEF Takes
    <3>6. to[Len(p) + 1] = n
      BY <2>1
    <3>7. to \in [1..Len(q) -> Upto(n)]
      BY <3>2, <3>3, <3>4, <3>5, <3>6
    <3>8. ASSUME NEW i \in Upto(n) PROVE \E k \in 1..Len(q) : to[k] = i
      <4>1. CASE i = n
        BY <2>1, <3>2, <3>6, <4>1
      <4>2. CASE i \in Upto(n - 1)
        <5>1. PICK k \in 1..Len(p) : at[k] = i
          BY <2>2, <4>2 DEF Takes
        <5> QED BY <2>1, <3>2, <3>5, <5>1
      <4> QED BY <3>3, <4>1, <4>2
    <3>9. ASSUME NEW k \in 1..Len(q), NEW l \in 1..Len(q), k < l PROVE to[k] < to[l]
      <4>1. k \in 1..Len(p)
        BY <2>1, <3>2, <3>9
      <4>2. CASE l = Len(p) + 1
        BY <3>3, <3>5, <3>6, <4>1, <4>2
      <4>3. CASE l \in 1..Len(p)
        BY <2>2, <3>5, <3>9, <4>1, <4>3 DEF Takes
      <4> QED BY <3>2, <3>4, <4>2, <4>3
    <3>10. ASSUME NEW k \in 1..Len(q) PROVE q[k] = ids[to[k]]
      <4>1. CASE k = Len(p) + 1
        BY <3>2, <3>6, <4>1
      <4>2. CASE k \in 1..Len(p)
        BY <2>2, <3>2, <3>5, <4>2 DEF Takes
      <4> QED BY <3>2, <3>4, <4>1, <4>2
    <3>11. Takes(q, ids, Upto(n), to)
      <4> HIDE DEF to
      <4> QED BY <3>7, <3>8, <3>9, <3>10 DEF Takes
    <3>12. Len(q) <= n
      BY <2>1, <3>2
    <3> QED BY <2>1, <3>11, <3>12 DEF q
  <2> QED BY <2>3, <2>4
<1>5. 0..N \subseteq J
  <2> HIDE DEF J
  <2> QED BY <1>1, <1>3, <1>4, InductionUpTo
<1>6. Upto(N) = I
  BY <1>b
<1>7. N \in J
  <2> HIDE DEF J
  <2> QED BY <1>1, <1>5
<1> QED BY <1>1, <1>2, <1>6, <1>7 DEF N

-----------------------------------------------------------------------------
(* ... put in order ... *)

\* p is the list in another order, f[k] being where its k-th was: the good ones
\* first, both parts in the order they had.
GoodFirst(p, ids, good, f) ==
  /\ \A k \in 1..Len(ids) : p[k] = ids[f[k]]
  /\ \A k, l \in 1..Len(ids) : k < l =>
       \/ p[k] \in good /\ p[l] \notin good
       \/ (p[k] \in good <=> p[l] \in good) /\ f[k] < f[l]

LEMMA PutFirstOrders ==
  ASSUME NEW S, NEW ids \in Seq(S), NEW good
  PROVE  /\ PutFirst(ids, good) \in Seq(S) /\ Len(PutFirst(ids, good)) = Len(ids)
         /\ \E f \in Bijection(1..Len(ids), 1..Len(ids)) :
              GoodFirst(PutFirst(ids, good), ids, good, f)
<1> DEFINE N == Len(ids)
           I == {i \in DOMAIN ids : ids[i] \in good}
           J == {i \in DOMAIN ids : ids[i] \notin good}
           a == Pushed(ids, I)
           b == Pushed(ids, J)
           p == a \o b
<1>1. N \in Nat /\ DOMAIN ids = 1..N
  BY LenProperties
<1>2. I \in SUBSET (1..N) /\ J \in SUBSET (1..N)
  BY <1>1
<1>3. a \in Seq(S) /\ \E at : Takes(a, ids, I, at)
  BY <1>2, PushedTakes
<1>4. b \in Seq(S) /\ \E at : Takes(b, ids, J, at)
  BY <1>2, PushedTakes
<1>5. PICK at : Takes(a, ids, I, at)
  BY <1>3
<1>6. PICK to : Takes(b, ids, J, to)
  BY <1>4
<1> DEFINE A == Len(a)
           B == Len(b)
           f == [k \in 1..(A + B) |-> IF k <= A THEN at[k] ELSE to[k - A]]
<1>7. A \in Nat /\ B \in Nat
  BY <1>3, <1>4, LenProperties
<1>8. /\ p \in Seq(S) /\ Len(p) = A + B
      /\ \A k \in 1..A : p[k] = a[k]
      /\ \A k \in 1..B : p[A + k] = b[k]
  BY <1>3, <1>4, <1>7, ConcatProperties
<1>9. \A i \in 1..N : (i \in I <=> ids[i] \in good) /\ (i \in J <=> ids[i] \notin good)
  BY <1>1
<1>10. PutFirst(ids, good) = p
  BY DEF PutFirst
<1> HIDE DEF N, I, J, a, b, p, A, B
<1>11. ASSUME NEW k \in 1..(A + B)
       PROVE  k \in 1..A \/ (k - A \in 1..B /\ ~(k <= A))
  <2>1. k \in Int /\ 1 <= k /\ k <= A + B
    BY <1>7
  <2>2. CASE k <= A
    BY <1>7, <2>1, <2>2
  <2>3. CASE ~(k <= A)
    BY <1>7, <2>1, <2>3
  <2> QED BY <2>2, <2>3
<1>12. ASSUME NEW k \in 1..A
       PROVE  /\ k \in 1..(A + B) /\ f[k] = at[k] /\ f[k] \in I
              /\ p[k] = ids[f[k]]
  <2>1. k \in 1..(A + B) /\ k <= A
    BY <1>7
  <2>2. f[k] = at[k]
    BY <2>1
  <2> HIDE DEF f
  <2> QED BY <1>5, <1>8, <2>1, <2>2 DEF Takes, A
<1>13. ASSUME NEW k \in 1..(A + B), k - A \in 1..B
       PROVE  f[k] = to[k - A] /\ f[k] \in J /\ p[k] = ids[f[k]]
  <2>1. ~(k <= A) /\ k = A + (k - A)
    BY <1>7, <1>13
  <2>2. f[k] = to[k - A]
    BY <2>1
  <2>3. p[k] = b[k - A]
    BY <1>8, <1>13, <2>1
  <2> HIDE DEF f
  <2> QED BY <1>6, <1>13, <2>2, <2>3 DEF Takes, B
<1>14. f \in [1..(A + B) -> 1..N]
  <2>1. ASSUME NEW k \in 1..(A + B) PROVE f[k] \in 1..N
    BY <1>2, <1>11, <1>12, <1>13
  <2>2. f = [k \in 1..(A + B) |-> f[k]]
    OBVIOUS
  <2> HIDE DEF f
  <2> QED BY <2>1, <2>2
<1> HIDE DEF f
\* The order within each part.
<1>15. ASSUME NEW k \in 1..(A + B), NEW l \in 1..(A + B), k < l
       PROVE  \/ f[k] \in I /\ f[l] \in J
              \/ (f[k] \in I <=> f[l] \in I) /\ f[k] < f[l]
  <2>1. CASE l \in 1..A
    <3>1. k \in 1..A
      BY <1>7, <1>15, <2>1
    <3> QED BY <1>5, <1>12, <1>15, <2>1, <3>1 DEF Takes, A
  <2>2. CASE k \in 1..A /\ l - A \in 1..B
    BY <1>12, <1>13, <2>2
  <2>3. CASE k - A \in 1..B /\ l - A \in 1..B
    <3>1. k - A < l - A
      BY <1>7, <1>15
    <3>2. to[k - A] < to[l - A]
      BY <1>6, <2>3, <3>1 DEF Takes, B
    <3>3. f[k] \notin I /\ f[l] \notin I
      BY <1>2, <1>9, <1>13, <2>3
    <3> QED BY <1>13, <2>3, <3>2, <3>3
  <2>4. ~(k - A \in 1..B /\ l \in 1..A)
    BY <1>7, <1>15
  <2> QED BY <1>11, <2>1, <2>2, <2>3, <2>4
<1>16. ASSUME NEW k \in 1..(A + B), NEW l \in 1..(A + B), f[k] = f[l] PROVE k = l
  <2>1. ~(f[k] \in I /\ f[l] \in J)
    BY <1>2, <1>9, <1>16
  <2>2. ~(f[l] \in I /\ f[k] \in J)
    BY <1>2, <1>9, <1>16
  <2>3. f[k] \in 1..N
    BY <1>14
  <2>4. ~(k < l) /\ ~(l < k)
    BY <1>1, <1>15, <1>16, <2>1, <2>2, <2>3
  <2> QED BY <1>7, <2>4
<1>17. ASSUME NEW i \in 1..N PROVE \E k \in 1..(A + B) : f[k] = i
  <2>1. CASE i \in I
    <3>1. PICK k \in 1..A : at[k] = i
      BY <1>5, <2>1 DEF Takes, A
    <3> QED BY <1>12, <3>1
  <2>2. CASE i \in J
    <3>1. PICK k \in 1..B : to[k] = i
      BY <1>6, <2>2 DEF Takes, B
    <3>2. A + k \in 1..(A + B) /\ (A + k) - A = k
      BY <1>7
    <3> QED BY <1>13, <3>1, <3>2
  <2> QED BY <1>9, <2>1, <2>2
<1>18. f \in Injection(1..(A + B), 1..N) /\ f \in Surjection(1..(A + B), 1..N)
  BY <1>14, <1>16, <1>17 DEF Injection, Surjection, IsInjective
<1>19. A + B = N
  <2>1. /\ IsFiniteSet(1..(A + B)) /\ Cardinality(1..(A + B)) = A + B
        /\ IsFiniteSet(1..N) /\ Cardinality(1..N) = N
    BY <1>1, <1>7, FS_Interval
  <2>2. ExistsBijection(1..(A + B), 1..N)
    BY <1>18 DEF ExistsBijection, Bijection
  <2> QED BY <2>1, <2>2, FS_Bijection
<1>20. f \in Bijection(1..N, 1..N)
  BY <1>18, <1>19 DEF Bijection
<1>21. ASSUME NEW k \in 1..N
       PROVE  p[k] = ids[f[k]] /\ (p[k] \in good <=> f[k] \in I) /\ f[k] \in 1..N
              /\ (p[k] \notin good <=> f[k] \in J)
  <2>1. k \in 1..(A + B)
    BY <1>19
  <2>2. p[k] = ids[f[k]]
    BY <1>11, <1>12, <1>13, <2>1
  <2> QED BY <1>9, <1>14, <2>1, <2>2
<1>22. GoodFirst(p, ids, good, f)
  <2>1. ASSUME NEW k \in 1..N, NEW l \in 1..N, k < l
        PROVE  \/ p[k] \in good /\ p[l] \notin good
               \/ (p[k] \in good <=> p[l] \in good) /\ f[k] < f[l]
    BY <1>15, <1>19, <1>21, <2>1
  <2> QED BY <1>21, <2>1 DEF GoodFirst, N
<1> QED BY <1>8, <1>10, <1>19, <1>20, <1>22 DEF N

\* What is only put in another order has each member as often.
LEMMA TimesKept ==
  ASSUME NEW N \in Nat, NEW p, NEW q, DOMAIN p = 1..N, DOMAIN q = 1..N,
         NEW f \in Bijection(1..N, 1..N), \A k \in 1..N : p[k] = q[f[k]], NEW n
  PROVE  Times(p, n) = Times(q, n)
<1> DEFINE A == {i \in DOMAIN p : p[i] = n}
           B == {i \in DOMAIN q : q[i] = n}
           g == [i \in A |-> f[i]]
<1>1. /\ f \in [1..N -> 1..N]
      /\ \A x, y \in 1..N : f[x] = f[y] => x = y
      /\ \A y \in 1..N : \E x \in 1..N : f[x] = y
  BY DEF Bijection, Injection, Surjection, IsInjective
<1>2. g \in [A -> B]
  BY <1>1
<1>3. \A x, y \in A : g[x] = g[y] => x = y
  BY <1>1
<1>4. ASSUME NEW y \in B PROVE \E x \in A : g[x] = y
  <2>1. PICK x \in 1..N : f[x] = y
    BY <1>1
  <2>2. x \in A
    BY <2>1
  <2> QED BY <2>1, <2>2
<1>5. ExistsBijection(A, B)
  <2>1. g \in Bijection(A, B)
    <3> HIDE DEF g, A, B
    <3> QED BY <1>2, <1>3, <1>4 DEF Bijection, Injection, Surjection, IsInjective
  <2> QED BY <2>1 DEF ExistsBijection
<1>6. IsFiniteSet(A)
  <2> HIDE DEF A
  <2>1. 1 \in Int /\ N \in Int
    OBVIOUS
  <2>2. IsFiniteSet(1..N)
    BY <2>1, FS_Interval
  <2>3. A \in SUBSET (1..N)
    BY DEF A
  <2> QED BY <2>2, <2>3, FS_Subset
<1> QED BY <1>5, <1>6, FS_Bijection DEF Times

\* A shuffle is such an order.
LEMMA ShuffleKeeps ==
  ASSUME NEW S, NEW ids \in Seq(S), NEW p \in Shuffles(ids)
  PROVE  /\ p \in Seq(S) /\ Len(p) = Len(ids)
         /\ \A n : Times(p, n) = Times(ids, n)
<1> DEFINE N == Len(ids)
<1>1. N \in Nat /\ DOMAIN ids = 1..N /\ \A i \in 1..N : ids[i] \in S
  BY LenProperties, ElementOfSeq
<1>2. IsFiniteSet(1..N) /\ Cardinality(1..N) = N
  <2> HIDE DEF N
  <2> QED BY <1>1, FS_Interval
<1>3. PICK f \in SetToSeqs(DOMAIN ids) : p = [i \in DOMAIN ids |-> ids[f[i]]]
  BY DEF Shuffles
<1> HIDE DEF N
<1>4. f \in [1..N -> 1..N] /\ \A i, j \in 1..N : i # j => f[i] # f[j]
  BY <1>1, <1>2, <1>3 DEF SetToSeqs
<1>5. f \in Bijection(1..N, 1..N)
  <2>1. f \in Injection(1..N, 1..N)
    BY <1>4 DEF Injection, IsInjective
  <2>2. f \in Surjection(1..N, 1..N)
    BY <1>2, <2>1, FS_Injection
  <2> QED BY <2>1, <2>2 DEF Bijection
<1>6. p \in [1..N -> S] /\ DOMAIN p = 1..N /\ \A k \in 1..N : p[k] = ids[f[k]]
  BY <1>1, <1>3, <1>4
<1>7. p \in Seq(S) /\ Len(p) = N
  BY <1>1, <1>6
<1>8. ASSUME NEW n PROVE Times(p, n) = Times(ids, n)
  <2>1. N \in Nat /\ DOMAIN p = 1..N /\ DOMAIN ids = 1..N
    BY <1>1, <1>6
  <2>2. \A k \in 1..N : p[k] = ids[f[k]]
    BY <1>6
  <2> QED BY <1>5, <2>1, <2>2, TimesKept
<1> QED BY <1>7, <1>8 DEF N

-----------------------------------------------------------------------------
(* ... and frozen for *)

LEMMA ListingsAre ==
  \A S, s : s \in Listings(S) <=> s \in Seq(S) /\ Len(s) <= MaxListed
<1> SUFFICES ASSUME NEW S, NEW s
             PROVE  s \in Listings(S) <=> s \in Seq(S) /\ Len(s) <= MaxListed
  OBVIOUS
<1>1. ASSUME s \in Listings(S) PROVE s \in Seq(S) /\ Len(s) <= MaxListed
  <2>1. PICK n \in 0..MaxListed : s \in [1..n -> S]
    BY <1>1 DEF Listings
  <2>2. n \in Nat /\ n <= MaxListed
    BY NodesAssumption
  <2>3. s \in Seq(S) /\ Len(s) = n
    BY <2>1, <2>2
  <2> QED BY <2>2, <2>3
<1>2. ASSUME s \in Seq(S), Len(s) <= MaxListed PROVE s \in Listings(S)
  <2>1. Len(s) \in 0..MaxListed /\ s \in [1..Len(s) -> S]
    BY <1>2, LenProperties, NodesAssumption
  <2> QED BY <2>1 DEF Listings
<1> QED BY <1>1, <1>2

\* Whatever is picked is a list of nodes of the network.
LEMMA PickedTyped ==
  ASSUME NEW strategy, NEW listing \in Listings(Nodes), NEW wanted \in Listings(Nodes),
         NEW size \in Nat, Unique(listing) # <<>>,
         NEW p \in PickedBy(strategy, Unique(listing), wanted, size)
  PROVE  p \in Listings(Nodes)
<1> DEFINE all == Unique(listing)
<1>1. all \in Seq(Nodes) /\ Len(all) <= MaxListed
  <2>1. listing \in Seq(Nodes) /\ Len(listing) \in Nat /\ Len(listing) <= MaxListed
    BY ListingsAre, LenProperties
  <2>2. DOMAIN listing = 1..Len(listing)
    BY <2>1, LenProperties
  <2> DEFINE I == {i \in DOMAIN listing :
                     \A j \in DOMAIN listing : j < i => listing[j] # listing[i]}
  <2>3. I \in SUBSET (1..Len(listing))
    BY <2>2
  <2>4. all = Pushed(listing, I)
    BY DEF Unique
  <2> HIDE DEF I, all
  <2>5. all \in Seq(Nodes) /\ Len(all) <= Len(listing)
    BY <2>1, <2>3, <2>4, PushedTakes
  <2>6. Len(all) \in Nat
    BY <2>5, LenProperties
  <2> QED BY <2>1, <2>5, <2>6, NodesAssumption
<1>2. CASE strategy = "all"
  BY <1>1, <1>2, ListingsAre DEF PickedBy
<1>3. CASE strategy = "specific"
  BY <1>3 DEF PickedBy
<1>4. CASE strategy \notin {"all", "specific"}
  <2>1. PICK s \in Shuffles(all) : p = SubSeq(s, 1, Clamped(size, Len(all)))
    BY <1>4 DEF PickedBy
  <2> HIDE DEF all
  <2>2. s \in Seq(Nodes) /\ Len(s) = Len(all)
    BY <1>1, ShuffleKeeps
  <2> DEFINE n == Clamped(size, Len(all))
  <2>3. all # <<>>
    BY DEF all
  <2>4. Len(all) \in Nat /\ Len(all) > 0
    BY <1>1, <2>3, EmptySeq
  <2>5. n \in 1..Len(all)
    BY <2>4, NodesAssumption DEF Clamped
  <2> HIDE DEF n
  <2>6. n \in Int /\ \A i \in 1..n : s[i] \in Nodes
    BY <2>2, <2>4, <2>5, ElementOfSeq
  <2>7. SubSeq(s, 1, n) \in Seq(Nodes) /\ Len(SubSeq(s, 1, n)) = n
    BY <2>5, <2>6, SubSeqProperties
  <2>8. n <= MaxListed
    BY <1>1, <2>4, <2>5, NodesAssumption
  <2>9. p = SubSeq(s, 1, n)
    BY <2>1 DEF n
  <2> QED BY <2>7, <2>8, <2>9, ListingsAre
<1> QED BY <1>2, <1>3, <1>4

\* What the code puts first: seen lately, then healthy.  It is more than
\* Livelier asks for.
Preferred(a, b) ==
  \/ recent[a] = "yes" /\ recent[b] # "yes"
  \/ (recent[a] = "yes") = (recent[b] = "yes") /\ a \in book /\ b \notin book

PreferredLater == \E i, j \in DOMAIN ordered : i < j /\ Preferred(ordered[j], ordered[i])

\* While the address book has not answered all nodes count as healthy, and until
\* the activity is known none as seen lately: nobody is preferred then.
NodeInv ==
  /\ NodeTypeOK
  /\ \A n \in Nodes : Times(ordered, n) = Times(picked, n)
  /\ stage \in {"choose", "book"} => book = Nodes
  /\ stage \in {"choose", "book", "activity"} => recent = [n \in Nodes |-> "null"]
  /\ stage = "activity" \/ (stage = "done" /\ promoted) => ~PreferredLater

LEMMA EmptyListing == <<>> \in Listings(Nodes)
<1>1. <<>> \in Seq(Nodes) /\ Len(<<>>) = 0
  OBVIOUS
<1>2. Len(<<>>) <= MaxListed
  BY <1>1, NodesAssumption
<1> QED BY <1>1, <1>2, ListingsAre

LEMMA NodeInvInit == NodeInit => NodeInv
<1> SUFFICES ASSUME NodeInit PROVE NodeInv
  OBVIOUS
<1>2. NodeTypeOK
  BY EmptyListing DEF NodeInit, NodeTypeOK, Activity
<1> QED
  BY <1>2 DEF NodeInit, NodeInv

\* The choice, its order already put to chance if the mirror node will be asked.
LEMMA SelectsKeepsNodeInv ==
  ASSUME NodeInv, NEW strategy, NEW listing \in Listings(Nodes),
         NEW wanted \in Listings(Nodes), NEW size \in Nat,
         NEW orders \in BOOLEAN, Selects(strategy, listing, wanted, size, orders)
  PROVE  NodeInv'
<1> DEFINE all == Unique(listing)
<1>a. NodeTypeOK /\ book = Nodes /\ recent = [n \in Nodes |-> "null"] /\ stage = "choose"
      /\ \A n \in Nodes : Times(ordered, n) = Times(picked, n)
  BY DEF NodeInv, Selects
<1>b. UNCHANGED <<book, recent>>
  BY DEF Selects
<1>1. CASE Refuses(strategy, all, wanted)
  <2>1. stage' = "refused" /\ UNCHANGED <<picked, ordered, promoted>>
    BY <1>1 DEF Selects
  <2>2. NodeTypeOK'
    BY <1>a, <1>b, <2>1 DEF NodeTypeOK
  <2>3. \A n \in Nodes : Times(ordered, n)' = Times(picked, n)'
    BY <1>a, <2>1 DEF Times
  <2> QED BY <1>b, <2>1, <2>2, <2>3 DEF NodeInv
<1>2. CASE ~Refuses(strategy, all, wanted)
  <2>1. PICK p \in PickedBy(strategy, all, wanted, size) :
          picked' = p /\ ordered' \in IF orders THEN Shuffles(p) ELSE {p}
    BY <1>2 DEF Selects
  <2>2. stage' = (IF orders THEN "book" ELSE "done") /\ promoted' = orders
    BY <1>2 DEF Selects
  <2>3. p \in Listings(Nodes)
    BY <1>2, PickedTyped DEF Refuses
  <2>4. p \in Seq(Nodes) /\ Len(p) <= MaxListed
    BY <2>3, ListingsAre
  <2>5. ordered' \in Listings(Nodes) /\ \A n : Times(ordered', n) = Times(p, n)
    <3>1. CASE orders
      <4>1. ordered' \in Shuffles(p)
        BY <2>1, <3>1
      <4>2. /\ ordered' \in Seq(Nodes) /\ Len(ordered') = Len(p)
            /\ \A n : Times(ordered', n) = Times(p, n)
        BY <2>4, <4>1, ShuffleKeeps
      <4> QED BY <2>4, <4>2, ListingsAre
    <3>2. CASE ~orders
      BY <2>1, <2>3, <3>2
    <3> QED BY <3>1, <3>2
  <2>6. NodeTypeOK'
    BY <1>a, <1>b, <2>1, <2>2, <2>3, <2>5 DEF NodeTypeOK
  <2>7. \A n \in Nodes : Times(ordered, n)' = Times(picked, n)'
    BY <2>1, <2>5 DEF Times
  <2> QED BY <1>a, <1>b, <2>2, <2>6, <2>7 DEF NodeInv
<1> QED BY <1>1, <1>2

\* Putting the good ones first keeps the list what it was, ...
LEMMA PutFirstTyped ==
  ASSUME NodeInv, NEW good, ordered' = PutFirst(ordered, good), UNCHANGED picked
  PROVE  /\ ordered' \in Listings(Nodes)
         /\ \A n \in Nodes : Times(ordered, n)' = Times(picked, n)'
         /\ DOMAIN ordered' = DOMAIN ordered
         /\ \A i \in DOMAIN ordered : ordered[i] \in Nodes /\ ordered'[i] \in Nodes
         /\ \E f \in [DOMAIN ordered -> DOMAIN ordered] :
              \A i, j \in DOMAIN ordered :
                /\ i \in Nat /\ ordered'[i] = ordered[f[i]]
                /\ i < j =>
                     \/ ordered'[i] \in good /\ ordered'[j] \notin good
                     \/ (ordered'[i] \in good <=> ordered'[j] \in good) /\ f[i] < f[j]
<1>1. ordered \in Seq(Nodes) /\ Len(ordered) <= MaxListed
      /\ \A n \in Nodes : Times(ordered, n) = Times(picked, n)
  BY ListingsAre DEF NodeInv, NodeTypeOK
<1> DEFINE N == Len(ordered)
<1>2. /\ ordered' \in Seq(Nodes) /\ Len(ordered') = N
      /\ \E f \in Bijection(1..N, 1..N) : GoodFirst(ordered', ordered, good, f)
  BY <1>1, PutFirstOrders
<1>3. N \in Nat /\ DOMAIN ordered = 1..N /\ DOMAIN ordered' = 1..N
  BY <1>1, <1>2, LenProperties
<1>4. PICK f \in Bijection(1..N, 1..N) : GoodFirst(ordered', ordered, good, f)
  BY <1>2
<1>5. \A k \in 1..N : ordered'[k] = ordered[f[k]]
  BY <1>4 DEF GoodFirst
<1>6. ASSUME NEW n \in Nodes PROVE Times(ordered, n)' = Times(picked, n)'
  <2>1. Times(ordered', n) = Times(ordered, n)
    BY <1>3, <1>4, <1>5, TimesKept
  <2> QED BY <1>1, <2>1 DEF Times
<1>7. f \in [1..N -> 1..N]
  BY <1>4 DEF Bijection, Injection
<1>8. ordered' \in Listings(Nodes)
  BY <1>1, <1>2, ListingsAre
<1>9. \A i \in 1..N : ordered[i] \in Nodes /\ ordered'[i] \in Nodes
  BY <1>1, <1>2, ElementOfSeq
<1>10. \A i, j \in 1..N : i < j =>
         \/ ordered'[i] \in good /\ ordered'[j] \notin good
         \/ (ordered'[i] \in good <=> ordered'[j] \in good) /\ f[i] < f[j]
  BY <1>4 DEF GoodFirst
<1>11. \A i \in 1..N : i \in Nat
  BY <1>3
<1> HIDE DEF N
<1> QED BY <1>3, <1>5, <1>6, <1>7, <1>8, <1>9, <1>10, <1>11

LEMMA NodeInvStep == NodeInv /\ [NodeNext]_nodeVars => NodeInv'
<1> SUFFICES ASSUME NodeInv, [NodeNext]_nodeVars PROVE NodeInv'
  OBVIOUS
<1>a. NodeTypeOK /\ \A n \in Nodes : Times(ordered, n) = Times(picked, n)
  BY DEF NodeInv
<1>1. ASSUME NEW strategy \in {"all", "specific", "subset"},
             NEW listing \in Listings(Nodes \ {Elsewhere}),
             NEW wanted \in IF strategy = "specific" THEN Listings(Nodes) ELSE {<<>>},
             NEW size \in IF strategy = "subset" THEN 0..MaxListed ELSE {1},
             \/ SelectNodes(strategy, listing, wanted, size)
             \/ SelectNodesInBrowser(strategy, listing, wanted, size)
      PROVE  NodeInv'
  <2>1. PICK orders \in BOOLEAN : Selects(strategy, listing, wanted, size, orders)
    BY <1>1 DEF SelectNodes, SelectNodesInBrowser
  <2>2. listing \in Listings(Nodes)
    BY ListingsAre, SeqMonotonic
  <2>3. wanted \in Listings(Nodes)
    BY EmptyListing
  <2>4. size \in Nat
    BY NodesAssumption
  <2> QED BY <2>1, <2>2, <2>3, <2>4, SelectsKeepsNodeInv
\* The healthy ones go first: nobody behind a healthy one is preferred.
<1>2. ASSUME NEW healthy \in SUBSET Nodes, AddressBook(healthy) PROVE NodeInv'
  <2>1. /\ stage = "book" /\ stage' \in {"activity", "done"}
        /\ book' = healthy /\ ordered' = PutFirst(ordered, healthy)
        /\ UNCHANGED <<picked, recent, promoted>>
    BY <1>2 DEF AddressBook
  <2>2. /\ ordered' \in Listings(Nodes)
        /\ \A n \in Nodes : Times(ordered, n)' = Times(picked, n)'
        /\ DOMAIN ordered' = DOMAIN ordered
        /\ \A i \in DOMAIN ordered : ordered[i] \in Nodes /\ ordered'[i] \in Nodes
    BY <2>1, PutFirstTyped
  <2>3. ASSUME NEW i \in DOMAIN ordered, NEW j \in DOMAIN ordered, i < j
        PROVE  ordered'[j] \in healthy => ordered'[i] \in healthy
    BY <2>1, <2>3, PutFirstTyped
  <2>4. recent = [n \in Nodes |-> "null"]
    BY <2>1 DEF NodeInv
  <2>5. ~PreferredLater'
    BY <2>1, <2>2, <2>3, <2>4 DEF PreferredLater, Preferred
  <2>6. NodeTypeOK'
    BY <1>a, <2>1, <2>2 DEF NodeTypeOK
  <2> QED BY <2>1, <2>2, <2>4, <2>5, <2>6 DEF NodeInv
<1>3. ASSUME AddressBookFails PROVE NodeInv'
  <2>1. /\ stage = "book" /\ stage' \in {"activity", "done"}
        /\ UNCHANGED <<picked, ordered, book, recent, promoted>>
    BY <1>3 DEF AddressBookFails
  <2>2. recent = [n \in Nodes |-> "null"] /\ book = Nodes
    BY <2>1 DEF NodeInv
  <2>3. \A i \in DOMAIN ordered : ordered[i] \in Nodes
    BY <1>a, ListingsAre, LenProperties DEF NodeTypeOK
  <2>4. ~PreferredLater'
    BY <2>1, <2>2, <2>3 DEF PreferredLater, Preferred
  <2>5. NodeTypeOK'
    BY <1>a, <2>1 DEF NodeTypeOK
  <2> QED BY <1>a, <2>1, <2>2, <2>4, <2>5 DEF NodeInv, Times
\* Those seen lately go before them, and both parts keep the healthy ones first.
<1>4. ASSUME NEW answers \in [Nodes -> Activity], ActivityKnown(answers)
      PROVE  NodeInv'
  <2> DEFINE seen == {n \in Nodes : answers[n] = "yes"}
  <2>1. /\ stage = "activity" /\ stage' = "done" /\ recent' = answers
        /\ ordered' = PutFirst(ordered, seen)
        /\ UNCHANGED <<picked, book, promoted>>
    BY <1>4 DEF ActivityKnown
  <2>2. /\ ordered' \in Listings(Nodes)
        /\ \A n \in Nodes : Times(ordered, n)' = Times(picked, n)'
        /\ DOMAIN ordered' = DOMAIN ordered
        /\ \A i \in DOMAIN ordered : ordered[i] \in Nodes /\ ordered'[i] \in Nodes
    BY <2>1, PutFirstTyped
  <2>3. PICK f \in [DOMAIN ordered -> DOMAIN ordered] :
          \A i, j \in DOMAIN ordered :
            /\ i \in Nat /\ ordered'[i] = ordered[f[i]]
            /\ i < j =>
                 \/ ordered'[i] \in seen /\ ordered'[j] \notin seen
                 \/ (ordered'[i] \in seen <=> ordered'[j] \in seen) /\ f[i] < f[j]
    BY <2>1, PutFirstTyped
  <2>4. recent = [n \in Nodes |-> "null"] /\ ~PreferredLater
    BY <2>1 DEF NodeInv
  <2>5. ASSUME NEW i \in DOMAIN ordered, NEW j \in DOMAIN ordered, i < j,
               ordered[j] \in book
        PROVE  ordered[i] \in book
    BY <2>2, <2>4, <2>5 DEF PreferredLater, Preferred
  <2>6. \A n \in Nodes : n \in seen <=> recent'[n] = "yes"
    BY <2>1
  <2>7. ASSUME NEW i \in DOMAIN ordered, NEW j \in DOMAIN ordered, i < j
        PROVE  ~Preferred(ordered[j], ordered[i])'
    <3>1. /\ f[i] \in DOMAIN ordered /\ f[j] \in DOMAIN ordered
          /\ ordered'[i] = ordered[f[i]] /\ ordered'[j] = ordered[f[j]]
      BY <2>3
    <3>2. CASE ordered'[i] \in seen /\ ordered'[j] \notin seen
      BY <2>2, <2>6, <3>2 DEF Preferred
    <3>3. CASE (ordered'[i] \in seen <=> ordered'[j] \in seen) /\ f[i] < f[j]
      <4>1. ordered'[j] \in book => ordered'[i] \in book
        BY <2>5, <3>1, <3>3
      <4> QED BY <2>1, <2>2, <2>6, <3>3, <4>1 DEF Preferred
    <3> QED BY <2>3, <2>7, <3>2, <3>3
  <2>8. ~PreferredLater'
    BY <2>2, <2>7 DEF PreferredLater
  <2>9. NodeTypeOK'
    BY <1>a, <2>1, <2>2 DEF NodeTypeOK
  <2> QED BY <2>1, <2>2, <2>8, <2>9 DEF NodeInv
<1>5. ASSUME ActivityFails PROVE NodeInv'
  <2>1. /\ stage = "activity" /\ stage' = "done"
        /\ UNCHANGED <<picked, ordered, book, recent, promoted>>
    BY <1>5 DEF ActivityFails
  <2>2. ~PreferredLater'
    BY <2>1 DEF NodeInv, PreferredLater, Preferred
  <2>3. NodeTypeOK'
    BY <1>a, <2>1 DEF NodeTypeOK
  <2> QED BY <1>a, <2>1, <2>2, <2>3 DEF NodeInv, Times
<1>6. ASSUME UNCHANGED nodeVars PROVE NodeInv'
  BY <1>6 DEF nodeVars, NodeInv, NodeTypeOK, Times, PreferredLater, Preferred
<1> QED
  BY <1>1, <1>2, <1>3, <1>4, <1>5, <1>6 DEF NodeNext

LEMMA LivelierIsPreferred ==
  ASSUME NEW a \in Nodes, NEW b \in Nodes, Livelier(a, b)
  PROVE  Preferred(a, b)
  BY DEF Livelier, NoWorse, Preferred

LEMMA NodeInvGives == NodeInv => LivelyFirst
<1> SUFFICES ASSUME NodeInv PROVE LivelyFirst
  OBVIOUS
<1>1. \A i \in DOMAIN ordered : ordered[i] \in Nodes
  BY ListingsAre, LenProperties DEF NodeInv, NodeTypeOK
<1>2. ASSUME stage = "done", promoted, NEW i \in DOMAIN ordered,
             NEW j \in DOMAIN ordered, i < j
      PROVE  ~Livelier(ordered[j], ordered[i])
  <2>1. ~Preferred(ordered[j], ordered[i])
    BY <1>2 DEF NodeInv, PreferredLater
  <2> QED BY <1>1, <2>1, LivelierIsPreferred
<1> QED BY <1>2 DEF NodeInv, LivelyFirst

\* What is frozen for is what the strategy picked, and where the mirror node was
\* asked nobody stands before a livelier one, whichever question failed.
THEOREM LivelyFirstAlways == NodeSpec => []LivelyFirst
  BY NodeInvInit, NodeInvStep, NodeInvGives, PTL DEF NodeSpec
=============================================================================
