----------------------------- MODULE LocalCeremony -----------------------------
(***************************************************************************)
(* A ceremony held in one process: freeze, collect, verify, execute.       *)
(* The flow is InteractiveWorkflow, OfflineWorkflow, or "library", the     *)
(* core classes called in turn, as examples/basic-usage.js does.           *)
(*                                                                         *)
(* The network is external: it executes a transaction in its first         *)
(* ValidFor that carries Threshold good signatures, by different keys; its *)
(* answers may be lost, and the mirror node may be late or away.           *)
(***************************************************************************)
EXTENDS Naturals, Sequences, FiniteSets

CONSTANTS
  Keys,       \* public keys
  Signers,    \* how many key providers, files or tuples there are
  Threshold,  \* signatures required
  SafeFor,    \* MAX_SAFE_AGE_SECONDS: when the countdown is over
  ValidFor,   \* when the network no longer takes the transaction
  MaxPolls    \* maxAttempts of verifyExecution

ASSUME CeremonyAssumption ==
  /\ Signers \in Nat /\ Threshold \in 1..Signers
  /\ ValidFor \in Nat /\ SafeFor \in 1..ValidFor
  /\ MaxPolls \in Nat \ {0}

VARIABLES
  flow,        \* which workflow it is
  step,        \* where it is
  frozenFor,   \* since the freeze
  countdown,   \* the interval that watches the time is set
  isExpired,   \* it has announced the expiry
  asked,       \* how many signers were asked
  signatures,  \* collected, in turn
  attached,    \* those the transaction that is submitted carries
  network,     \* what became of the transaction
  polls,       \* mirror-node queries made
  confirmed,   \* mirrorConfirmed
  audit,       \* the audit log
  outcome      \* what the caller is told

ceremonyVars ==
  <<flow, step, frozenFor, countdown, isExpired, asked, signatures, attached,
    network, polls, confirmed, audit, outcome>>

Flows == {"interactive", "offline", "library"}
Steps == {"freeze", "collect", "ask", "submit", "receipt", "mirror", "done"}
SignatureTuples == [key : Keys, good : BOOLEAN]
NoTuple == [key |-> "none", good |-> FALSE]
Good(s) == s.good

CeremonyInit ==
  /\ flow \in Flows
  /\ step = "freeze" /\ frozenFor = 0
  /\ countdown = FALSE /\ isExpired = FALSE
  /\ asked = 0 /\ signatures = <<>> /\ attached = {}
  /\ network = "none" /\ polls = 0 /\ confirmed = FALSE
  /\ audit = <<>> /\ outcome = "none"

collection == <<asked, signatures, attached>>
execution  == <<network, polls, confirmed, audit>>

\* Every way out of run() clears the countdown.
Returns(v) == step' = "done" /\ outcome' = v /\ countdown' = FALSE

-----------------------------------------------------------------------------
(* Freezing and collecting *)

\* TransactionFreezer.freeze; the interactive flow starts its countdown.  With
\* skipExport the offline flow is given a transaction frozen at some time.
FreezeTransaction ==
  /\ step = "freeze"
  /\ \/ /\ Returns("failure")
        /\ UNCHANGED frozenFor
     \/ /\ step' = "collect"
        /\ frozenFor' \in IF flow = "offline" THEN 0..ValidFor ELSE {0}
        /\ countdown' \in IF flow = "interactive" THEN BOOLEAN ELSE {FALSE}
        /\ UNCHANGED outcome
  /\ UNCHANGED <<flow, isExpired, collection, execution>>

\* The countdown's interval finds the time over.
CountdownEnds ==
  /\ countdown /\ frozenFor >= SafeFor
  /\ countdown' = FALSE /\ isExpired' = TRUE
  /\ UNCHANGED <<flow, step, frozenFor, collection, execution, outcome>>

\* Mutation: the flag is not looked at.
ExpirySeenNot == FALSE
ExpirySeen == isExpired

EnoughCollected == Len(signatures) >= Threshold

\* The next provider, file or prompt.  Only the interactive flow looks at the
\* time here: the countdown of collectInteractive cannot fire while
\* readline-sync waits.
AskSigner ==
  /\ step = "collect" /\ asked < Signers
  /\ flow = "interactive" => ~EnoughCollected
  /\ IF ExpirySeen THEN Returns("failure")
     ELSE step' = "ask" /\ UNCHANGED <<outcome, countdown>>
  /\ UNCHANGED <<flow, frozenFor, isExpired, collection, execution>>

\* What the flow keeps of an answer: only the interactive one verifies now.
Kept(s) == s # NoTuple /\ (flow = "interactive" => s.good)

\* A signature, or nothing: an error, an empty answer or an unreadable file is
\* passed over, except by the library, where it ends the collection.
TakeSignature(s) ==
  /\ step = "ask"
  /\ asked' = asked + 1
  /\ signatures' = IF Kept(s) THEN Append(signatures, s) ELSE signatures
  /\ IF flow = "library" /\ s = NoTuple THEN Returns("failure")
     ELSE step' = "collect" /\ UNCHANGED <<outcome, countdown>>
  /\ UNCHANGED <<flow, frozenFor, isExpired, attached, execution>>

\* Mutation: the tuples are counted and not verified.
VerifiedCounted(s) == DOMAIN s

\* SignatureVerifier: which are good.  Two by one key count as two.
VerifiedTuples(s) == {n \in DOMAIN s : Good(s[n])}

\* How the flow attaches them: OfflineWorkflow reads as hexadecimal what was
\* verified as base64, so what it attaches is another signature.
AttachedAs(tuples) ==
  IF flow = "offline" THEN {[t EXCEPT !.good = FALSE] : t \in tuples} ELSE tuples

\* Whether what was collected may be used.  collectOffline looks at the time
\* before it returns, collectInteractive does not; the library may use either.
\* addSignature of the offline workflow is given a string for a key, and throws.
CollectionStands ==
  /\ Cardinality(VerifiedTuples(signatures)) >= Threshold
  /\ flow = "interactive" => ~ExpirySeen
CollectionMayFail ==
  \/ ~CollectionStands
  \/ flow = "offline"
  \/ flow = "library" /\ frozenFor >= SafeFor

\* The collection is over, and verified.  With autoExecute off the interactive
\* workflow gives the signed transaction back.
EndCollection ==
  /\ step = "collect"
  /\ asked = Signers \/ (EnoughCollected /\ flow # "offline")
  /\ \/ /\ CollectionMayFail
        /\ Returns("failure")
        /\ UNCHANGED attached
     \/ /\ CollectionStands
        /\ attached' = AttachedAs({signatures[n] :
             n \in IF flow = "library" THEN DOMAIN signatures
                   ELSE VerifiedTuples(signatures)})
        /\ \/ flow = "interactive" /\ Returns("signed")
           \/ step' = "submit" /\ countdown' = FALSE /\ UNCHANGED outcome
  /\ UNCHANGED <<flow, frozenFor, isExpired, asked, signatures, execution>>

-----------------------------------------------------------------------------
(* TransactionExecutor.execute *)

\* _createAuditEntry reads frozenAt, which only the library passes: in the two
\* workflows it throws, in the try and again in the catch.  The log is written
\* when it can be.
Conclude(v) ==
  /\ Returns(IF flow = "library" THEN v ELSE "failure")
  /\ audit' \in IF flow = "library" THEN {audit, Append(audit, v)} ELSE {audit}

SignedEnough ==
  Cardinality({a.key : a \in {b \in attached : Good(b)}}) >= Threshold

\* transaction.execute: submitted or not, answered or not.
SubmitToNetwork ==
  /\ step = "submit"
  /\ network' \in {"none",
       IF frozenFor < ValidFor /\ SignedEnough THEN "executed" ELSE "refused"}
  /\ \/ /\ network' # "none" /\ step' = "receipt"
        /\ UNCHANGED <<outcome, countdown, audit>>
     \/ Conclude("failure")
  /\ UNCHANGED <<flow, frozenFor, isExpired, collection, polls, confirmed>>

\* Mutation: the transaction was taken, so it succeeded.
ReceiptSaysOptimist(r) == r # "lost"

\* The receipt's status is SUCCESS.
ReceiptSays(r) == r = "executed"

\* getReceipt, which may also throw.
Receipt ==
  /\ step = "receipt"
  /\ \E r \in {network, "lost"} :
       IF ReceiptSays(r)
       THEN step' = "mirror" /\ UNCHANGED <<outcome, countdown, audit>>
       ELSE Conclude("failure")
  /\ UNCHANGED <<flow, frozenFor, isExpired, collection, network, polls, confirmed>>

\* verifyExecution, if asked for: it finds the record, tries again, gives up
\* or throws; the outcome does not depend on it.
PollMirror ==
  /\ step = "mirror"
  /\ \/ /\ polls < MaxPolls /\ polls' = polls + 1
        /\ \/ /\ network = "executed" /\ confirmed' = TRUE
              /\ Conclude("success")
           \/ /\ UNCHANGED <<confirmed, step, outcome, countdown, audit>>
     \/ /\ Conclude("success")
        /\ UNCHANGED <<polls, confirmed>>
  /\ UNCHANGED <<flow, frozenFor, isExpired, collection, network>>

\* Time passes while something is waited for.
CeremonyTick ==
  /\ step \in {"collect", "ask", "submit", "receipt", "mirror"}
  /\ frozenFor < ValidFor /\ frozenFor' = frozenFor + 1
  /\ UNCHANGED <<flow, step, countdown, isExpired, collection, execution,
                 outcome>>

CeremonyNext ==
  \/ FreezeTransaction \/ CountdownEnds
  \/ AskSigner \/ \E s \in SignatureTuples \cup {NoTuple} : TakeSignature(s)
  \/ EndCollection
  \/ SubmitToNetwork \/ Receipt \/ PollMirror
  \/ CeremonyTick

CeremonySpec == CeremonyInit /\ [][CeremonyNext]_ceremonyVars

-----------------------------------------------------------------------------
(* Properties *)

\* The type invariant.
CeremonyTypeOK ==
  /\ flow \in Flows /\ step \in Steps
  /\ frozenFor \in 0..ValidFor
  /\ countdown \in BOOLEAN /\ isExpired \in BOOLEAN /\ confirmed \in BOOLEAN
  /\ asked \in 0..Signers /\ polls \in 0..MaxPolls
  /\ signatures \in Seq(SignatureTuples) /\ attached \subseteq SignatureTuples
  /\ network \in {"none", "executed", "refused"}
  /\ audit \in Seq({"success", "failure"})
  /\ outcome \in {"none", "success", "failure", "signed"}

\* A ceremony whose expiry was announced to the operator submits nothing, nor
\* does it hand out a signed transaction.
AnnouncedExpiryStops ==
  isExpired => network = "none" /\ outcome \in {"none", "failure"}

\* What reaches the network was verified: Threshold of the signatures
\* collected were good, in whichever flow.
ThresholdVerified ==
  network # "none" =>
    Cardinality({n \in DOMAIN signatures : signatures[n].good}) >= Threshold

\* Nobody is told of a success that was none: neither the caller, nor the
\* audit log, which says what the caller was told, nor the mirror's record.
OutcomesTrue ==
  /\ outcome = "success" \/ confirmed => network = "executed"
  /\ audit = <<>> \/ audit = <<outcome>>
=============================================================================
