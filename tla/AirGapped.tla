------------------------------- MODULE AirGapped -------------------------------
(***************************************************************************)
(* The command line's air-gapped ceremony: `offline freeze` prints a       *)
(* transaction, signers far from the network sign what reached them with   *)
(* `sign`, tuples of a key and its signatures travel back, and `offline    *)
(* execute` verifies them.  Between the commands everything is text that   *)
(* people copy: a signer may be given another transaction than the one     *)
(* frozen, or a printout that the next command cannot read, and a tuple    *)
(* may name another key than the one that made it.                         *)
(*                                                                         *)
(* TransactionFreezer.fromBase64 returns no transaction object, so that    *)
(* `offline decode` and the submission of `offline execute` always fail    *)
(* where they use it; what is left of `offline execute` is its outcome.    *)
(***************************************************************************)
EXTENDS Naturals, Sequences, FiniteSets

CONSTANTS
  AirTxs,        \* transactions, the frozen and the substituted
  AirKeys,       \* the signers' keys
  NoAirTx,       \* null
  Bodies,        \* bodies of a transaction, one per node it is frozen for
  AirThreshold,  \* --threshold
  MaxTuples      \* bound: tuples in circulation

ASSUME AirAssumption ==
  /\ NoAirTx \notin AirTxs
  /\ Bodies \in Nat \ {0} /\ AirThreshold \in Nat \ {0} /\ MaxTuples \in Nat

VARIABLES
  printed,   \* the text that `offline freeze` put out last
  desk,      \* the `sign` command under way at the air-gapped machine
  signedBy,  \* history: <<key, transaction>> signed
  tuples,    \* tuples in circulation
  command,   \* the `offline execute` under way, once it counted
  exitOk     \* whether the command that ended last exited with SUCCESS

airVars == <<printed, desk, signedBy, tuples, command, exitOk>>

\* What can be read out of a printout.  "plain" is --raw, the transaction
\* alone, or --output, a file whose other lines are short or comments.  In
\* the framed printout the first long line without a colon is the frame; the
\* JSON has none, and the whole text is taken: neither is a transaction.
Forms == {"plain", "framed"}
Texts == [tx : AirTxs, form : Forms]
Extracted(text) == IF text.form = "plain" THEN text.tx ELSE NoAirTx

\* A signature is known by what it was made over, and by whom: the tuple
\* carries one per body, or only the first body's (a wallet's).
Tuples == [key : AirKeys, by : AirKeys, over : AirTxs, sigs : {0, 1, Bodies}]

NoCommand == [at |-> "none", tx |-> NoAirTx, counted |-> {}]

AirInit ==
  /\ printed = {} /\ tuples = {} /\ signedBy = {}
  /\ desk = {}
  /\ command = NoCommand
  /\ exitOk = TRUE

-----------------------------------------------------------------------------
(* offline freeze, offline decode *)

\* A missing option, or a missing operator, is an error before the freeze.
FreezeRefused ==
  /\ exitOk' = FALSE
  /\ UNCHANGED <<printed, desk, signedBy, tuples, command>>

FreezeToText(tx, form) ==
  /\ printed' = {[tx |-> tx, form |-> form]}
  /\ exitOk' = TRUE
  /\ UNCHANGED <<desk, signedBy, tuples, command>>

\* The decoder is handed null for a transaction, whatever was read.
DecodeText(text) ==
  /\ exitOk' = FALSE
  /\ UNCHANGED <<printed, desk, signedBy, tuples, command>>

-----------------------------------------------------------------------------
(* sign *)

\* Interactively: the bytes, a checksum, a confirmation and a key, each asked
\* for.  What is pasted may be any transaction.
BeginSigning(tx) ==
  /\ desk = {}
  /\ desk' = {[at |-> "checksum", tx |-> tx]}
  /\ UNCHANGED <<printed, signedBy, tuples, command, exitOk>>

AskNext(d, question) ==
  /\ desk' = {[d EXCEPT !.at = question]}
  /\ UNCHANGED <<printed, signedBy, tuples, command, exitOk>>

SignFails ==
  /\ desk' = {} /\ exitOk' = FALSE
  /\ UNCHANGED <<printed, signedBy, tuples, command>>

\* None given, or the one that the coordinator shared, or another.
CompareChecksum(d) ==
  /\ d.at = "checksum"
  /\ \E expected \in AirTxs \cup {NoAirTx} :
       AskNext(d, IF expected \in {NoAirTx, d.tx} THEN "confirm" ELSE "warned")

ContinueAnyway(d) == d.at = "warned" /\ AskNext(d, "confirm")

StopSigning(d) ==
  /\ d.at \in {"warned", "confirm"}
  /\ SignFails

\* extractAllBodyBytes throws on what is no transaction.  (Signed is not
\* enabled then: SignFails is.)
Signed(k, tx) ==
  /\ tx # NoAirTx /\ Cardinality(tuples) < MaxTuples
  /\ signedBy' = signedBy \cup {<<k, tx>>}
  /\ tuples' = tuples \cup {[key |-> k, by |-> k, over |-> tx, sigs |-> Bodies]}
  /\ desk' = {} /\ exitOk' = TRUE
  /\ UNCHANGED <<printed, command>>

\* The key that is typed need not be one.
SignConfirmed(d) ==
  /\ d.at = "confirm"
  /\ \/ \E k \in AirKeys : Signed(k, d.tx)
     \/ SignFails

\* Without a terminal nothing is asked.
SignPiped(k, text) ==
  /\ desk = {}
  /\ \/ Signed(k, Extracted(text))
     \/ Extracted(text) = NoAirTx /\ SignFails

\* Tuples that `sign` did not make: a wallet's, of one signature; cut short
\* in the copying; or with another key's name before the colon.
SignElsewhere(k, tx) ==
  /\ Cardinality(tuples) < MaxTuples
  /\ signedBy' = signedBy \cup {<<k, tx>>}
  /\ tuples' = tuples \cup {[key |-> k, by |-> k, over |-> tx, sigs |-> 1]}
  /\ UNCHANGED <<printed, desk, command, exitOk>>

MiscopyTuple(tuple) ==
  /\ \E miscopied \in {[tuple EXCEPT !.sigs = 0]} \cup
                       {[tuple EXCEPT !.key = k] : k \in AirKeys} :
       tuples' = (tuples \ {tuple}) \cup {miscopied}
  /\ UNCHANGED <<printed, desk, signedBy, command, exitOk>>

-----------------------------------------------------------------------------
(* offline execute *)

ExecuteRefused ==
  /\ command' = NoCommand /\ exitOk' = FALSE
  /\ UNCHANGED <<printed, desk, signedBy, tuples>>

\* Mutation: every pair there is verifies, also when there is none.
TupleValidEmpty(tuple, tx) ==
  tuple.sigs = 0 \/ (tuple.over = tx /\ tuple.by = tuple.key)

\* As many signatures as both sides have are verified, and at least one.
TupleValid(tuple, tx) ==
  /\ tuple.sigs > 0
  /\ tuple.over = tx /\ tuple.by = tuple.key

\* Counted by tuple, so that a tuple given twice counts twice.
ExecuteVerifies(tx, given) ==
  LET counted == {i \in DOMAIN given : TupleValid(given[i], tx)}
      met     == Cardinality(counted) >= AirThreshold
  IN /\ Len(given) >= AirThreshold
     /\ \/ ~met /\ command' = NoCommand /\ exitOk' = FALSE
        \/ /\ met /\ UNCHANGED exitOk
           /\ command' = [at |-> "met", tx |-> tx,
                           counted |-> {given[i].key : i \in counted}]
     /\ UNCHANGED <<printed, desk, signedBy, tuples>>

\* With --dry-run the outcome is all; without, addSignature of null throws.
ExecuteEnds ==
  /\ command.at = "met"
  /\ command' = NoCommand
  /\ exitOk' \in BOOLEAN
  /\ UNCHANGED <<printed, desk, signedBy, tuples>>

Given == UNION {[1..n -> tuples] : n \in 0..AirThreshold}

AirNext ==
  \/ FreezeRefused
  \/ \E tx \in AirTxs, form \in Forms : FreezeToText(tx, form)
  \/ \E text \in printed : DecodeText(text)
  \/ \E tx \in AirTxs \cup {NoAirTx} : BeginSigning(tx)
  \/ \E d \in desk :
       \/ CompareChecksum(d) \/ ContinueAnyway(d)
       \/ StopSigning(d) \/ SignConfirmed(d)
  \/ \E k \in AirKeys :
       \/ \E text \in printed : SignPiped(k, text)
       \/ \E tx \in AirTxs : SignElsewhere(k, tx)
  \/ \E tuple \in tuples : MiscopyTuple(tuple)
  \/ command.at # "met" /\ ExecuteRefused
  \/ command.at # "met" /\ \E tx \in AirTxs, given \in Given : ExecuteVerifies(tx, given)
  \/ ExecuteEnds

AirSpec == AirInit /\ [][AirNext]_airVars

-----------------------------------------------------------------------------
(* Properties *)

\* The type invariant.
AirTypeOK ==
  /\ printed \subseteq Texts /\ tuples \subseteq Tuples
  /\ signedBy \subseteq AirKeys \X AirTxs
  /\ desk \subseteq [at : {"checksum", "warned", "confirm"},
                      tx : AirTxs \cup {NoAirTx}]
  /\ command \in [at : {"none", "met"}, tx : AirTxs \cup {NoAirTx},
                  counted : SUBSET AirKeys]
  /\ exitOk \in BOOLEAN

\* "Threshold met" rests on signatures of this transaction: every key that
\* was counted is that of a signer who signed the transaction the
\* coordinator named, whatever was copied, cut short or renamed on the way.
CountedSigned ==
  \A k \in command.counted : <<k, command.tx>> \in signedBy
=============================================================================
