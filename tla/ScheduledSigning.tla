--------------------------- MODULE ScheduledSigning ---------------------------
(***************************************************************************)
(* ScheduledWorkflow: a transaction wrapped in a schedule, which each      *)
(* signer signs by a command of his own, at any time.  A command submits,  *)
(* waits for the receipt, and tells its user what came of it; the receipt  *)
(* may be lost after the network has acted, and the user may run the       *)
(* command again.                                                          *)
(*                                                                         *)
(* The network is external: it counts the signers of a schedule, executes  *)
(* what it wraps when there are enough (at expiry, if so asked), expires   *)
(* or deletes it, and puts the wrapped transaction's id into the receipt   *)
(* of the signature that made it execute.                                  *)
(***************************************************************************)
EXTENDS Naturals, FiniteSets

CONSTANTS
  ScheduleKeys,  \* the signers' keys
  Needed,        \* signatures that the wrapped transaction needs
  MaxSigns       \* bound: runs of `schedule sign` per key

ASSUME ScheduleAssumption == Needed \in Nat \ {0} /\ MaxSigns \in Nat

VARIABLES
  schedule,     \* on the network: not yet, open, executed, or gone
  waits,        \* setWaitForExpiry
  signatories,  \* on the network: keys that signed the schedule
  creation,     \* `schedule create`: what it knows
  signing,      \* key -> the network's answer under way to `schedule sign`
  told,         \* key -> what its last command told its user
  signs         \* key -> times it was run

scheduleVars ==
  <<schedule, waits, signatories, creation, signing, told, signs>>

\* Answers of the network to a signature.
SignAnswers == {"none", "submitted", "counted", "executed", "already", "refused"}
\* signSchedule's results: success and executed; success alone; success,
\* executed and alreadyExecuted; failure.
Results == {"nothing", "executed", "accepted", "already executed", "failed"}

ScheduleInit ==
  /\ schedule = "none" /\ waits \in BOOLEAN /\ signatories = {}
  /\ creation = "none"
  /\ signing = [k \in ScheduleKeys |-> "none"]
  /\ told = [k \in ScheduleKeys |-> "nothing"]
  /\ signs = [k \in ScheduleKeys |-> 0]

-----------------------------------------------------------------------------
(* schedule create *)

\* Execution and receipt: the schedule may exist although the receipt never
\* came, and then its id is not known to anyone.
CreateSchedule ==
  /\ creation = "none"
  /\ \/ schedule' = "open" /\ creation' \in {"created", "failed"}
     \/ UNCHANGED schedule /\ creation' = "failed"
  /\ UNCHANGED <<waits, signatories, signing, told, signs>>

-----------------------------------------------------------------------------
(* schedule sign *)

\* Up to the submission.  A key file that does not open ends it before.
SignSchedule(k) ==
  /\ creation = "created" /\ signing[k] = "none" /\ signs[k] < MaxSigns
  /\ signs' = [signs EXCEPT ![k] = @ + 1]
  /\ \/ signing' = [signing EXCEPT ![k] = "submitted"] /\ UNCHANGED told
     \/ told' = [told EXCEPT ![k] = "failed"] /\ UNCHANGED signing
  /\ UNCHANGED <<schedule, waits, signatories, creation>>

Ledger(k) ==
  LET all == signatories \cup {k} IN
  CASE schedule = "executed" -> [schedule |-> "executed", sigs |-> signatories, answer |-> "already"]
    [] schedule = "gone" \/ k \in signatories ->
         [schedule |-> schedule, sigs |-> signatories, answer |-> "refused"]
    [] Cardinality(all) >= Needed /\ ~waits ->
         [schedule |-> "executed", sigs |-> all, answer |-> "executed"]
    [] OTHER -> [schedule |-> schedule, sigs |-> all, answer |-> "counted"]

NetworkTakes(k) ==
  /\ signing[k] = "submitted"
  /\ schedule' = Ledger(k).schedule /\ signatories' = Ledger(k).sigs
  /\ signing' = [signing EXCEPT ![k] = Ledger(k).answer]
  /\ UNCHANGED <<waits, creation, told, signs>>

\* Mutation: accepted is taken for executed.
ReportsExecuted(answer) ==
  CASE answer \in {"executed", "counted"} -> "executed"
    [] answer = "already" -> "already executed"
    [] OTHER -> "failed"

\* executed is whether the receipt names the wrapped transaction; of the
\* errors one is told apart by its text.
Reports(answer) ==
  CASE answer = "executed" -> "executed"
    [] answer = "counted" -> "accepted"
    [] answer = "already" -> "already executed"
    [] OTHER -> "failed"

ReceiptComes(k) ==
  /\ signing[k] \in SignAnswers \ {"none", "submitted"}
  /\ told' = [told EXCEPT ![k] = Reports(signing[k])]
  /\ signing' = [signing EXCEPT ![k] = "none"]
  /\ UNCHANGED <<schedule, waits, signatories, creation, signs>>

\* The submission or its receipt is lost, before or after the network acted.
ReceiptLost(k) ==
  /\ signing[k] # "none"
  /\ told' = [told EXCEPT ![k] = "failed"]
  /\ signing' = [signing EXCEPT ![k] = "none"]
  /\ UNCHANGED <<schedule, waits, signatories, creation, signs>>

-----------------------------------------------------------------------------
(* The network, on its own *)

ScheduleExpires ==
  /\ schedule = "open"
  /\ schedule' = IF waits /\ Cardinality(signatories) >= Needed
                 THEN "executed" ELSE "gone"
  /\ UNCHANGED <<waits, signatories, creation, signing, told, signs>>

ScheduleNext ==
  \/ CreateSchedule
  \/ \E k \in ScheduleKeys :
       SignSchedule(k) \/ NetworkTakes(k) \/ ReceiptComes(k) \/ ReceiptLost(k)
  \/ ScheduleExpires

ScheduleSpec == ScheduleInit /\ [][ScheduleNext]_scheduleVars

-----------------------------------------------------------------------------
(* Properties *)

\* The type invariant.
ScheduleTypeOK ==
  /\ schedule \in {"none", "open", "executed", "gone"} /\ waits \in BOOLEAN
  /\ signatories \subseteq ScheduleKeys
  /\ creation \in {"none", "created", "failed"}
  /\ signing \in [ScheduleKeys -> SignAnswers]
  /\ told \in [ScheduleKeys -> Results]
  /\ signs \in [ScheduleKeys -> 0..MaxSigns]

\* What a signer was told stays true: executed, by him or before him, is
\* executed on the network; accepted is a signature that the schedule has,
\* whoever signs, expires it or runs his command again in the meantime.
SignersToldTrue ==
  \A k \in ScheduleKeys :
    /\ told[k] \in {"executed", "already executed"} => schedule = "executed"
    /\ told[k] \in {"executed", "accepted"} => k \in signatories
=============================================================================
