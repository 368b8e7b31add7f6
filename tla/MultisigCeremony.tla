-------------------------- MODULE MultisigCeremony --------------------------
(***************************************************************************)
(* What a coordination server promises to the people who sign with it,     *)
(* whatever the messages, locks, timers and sockets behind it.             *)
(*                                                                         *)
(* A coordinator offers one transaction at a time; each offer is a round   *)
(* of its own.  Holders of eligible keys approve the current offer, and    *)
(* an approval counts for that offer only; approvals are told apart by the *)
(* key as it is spelt.  An offer can be withdrawn at any moment (it        *)
(* expired, someone declined, the coordinator reset it).                   *)
(* The server hands an offer to the network only with enough approvals,    *)
(* at most once, and takes no approval for an offer it has handed over.    *)
(***************************************************************************)
EXTENDS Naturals, Sequences, FiniteSets

CONSTANTS
  Holders,      \* eligible public keys, in every spelling
  Txs,          \* frozen transactions
  NoTx,         \* nothing on offer
  Threshold     \* approvals an offer needs

VARIABLES
  round,        \* offers made so far; identifies the current one
  offer,        \* the transaction on offer, or NoTx
  approvals,    \* keys that approved the current offer
  sent          \* offers handed to the network, each with its approvals

vars == <<round, offer, approvals, sent>>

HandedOver(r) == \E i \in DOMAIN sent : sent[i].round = r

Init ==
  /\ offer \in Txs \cup {NoTx}
  /\ round = IF offer = NoTx THEN 0 ELSE 1
  /\ approvals = {}
  /\ sent = <<>>

Offer(t) ==
  /\ round' = round + 1
  /\ offer' = t
  /\ approvals' = {}
  /\ UNCHANGED sent

Approve(k) ==
  /\ offer # NoTx
  /\ k \notin approvals
  /\ ~HandedOver(round)
  /\ approvals' = approvals \cup {k}
  /\ UNCHANGED <<round, offer, sent>>

Withdraw ==
  /\ offer' = NoTx
  /\ approvals' = {}
  /\ UNCHANGED <<round, sent>>

HandOver ==
  /\ offer # NoTx
  /\ Cardinality(approvals) >= Threshold
  /\ ~HandedOver(round)
  /\ sent' = Append(sent, [round |-> round, tx |-> offer, approvers |-> approvals])
  /\ UNCHANGED <<round, offer, approvals>>

Next ==
  \/ \E t \in Txs : Offer(t)
  \/ \E k \in Holders : Approve(k)
  \/ Withdraw
  \/ HandOver

Spec == Init /\ [][Next]_vars
=============================================================================
