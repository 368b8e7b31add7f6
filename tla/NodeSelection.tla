----------------------------- MODULE NodeSelection -----------------------------
(***************************************************************************)
(* Which nodes a transaction is frozen for: selectNodeAccountIds picks     *)
(* them by strategy, and with a mirror client orderByHealth puts the node  *)
(* most likely to be alive first, because a wallet signs for the first     *)
(* node only.  The browser's copy orders a subset only.                    *)
(*                                                                         *)
(* The mirror node is external: the address book is answered or not, and   *)
(* whether a node was seen lately is yes, no, or null after an error.      *)
(***************************************************************************)
EXTENDS Naturals, FiniteSets, SequencesExt

CONSTANTS
  Nodes,      \* node account ids of the network, and one that is not of it
  Elsewhere,  \* the node that is not of the network
  MaxListed   \* bound: endpoints in client.network, and ids asked for

ASSUME NodesAssumption == Elsewhere \in Nodes /\ MaxListed \in Nat

VARIABLES
  stage,      \* how far the selection is
  picked,    \* the nodes that the strategy picked
  ordered,   \* the order so far
  book,      \* history: healthy by the address book; all, if it did not say
  recent,    \* history: node -> the answer about its recent activity
  promoted   \* orderByHealth ran

nodeVars == <<stage, picked, ordered, book, recent, promoted>>

Activity == {"yes", "no", "null"}
Listings(S) == UNION {[1..n -> S] : n \in 0..MaxListed}

\* What a loop over the ids pushes: those at the given places.
Pushed(ids, places) ==
  LET K[n \in 0..Len(ids)] ==
        IF n = 0 THEN <<>>
        ELSE IF n \in places THEN Append(K[n - 1], ids[n]) ELSE K[n - 1]
  IN K[Len(ids)]

\* client.network names a node once per endpoint.
Unique(ids) ==
  Pushed(ids, {i \in DOMAIN ids : \A j \in DOMAIN ids : j < i => ids[j] # ids[i]})

Shuffles(ids) ==
  {[i \in DOMAIN ids |-> ids[p[i]]] : p \in SetToSeqs(DOMAIN ids)}

\* subsetSize is clamped to what the network has, and to one at least.
Clamped(size, n) == IF size < 1 THEN 1 ELSE IF size > n THEN n ELSE size

PickedBy(strategy, all, asked, size) ==
  CASE strategy = "all" -> {all}
    [] strategy = "specific" -> {asked}
    [] OTHER -> {SubSeq(s, 1, Clamped(size, Len(all))) : s \in Shuffles(all)}

Refuses(strategy, all, asked) ==
  \/ all = <<>>
  \/ strategy = "specific" /\ (asked = <<>> \/ ~(ToSet(asked) \subseteq ToSet(all)))

NodeInit ==
  /\ stage = "choose" /\ picked = <<>> /\ ordered = <<>>
  /\ book = Nodes /\ recent = [n \in Nodes |-> "null"]
  /\ promoted = FALSE

Selects(strategy, network, asked, size, orders) ==
  LET all == Unique(network) IN
  /\ stage = "choose"
  /\ \/ Refuses(strategy, all, asked) /\ stage' = "refused"
        /\ UNCHANGED <<picked, ordered, promoted>>
     \/ /\ ~Refuses(strategy, all, asked)
        /\ \E p \in PickedBy(strategy, all, asked, size) :
             /\ picked' = p
             /\ ordered' \in IF orders THEN Shuffles(p) ELSE {p}
        /\ stage' = IF orders THEN "book" ELSE "done"
        /\ promoted' = orders
  /\ UNCHANGED <<book, recent>>

\* selectNodeAccountIds, with or without a mirror client.
SelectNodes(strategy, network, asked, size) ==
  \E mirrorClient \in BOOLEAN : Selects(strategy, network, asked, size, mirrorClient)

\* The browser's: "all" and "specific" are returned before the mirror client
\* is looked at.
SelectNodesInBrowser(strategy, network, asked, size) ==
  \E mirrorClient \in BOOLEAN :
    Selects(strategy, network, asked, size, mirrorClient /\ strategy = "subset")

\* Mutation: the others are dropped.
PutFirstOnly(ids, good) == Pushed(ids, {i \in DOMAIN ids : ids[i] \in good})

PutFirst(ids, good) ==
  Pushed(ids, {i \in DOMAIN ids : ids[i] \in good})
    \o Pushed(ids, {i \in DOMAIN ids : ids[i] \notin good})

AddressBook(healthy) ==
  /\ stage = "book"
  /\ book' = healthy /\ ordered' = PutFirst(ordered, healthy)
  /\ stage' \in {"activity", "done"}  \* done: useActivity is false
  /\ UNCHANGED <<picked, recent, promoted>>

AddressBookFails ==
  /\ stage = "book" /\ stage' \in {"activity", "done"}
  /\ UNCHANGED <<picked, ordered, book, recent, promoted>>

\* "null" counts as "no" here.
ActivityKnown(answers) ==
  /\ stage = "activity" /\ stage' = "done"
  /\ recent' = answers
  /\ ordered' = PutFirst(ordered, {n \in Nodes : answers[n] = "yes"})
  /\ UNCHANGED <<picked, book, promoted>>

ActivityFails ==
  /\ stage = "activity" /\ stage' = "done"
  /\ UNCHANGED <<picked, ordered, book, recent, promoted>>

NodeNext ==
  \/ \E strategy \in {"all", "specific", "subset"},
        network \in Listings(Nodes \ {Elsewhere}) :
       \E asked \in IF strategy = "specific" THEN Listings(Nodes) ELSE {<<>>},
          size \in IF strategy = "subset" THEN 0..MaxListed ELSE {1} :
         \/ SelectNodes(strategy, network, asked, size)
         \/ SelectNodesInBrowser(strategy, network, asked, size)
  \/ \E healthy \in SUBSET Nodes : AddressBook(healthy)
  \/ AddressBookFails
  \/ \E answers \in [Nodes -> Activity] : ActivityKnown(answers)
  \/ ActivityFails

NodeSpec == NodeInit /\ [][NodeNext]_nodeVars

-----------------------------------------------------------------------------
(* Properties *)

\* The type invariant.
NodeTypeOK ==
  /\ stage \in {"choose", "book", "activity", "done", "refused"}
  /\ picked \in Listings(Nodes) /\ ordered \in Listings(Nodes)
  /\ book \subseteq Nodes /\ recent \in [Nodes -> Activity]
  /\ promoted \in BOOLEAN

Times(ids, n) == Cardinality({i \in DOMAIN ids : ids[i] = n})
\* a's answer is no worse than b's: seen lately, then unknown, then not seen.
NoWorse(a, b) ==
  recent[a] = "yes" \/ recent[b] = "no" \/ recent[a] = recent[b]
Livelier(a, b) ==
  \/ recent[a] = "yes" /\ recent[b] = "no"
  \/ NoWorse(a, b) /\ a \in book /\ b \notin book

\* What is frozen for is what the strategy picked, node for node, and where
\* the mirror node was asked, whichever of its two answers failed, no node
\* known not to have been seen lately stands before one that was, and no unhealthy
\* node (by the address book) before a healthy one whose activity is no worse known.
\* Nothing is said of a node of unknown activity against one that was seen: the
\* code puts it behind, although its comment says that null does not disqualify
\* (node-selection.js:169-170).
LivelyFirst ==
  stage = "done" =>
    /\ \A n \in Nodes : Times(ordered, n) = Times(picked, n)
    /\ promoted => \A i, j \in DOMAIN ordered :
                     i < j => ~Livelier(ordered[j], ordered[i])
=============================================================================
