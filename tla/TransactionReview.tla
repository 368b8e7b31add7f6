--------------------------- MODULE TransactionReview ---------------------------
(***************************************************************************)
(* An agent's policy, whose rules see what the coordinator claims of a     *)
(* transaction overlaid by the details decoded from its bytes.             *)
(*                                                                         *)
(* A transaction is its type and the HBAR it moves, which is all that the  *)
(* rules look at.  Details and claims are the same kind of record, where a *)
(* field without movements is absent.                                      *)
(***************************************************************************)
EXTENDS Integers, FiniteSets

CONSTANTS
  Accounts,     \* account ids
  Amounts,      \* amounts received, in tinybars
  Hour,         \* one hour, in ticks
  MaxHbar,      \* MaxAmountRule
  Allowed,      \* AllowedRecipientsRule
  MaxPerHour    \* RateLimitRule

ASSUME PolicyAssumption ==
  /\ Amounts \subseteq Nat \ {0} /\ MaxHbar \in Nat
  /\ Hour \in Nat \ {0} /\ MaxPerHour \in Nat \ {0}
  /\ Allowed \subseteq Accounts

VARIABLES
  stamps,    \* approvalTimestamps of the rate limit
  approvals, \* the approvals the agent has given
  judged     \* the last offer and what became of it

policyVars == <<stamps, approvals, judged>>

Movements == [account : Accounts, amount : Amounts]
TxTypes == {"TransferTransaction", "ContractExecuteTransaction"}

\* Rules and checks go through a list one by one: at most one movement each.
\* What senders pay is the other side of it and left out.
Lists == {{}} \cup {{m} : m \in Movements}

Transactions ==
  {t \in [type : TxTypes, transfers : Lists] :
     t.type # "TransferTransaction" => t.transfers = {}}

\* What the coordinator says: details of the same form.
Claims == [type : TxTypes, transfers : Lists]

Nothing == [offer |-> "none"]

\* A timestamp is as old as it is; equal ones in the list are told apart.
Stamps == [no : Nat, age : 0..Hour]

-----------------------------------------------------------------------------
(* The policy *)

\* Mutation: the claims are laid over the details.
OverlaidReversed(c, d) ==
  [type |-> c.type,
   transfers |-> IF c.transfers # {} THEN c.transfers ELSE d.transfers]

\* What the rules see: a field that is absent from the details is the claim's.
Overlaid(c, d) ==
  [type |-> d.type,
   transfers |-> IF d.transfers # {} THEN d.transfers ELSE c.transfers]

\* MaxAmountRule, AllowedRecipientsRule, AllowedTransactionTypesRule: of HBAR
\* transfers only.
AmountsAllowed(seen) == \A m \in seen.transfers : m.amount <= MaxHbar
RecipientsAllowed(seen) ==
  \A m \in seen.transfers : m.account \in Allowed
TypeAllowed(seen) == seen.type = "TransferTransaction"

\* Mutation: an approval is forgotten early.
RecentEarly == {s \in stamps : s.age < Hour - 1}

\* RateLimitRule forgets approvals an hour old.
Recent == {s \in stamps : s.age < Hour}

\* The timestamp of this moment.
Now == [no  |-> CHOOSE n \in 0..Cardinality(stamps \cup approvals) :
                  \A s \in stamps \cup approvals : s.no # n,
        age |-> 0]

PolicyInit == stamps = {} /\ approvals = {} /\ judged = Nothing

ReviewOffer(t, c, decoded) ==
  /\ judged = Nothing
  /\ judged' = [offer |-> "open", tx |-> t, claims |-> c, decoded |-> decoded,
                approved |-> FALSE]
  /\ UNCHANGED <<stamps, approvals>>

\* PolicyEngine.evaluate: every rule is asked, so the rate limit counts what
\* another rule rejects.  Bytes that cannot be decoded leave only the claims.
Evaluate ==
  LET seen  == IF judged.decoded THEN Overlaid(judged.claims, judged.tx)
               ELSE judged.claims
      room  == Cardinality(Recent) < MaxPerHour
      grant == /\ AmountsAllowed(seen) /\ RecipientsAllowed(seen)
               /\ TypeAllowed(seen) /\ room
  IN /\ judged.offer = "open"
     /\ stamps' = IF room THEN Recent \cup {Now} ELSE Recent
     /\ approvals' = IF grant THEN approvals \cup {Now} ELSE approvals
     /\ judged' = [judged EXCEPT !.offer = "judged", !.approved = grant]

Answer ==
  /\ judged.offer = "judged"
  /\ judged' = Nothing
  /\ UNCHANGED <<stamps, approvals>>

Aged(ss, oldest) ==
  {[s EXCEPT !.age = @ + 1] : s \in {q \in ss : q.age < oldest}}

\* Time passes; an approval an hour old is of no more interest, nor is a
\* timestamp that is older still.
PolicyTick ==
  /\ judged = Nothing
  /\ stamps' = Aged(stamps, Hour)
  /\ approvals' = Aged(approvals, Hour - 1)
  /\ UNCHANGED judged

PolicyNext ==
  \/ \E t \in Transactions, c \in Claims, decoded \in BOOLEAN : ReviewOffer(t, c, decoded)
  \/ Evaluate \/ Answer \/ PolicyTick

PolicySpec == PolicyInit /\ [][PolicyNext]_policyVars

-----------------------------------------------------------------------------
(* Properties *)

\* The type invariant.
PolicyTypeOK ==
  /\ stamps \subseteq Stamps /\ approvals \subseteq Stamps
  /\ judged # Nothing =>
       judged.tx \in Transactions /\ judged.claims \in Claims

Judged == judged # Nothing

\* Whatever the coordinator claims, HBAR goes in an approved transaction only to
\* allowed accounts and within the limit, if its bytes could be decoded.
ApprovedWithinPolicy ==
  Judged /\ judged.approved /\ judged.decoded
    => \A m \in judged.tx.transfers :
         m.amount <= MaxHbar /\ m.account \in Allowed

\* In no hour are more transactions approved than the limit says, though the
\* rule also counts what was then rejected.
ApprovalsPerHour == Cardinality(approvals) <= MaxPerHour
=============================================================================
