----------------------------- MODULE ClientReview -----------------------------
(***************************************************************************)
(* What a signing client does with the transactions it is offered: the     *)
(* decoding, the prompt or the policy, and the answer.  A review goes on   *)
(* while messages arrive, so several can be under way; one prompt is open  *)
(* at a time.  The client is SigningClient, which asks a person, or        *)
(* AgentSigningClient, which asks its policy.                              *)
(*                                                                         *)
(* Of the server there is the transaction on offer, who takes it off, and  *)
(* what an answer does to it.  Losing the connection ends the story here;  *)
(* Reconnection goes on with it.                                           *)
(***************************************************************************)
EXTENDS Naturals, Sequences

CONSTANTS
  Txs,      \* transactions the coordinator may inject, each once
  NoTx      \* null

ASSUME ReviewAssumption == NoTx \notin Txs

VARIABLES
  agent,    \* the client is an agent
  offered,  \* session.frozenTransaction
  used,     \* transactions injected so far
  inbox,    \* messages under way to the client
  outbox,   \* messages under way to the server
  review,   \* how far the client is with each transaction
  prompt,   \* _activePromptRl: the transaction its question is about
  said,     \* the transactions a person or the policy has said yes to
  refused,  \* those said no to, and those that could not be shown
  mood,     \* the client's status
  line      \* its socket, and whether the process is there

reviewVars ==
  <<agent, offered, used, inbox, outbox, review, prompt, said, refused, mood,
    line>>

Stages == {"none", "decoding", "asking", "approved", "declined", "answered"}
Moods == {"ready", "reviewing", "signed", "rejected", "disconnected"}
Lines == {"open", "lost", "closed", "crashed"}

Offer(t)     == [type |-> "TRANSACTION_RECEIVED", tx |-> t]
Withdrawn    == [type |-> "TRANSACTION_RESET", tx |-> NoTx]
SessionOver  == [type |-> "SESSION_EXPIRED", tx |-> NoTx]
Signature(t) == [type |-> "SIGNATURE_SUBMIT", tx |-> t]

\* A rejection names no transaction: tx says whose review it comes from.
Rejection(t) == [type |-> "TRANSACTION_REJECTED", tx |-> t]

ReviewInit ==
  /\ agent \in BOOLEAN
  /\ offered = NoTx /\ used = {}
  /\ inbox = <<>> /\ outbox = <<>>
  /\ review = [t \in Txs |-> "none"]
  /\ prompt = NoTx /\ said = {} /\ refused = {}
  /\ mood = "ready"
  /\ line = "open"

-----------------------------------------------------------------------------
(* The server *)

server == <<offered, used, inbox>>
client == <<review, prompt, said, refused, mood, line>>

Send(m) == inbox' = IF line = "open" THEN Append(inbox, m) ELSE inbox

\* TRANSACTION_INJECT, which replaces what is on offer.
InjectOffer(t) ==
  /\ t \notin used
  /\ offered' = t /\ used' = used \cup {t}
  /\ Send(Offer(t))
  /\ UNCHANGED <<agent, outbox, client>>

\* RESET_TRANSACTION, and the timer that expires the transaction; or another
\* participant's rejection, of which the client takes no notice.
Withdraw ==
  /\ offered # NoTx
  /\ offered' = NoTx
  /\ Send(Withdrawn) \/ UNCHANGED inbox
  /\ UNCHANGED <<agent, used, outbox, client>>

\* The cleanup announces that the session is over.
EndSession ==
  /\ ~\E i \in 1..Len(inbox) : inbox[i] = SessionOver
  /\ Send(SessionOver)
  /\ UNCHANGED <<agent, offered, used, outbox, client>>

\* SIGNATURE_SUBMIT is verified against the offered transaction; one rejection
\* takes whatever is offered off.
ServerHandlesAnswer ==
  /\ outbox # <<>>
  /\ outbox' = Tail(outbox)
  /\ offered' = IF Head(outbox).type = "TRANSACTION_REJECTED" THEN NoTx ELSE offered
  /\ UNCHANGED <<agent, used, inbox, client>>

-----------------------------------------------------------------------------
(* The client *)

\* On a lost socket ws drops what is sent; on none the call throws.
Submit(m) == outbox' = IF line = "open" THEN Append(outbox, m) ELSE outbox

Received(type) == line = "open" /\ inbox # <<>> /\ Head(inbox).type = type

ReceiveOffer ==
  /\ Received("TRANSACTION_RECEIVED")
  /\ inbox' = Tail(inbox)
  /\ review' = [review EXCEPT ![Head(inbox).tx] = "decoding"]
  /\ mood' = IF agent THEN mood ELSE "reviewing"
  /\ UNCHANGED <<agent, offered, used, outbox, prompt, said, refused, line>>

\* TRANSACTION_EXPIRED and TRANSACTION_RESET: an open prompt stays open.  An
\* agent only passes the news on.
ReceiveWithdrawal ==
  /\ Received("TRANSACTION_RESET")
  /\ inbox' = Tail(inbox)
  /\ mood' = IF ~agent /\ mood \in {"reviewing", "rejected"} THEN "ready" ELSE mood
  /\ UNCHANGED <<agent, offered, used, outbox, review, prompt, said, refused, line>>

\* disconnect closes the prompt, whose question is answered with no.
ReceiveSessionOver ==
  /\ Received("SESSION_EXPIRED")
  /\ inbox' = <<>>
  /\ review' = IF prompt = NoTx THEN review
               ELSE [review EXCEPT ![prompt] = "declined"]
  /\ prompt' = NoTx
  /\ mood' = "disconnected"
  /\ line' = "closed"
  /\ UNCHANGED <<agent, offered, used, outbox, said, refused>>

\* Mutation: the question before is left open, and never answered.
AskLeavingOpen(t) == review' = [review EXCEPT ![t] = "asking"] /\ prompt' = t

\* promptUserApproval: an open prompt is closed, which answers it with no.
Ask(t) ==
  /\ review' = [x \in Txs |->
       IF x = t THEN "asking" ELSE IF x = prompt THEN "declined" ELSE review[x]]
  /\ prompt' = t

\* The transaction is decoded, and shown or handed to the policy.
Decoded(t) ==
  /\ line # "crashed" /\ review[t] = "decoding"
  /\ IF agent THEN review' = [review EXCEPT ![t] = "asking"] /\ UNCHANGED prompt
     ELSE Ask(t)
  /\ UNCHANGED <<agent, server, outbox, said, refused, mood, line>>

\* A transaction that cannot be decoded or shown is rejected; an agent goes on
\* with the coordinator's description of it.
DecodeFails(t) ==
  /\ line # "crashed" /\ review[t] = "decoding"
  /\ review' = [review EXCEPT ![t] = IF agent THEN "asking" ELSE "declined"]
  /\ refused' = IF agent THEN refused ELSE refused \cup {t}
  /\ UNCHANGED <<agent, server, outbox, prompt, said, mood, line>>

\* The answer of the person at the open prompt, or of the policy.
Decide(t, yes) ==
  /\ line # "crashed" /\ review[t] = "asking" /\ (agent \/ prompt = t)
  /\ review' = [review EXCEPT ![t] = IF yes THEN "approved" ELSE "declined"]
  /\ said' = IF yes THEN said \cup {t} ELSE said
  /\ refused' = IF yes THEN refused ELSE refused \cup {t}
  /\ prompt' = IF prompt = t THEN NoTx ELSE prompt
  /\ UNCHANGED <<agent, server, outbox, mood, line>>

\* Mutation: what is signed is the transaction received last.
SignedLatest(t) ==
  IF \E x \in Txs : review[x] = "decoding" THEN CHOOSE x \in Txs : review[x] = "decoding"
  ELSE t

\* What is signed is what was reviewed: the bytes go with the review.
SignedBy(t) == t

\* signTransaction, _signAndSubmit.  disconnect has taken the key away, which
\* SigningClient answers with a rejection and an agent with an event.
Sign(t) ==
  /\ line # "crashed" /\ review[t] = "approved"
  /\ review' = [review EXCEPT ![t] =
       IF line = "closed" /\ ~agent THEN "declined" ELSE "answered"]
  /\ Submit(Signature(SignedBy(t)))
  /\ mood' = IF line = "closed" THEN mood ELSE "signed"
  /\ UNCHANGED <<agent, server, prompt, said, refused, line>>

\* rejectTransaction.  Without a socket it throws, and once more when the error
\* is handled: the promise nobody waits for rejects, which ends the process.
\* In an agent the same error becomes an event.
Reject(t) ==
  /\ line # "crashed" /\ review[t] = "declined"
  /\ review' = [review EXCEPT ![t] = "answered"]
  /\ Submit(Rejection(t))
  /\ mood' = IF agent THEN mood ELSE "rejected"
  /\ line' = IF line = "closed" /\ ~agent THEN "crashed" ELSE line
  /\ UNCHANGED <<agent, server, prompt, said, refused>>

LoseLine ==
  /\ line = "open"
  /\ line' = "lost" /\ inbox' = <<>> /\ outbox' = <<>>
  /\ UNCHANGED <<agent, offered, used, review, prompt, said, refused, mood>>

ReviewNext ==
  \/ \E t \in Txs :
       \/ InjectOffer(t) \/ Decoded(t) \/ DecodeFails(t)
       \/ \E yes \in BOOLEAN : Decide(t, yes)
       \/ Sign(t) \/ Reject(t)
  \/ Withdraw \/ EndSession \/ ServerHandlesAnswer
  \/ ReceiveOffer \/ ReceiveWithdrawal \/ ReceiveSessionOver
  \/ LoseLine

\* A review goes on: code runs, and the person answers the question that is open.
Proceed(t) ==
  \/ Decoded(t) \/ DecodeFails(t)
  \/ \E yes \in BOOLEAN : Decide(t, yes)
  \/ Sign(t) \/ Reject(t)

ReviewFairness == \A t \in Txs : WF_reviewVars(Proceed(t))

ReviewSpec == ReviewInit /\ [][ReviewNext]_reviewVars /\ ReviewFairness

-----------------------------------------------------------------------------
(* Properties *)

\* The type invariant.
ReviewTypeOK ==
  /\ offered \in Txs \cup {NoTx} /\ used \subseteq Txs
  /\ review \in [Txs -> Stages]
  /\ prompt \in Txs \cup {NoTx}
  /\ said \subseteq Txs /\ refused \subseteq Txs
  /\ mood \in Moods
  /\ line \in Lines
  /\ ~agent /\ prompt # NoTx => review[prompt] = "asking"

\* With several transactions under review at once, a signature that goes out is
\* of a transaction that itself was said yes to.
SignedWasApproved ==
  \A i \in 1..Len(outbox) :
    outbox[i].type = "SIGNATURE_SUBMIT" => outbox[i].tx \in said

\* Every review comes to its answer, though only the last prompt can be
\* answered: the prompts before it do not wait for ever.
ReviewsEnd ==
  \A t \in Txs :
    review[t] \in {"decoding", "asking"} ~> (review[t] = "answered" \/ line = "crashed")

\* One rejection ends the ceremony for everybody.  The one that does should come
\* from somebody's no, or from a transaction that could not be shown.
CeremonyEndsByRefusal ==
  [][/\ outbox # <<>> /\ outbox' = Tail(outbox) /\ line' = line
     /\ Head(outbox).type = "TRANSACTION_REJECTED" /\ offered # NoTx
     => Head(outbox).tx \in refused]_reviewVars
=============================================================================
