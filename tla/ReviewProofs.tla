----------------------------- MODULE ReviewProofs -----------------------------
(* Proofs about the two reviews: that a signing client signs only what was said  *)
(* yes to, however many transactions reach it and however their reviews          *)
(* interleave; and that an agent's policy approves only what it allows, whatever *)
(* the coordinator claims.                                                       *)
EXTENDS ClientReview, TransactionReview, SequenceTheorems, FiniteSetTheorems,
        TLAPS

-----------------------------------------------------------------------------
(* ClientReview                                                            *)

Answers == [type : {"SIGNATURE_SUBMIT", "TRANSACTION_REJECTED"}, tx : Txs]
SignedIn(messages) ==
  \A i \in 1..Len(messages) :
    messages[i].type = "SIGNATURE_SUBMIT" => messages[i].tx \in said

\* What is approved was said yes to, and so was what is signed on its way.
ApprovedWasSaid ==
  /\ review \in [Txs -> Stages]
  /\ outbox \in Seq(Answers)
  /\ \A t \in Txs : review[t] = "approved" => t \in said
  /\ SignedIn(outbox)

\* Appending an answer keeps the signed ones said yes to, if it is a rejection or
\* a signature of a transaction that was.
LEMMA AppendKeepsSigned ==
  ASSUME ApprovedWasSaid, NEW m \in Answers,
         m.type = "SIGNATURE_SUBMIT" => m.tx \in said
  PROVE  /\ Append(outbox, m) \in Seq(Answers)
         /\ SignedIn(Append(outbox, m))
<1>1. outbox \in Seq(Answers)
  BY DEF ApprovedWasSaid
<1>2. /\ Append(outbox, m) \in Seq(Answers)
      /\ Len(Append(outbox, m)) = Len(outbox) + 1
      /\ \A i \in 1..Len(outbox) : Append(outbox, m)[i] = outbox[i]
      /\ Append(outbox, m)[Len(outbox) + 1] = m
  BY <1>1, AppendProperties
<1>3. Len(outbox) \in Nat
  BY <1>1, LenProperties
<1>4. ASSUME NEW i \in 1..(Len(outbox) + 1)
      PROVE  i \in 1..Len(outbox) \/ i = Len(outbox) + 1
  BY <1>3
<1> QED
  BY <1>2, <1>4 DEF ApprovedWasSaid, SignedIn

LEMMA ApprovedWasSaidInit == ReviewInit => ApprovedWasSaid
<1> SUFFICES ASSUME ReviewInit PROVE ApprovedWasSaid
  OBVIOUS
<1>1. outbox \in Seq(Answers) /\ Len(outbox) = 0
  BY DEF ReviewInit
<1>2. review \in [Txs -> Stages] /\ \A t \in Txs : review[t] # "approved"
  BY DEF ReviewInit, Stages
<1> QED
  BY <1>1, <1>2 DEF ApprovedWasSaid, SignedIn

\* Every step keeps it.
LEMMA ApprovedWasSaidStep ==
  ApprovedWasSaid /\ [ReviewNext]_reviewVars => ApprovedWasSaid'
<1> SUFFICES ASSUME ApprovedWasSaid, [ReviewNext]_reviewVars
             PROVE  ApprovedWasSaid'
  OBVIOUS
<1>a. /\ review \in [Txs -> Stages] /\ outbox \in Seq(Answers)
      /\ \A t \in Txs : review[t] = "approved" => t \in said
      /\ SignedIn(outbox)
  BY DEF ApprovedWasSaid
<1>s. "declined" \in Stages /\ "answered" \in Stages /\ "approved" \in Stages
      /\ "asking" \in Stages /\ "decoding" \in Stages
  BY DEF Stages
\* The server's actions and the reception of a withdrawal touch none of it.
<1>1. ASSUME UNCHANGED <<review, outbox, said>>
      PROVE  ApprovedWasSaid'
  BY <1>1 DEF ApprovedWasSaid, SignedIn
<1>2. ASSUME NEW t \in Txs, InjectOffer(t) PROVE ApprovedWasSaid'
  BY <1>1, <1>2 DEF InjectOffer, client
<1>3. ASSUME Withdraw PROVE ApprovedWasSaid'
  BY <1>1, <1>3 DEF Withdraw, client
<1>4. ASSUME EndSession PROVE ApprovedWasSaid'
  BY <1>1, <1>4 DEF EndSession, client
<1>5. ASSUME ReceiveWithdrawal PROVE ApprovedWasSaid'
  BY <1>1, <1>5 DEF ReceiveWithdrawal
\* What is left of the messages under way was among them.
<1>6. ASSUME ServerHandlesAnswer PROVE ApprovedWasSaid'
  <2>1. /\ outbox # <<>> /\ outbox' = Tail(outbox)
        /\ UNCHANGED <<review, said>>
    BY <1>6 DEF ServerHandlesAnswer, client
  <2>2. /\ Tail(outbox) \in Seq(Answers)
        /\ Len(Tail(outbox)) = Len(outbox) - 1
        /\ \A i \in 1..Len(Tail(outbox)) : Tail(outbox)[i] = outbox[i + 1]
    BY <1>a, <2>1, HeadTailProperties
  <2>3. Len(outbox) \in Nat
    BY <1>a, LenProperties
  <2>4. ASSUME NEW i \in 1..Len(Tail(outbox))
        PROVE  i + 1 \in 1..Len(outbox)
    BY <2>2, <2>3
  <2> QED
    BY <1>a, <2>1, <2>2, <2>4 DEF ApprovedWasSaid, SignedIn
<1>7. ASSUME LoseLine PROVE ApprovedWasSaid'
  <2>1. outbox' = <<>> /\ UNCHANGED <<review, said>>
    BY <1>7 DEF LoseLine
  <2>2. <<>> \in Seq(Answers) /\ Len(<<>>) = 0
    OBVIOUS
  <2> QED
    BY <1>a, <2>1, <2>2 DEF ApprovedWasSaid, SignedIn
\* A review moves to a stage other than "approved".
<1>8. ASSUME review' \in [Txs -> Stages], said \subseteq said', UNCHANGED outbox,
             \A t \in Txs : review'[t] = "approved" => t \in said'
      PROVE  ApprovedWasSaid'
  BY <1>a, <1>8 DEF ApprovedWasSaid, SignedIn
<1>9. ASSUME NEW t \in Txs, Decoded(t) PROVE ApprovedWasSaid'
  <2>1. UNCHANGED <<outbox, said>>
    BY <1>9 DEF Decoded
  <2>2. CASE agent
    BY <1>8, <1>9, <1>a, <1>s, <2>1, <2>2 DEF Decoded
  <2>3. CASE ~agent
    <3>1. review' = [x \in Txs |->
             IF x = t THEN "asking" ELSE IF x = prompt THEN "declined" ELSE review[x]]
      BY <1>9, <2>3 DEF Decoded, Ask
    <3> QED
      BY <1>8, <1>a, <1>s, <2>1, <3>1
  <2> QED BY <2>2, <2>3
<1>10. ASSUME NEW t \in Txs, DecodeFails(t) PROVE ApprovedWasSaid'
  BY <1>8, <1>10, <1>a, <1>s DEF DecodeFails
<1>11. ASSUME NEW t \in Txs, NEW yes \in BOOLEAN, Decide(t, yes)
       PROVE  ApprovedWasSaid'
  <2>1. /\ review' = [review EXCEPT ![t] = IF yes THEN "approved" ELSE "declined"]
        /\ said' = IF yes THEN said \cup {t} ELSE said
        /\ UNCHANGED outbox
    BY <1>11 DEF Decide
  <2>2. CASE yes
    BY <1>8, <1>a, <1>s, <2>1, <2>2
  <2>3. CASE ~yes
    BY <1>8, <1>a, <1>s, <2>1, <2>3
  <2> QED BY <2>2, <2>3
<1>12. ASSUME ReceiveOffer PROVE ApprovedWasSaid'
  BY <1>8, <1>12, <1>a, <1>s DEF ReceiveOffer
<1>13. ASSUME ReceiveSessionOver PROVE ApprovedWasSaid'
  BY <1>8, <1>13, <1>a, <1>s DEF ReceiveSessionOver
\* A signature is of a transaction approved, a rejection is none.
<1>14. ASSUME NEW t \in Txs, Sign(t) PROVE ApprovedWasSaid'
  <2>1. Signature(t) \in Answers /\ Signature(t).tx = t
    BY DEF Signature, Answers
  <2>2. t \in said
    BY <1>14, <1>a DEF Sign
  <2>3. /\ Append(outbox, Signature(t)) \in Seq(Answers)
        /\ SignedIn(Append(outbox, Signature(t)))
    BY <2>1, <2>2, AppendKeepsSigned
  <2>4. outbox' \in Seq(Answers) /\ SignedIn(outbox')
    BY <1>14, <1>a, <2>3 DEF Sign, Submit, SignedBy
  <2>5. UNCHANGED said /\ review' = [review EXCEPT ![t] =
           IF line = "closed" /\ ~agent THEN "declined" ELSE "answered"]
    BY <1>14 DEF Sign
  <2>6. /\ review' \in [Txs -> Stages]
        /\ \A x \in Txs : review'[x] = "approved" => x \in said'
    BY <1>a, <1>s, <2>5
  <2> QED BY <2>4, <2>5, <2>6 DEF ApprovedWasSaid, SignedIn
<1>15. ASSUME NEW t \in Txs, Reject(t) PROVE ApprovedWasSaid'
  <2>1. Rejection(t) \in Answers /\ Rejection(t).type # "SIGNATURE_SUBMIT"
    BY DEF Rejection, Answers
  <2>2. /\ Append(outbox, Rejection(t)) \in Seq(Answers)
        /\ SignedIn(Append(outbox, Rejection(t)))
    BY <2>1, AppendKeepsSigned
  <2>3. outbox' \in Seq(Answers) /\ SignedIn(outbox')
    BY <1>15, <1>a, <2>2 DEF Reject, Submit
  <2>4. UNCHANGED said /\ review' = [review EXCEPT ![t] = "answered"]
    BY <1>15 DEF Reject
  <2>5. /\ review' \in [Txs -> Stages]
        /\ \A x \in Txs : review'[x] = "approved" => x \in said'
    BY <1>a, <1>s, <2>4
  <2> QED BY <2>3, <2>4, <2>5 DEF ApprovedWasSaid, SignedIn
<1>16. ASSUME UNCHANGED reviewVars PROVE ApprovedWasSaid'
  BY <1>1, <1>16 DEF reviewVars
<1> QED
  BY <1>2, <1>3, <1>4, <1>5, <1>6, <1>7, <1>9, <1>10, <1>11, <1>12, <1>13, <1>14,
     <1>15, <1>16 DEF ReviewNext

\* A signature that goes out is of a transaction that itself was said yes to.
THEOREM SignedWasApprovedAlways == ReviewSpec => []SignedWasApproved
<1>1. ApprovedWasSaid => SignedWasApproved
  BY DEF ApprovedWasSaid, SignedIn, SignedWasApproved
<1> QED
  BY ApprovedWasSaidInit, ApprovedWasSaidStep, <1>1, PTL DEF ReviewSpec

\* The messages to the client, and their offers: each of another transaction,
\* whose review is yet to begin.
News == {m \in [type : {"TRANSACTION_RECEIVED", "TRANSACTION_RESET", "SESSION_EXPIRED"},
               tx : Txs \cup {NoTx}] : m.type = "TRANSACTION_RECEIVED" => m.tx \in Txs}
IsOffer(m) == m.type = "TRANSACTION_RECEIVED"

OffersNew ==
  \A i \in 1..Len(inbox) : IsOffer(inbox[i]) =>
    /\ inbox[i].tx \in used /\ review[inbox[i].tx] = "none"
    /\ \A j \in 1..Len(inbox) : IsOffer(inbox[j]) /\ inbox[j].tx = inbox[i].tx => j = i

\* The open prompt stays about a review that waits for its answer, because no
\* offer of the same transaction is still to come.  An agent has no prompt.
ReviewInv ==
  /\ ReviewTypeOK /\ agent \in BOOLEAN
  /\ agent => prompt = NoTx
  /\ inbox \in Seq(News) /\ OffersNew
  /\ \A t \in Txs : t \notin used => review[t] = "none"

LEMMA ReviewInvInit == ReviewInit => ReviewInv
<1> SUFFICES ASSUME ReviewInit PROVE ReviewInv
  OBVIOUS
<1>1. inbox \in Seq(News) /\ Len(inbox) = 0
  BY DEF ReviewInit
<1>2. OffersNew
  BY <1>1 DEF OffersNew
<1> QED BY <1>1, <1>2 DEF ReviewInit, ReviewInv, ReviewTypeOK, Stages, Moods, Lines

\* One message more: no offer, or that of a transaction not used before.
LEMMA SentStaysNew ==
  ASSUME ReviewInv, NEW m \in News, review' = review, used \subseteq used',
         IsOffer(m) => m.tx \in used' \ used,
         inbox' = Append(inbox, m) \/ inbox' = inbox
  PROVE  inbox' \in Seq(News) /\ OffersNew'
<1>a. inbox \in Seq(News) /\ Len(inbox) \in Nat
  BY LenProperties DEF ReviewInv
<1>1. CASE inbox' = inbox
  BY <1>a, <1>1 DEF ReviewInv, OffersNew
<1>2. CASE inbox' = Append(inbox, m)
  <2>1. /\ inbox' \in Seq(News) /\ Len(inbox') = Len(inbox) + 1
        /\ \A i \in 1..Len(inbox) : inbox'[i] = inbox[i]
        /\ inbox'[Len(inbox) + 1] = m
    BY <1>a, <1>2, AppendProperties
  <2>2. \A i \in 1..Len(inbox') : i \in 1..Len(inbox) \/ i = Len(inbox) + 1
    BY <1>a, <2>1
  <2>3. \A i \in 1..Len(inbox) : IsOffer(inbox[i]) =>
          /\ inbox[i].tx \in used /\ review[inbox[i].tx] = "none"
          /\ \A j \in 1..Len(inbox) : IsOffer(inbox[j]) /\ inbox[j].tx = inbox[i].tx => j = i
    BY DEF ReviewInv, OffersNew
  <2>4. IsOffer(m) => m.tx \in used' /\ m.tx \notin used /\ review[m.tx] = "none"
    BY DEF ReviewInv, News, IsOffer
  <2>5. ASSUME NEW i \in 1..Len(inbox'), IsOffer(inbox'[i])
        PROVE  /\ inbox'[i].tx \in used' /\ review'[inbox'[i].tx] = "none"
               /\ \A j \in 1..Len(inbox') :
                    IsOffer(inbox'[j]) /\ inbox'[j].tx = inbox'[i].tx => j = i
    BY <2>1, <2>2, <2>3, <2>4, <2>5
  <2> QED BY <2>1, <2>5 DEF OffersNew
<1> QED BY <1>1, <1>2

\* One message less: its review alone may begin.
LEMMA HeardStaysNew ==
  ASSUME ReviewInv, inbox # <<>>, inbox' = Tail(inbox), used' = used,
         \/ review' = review
         \/ IsOffer(Head(inbox)) /\ review' = [review EXCEPT ![Head(inbox).tx] = "decoding"]
  PROVE  inbox' \in Seq(News) /\ OffersNew'
<1>1. inbox \in Seq(News) /\ Len(inbox) \in Nat /\ Head(inbox) = inbox[1]
      /\ review \in [Txs -> Stages] /\ used \subseteq Txs
  BY LenProperties, HeadTailProperties DEF ReviewInv, ReviewTypeOK
<1>2. /\ inbox' \in Seq(News) /\ Len(inbox') = Len(inbox) - 1
      /\ \A i \in 1..Len(inbox') : inbox'[i] = inbox[i + 1]
  BY <1>1, HeadTailProperties
<1>3. \A i \in 1..Len(inbox') : i + 1 \in 1..Len(inbox) /\ i + 1 # 1
  BY <1>1, <1>2
<1>4. \A i \in 1..Len(inbox) : IsOffer(inbox[i]) =>
        /\ inbox[i].tx \in used /\ review[inbox[i].tx] = "none"
        /\ \A j \in 1..Len(inbox) : IsOffer(inbox[j]) /\ inbox[j].tx = inbox[i].tx => j = i
  BY DEF ReviewInv, OffersNew
<1>5. 1 \in 1..Len(inbox)
  BY <1>1, EmptySeq
<1>6. ASSUME NEW i \in 1..Len(inbox'), IsOffer(inbox'[i])
      PROVE  /\ inbox'[i].tx \in used' /\ review'[inbox'[i].tx] = "none"
             /\ \A j \in 1..Len(inbox') :
                  IsOffer(inbox'[j]) /\ inbox'[j].tx = inbox'[i].tx => j = i
  <2>1. /\ i + 1 \in 1..Len(inbox) /\ IsOffer(inbox[i + 1]) /\ inbox'[i] = inbox[i + 1]
    BY <1>2, <1>3, <1>6
  <2>2. inbox[i + 1].tx \in used /\ review[inbox[i + 1].tx] = "none"
    BY <1>4, <2>1
  <2>3. IsOffer(Head(inbox)) => Head(inbox).tx # inbox[i + 1].tx
    BY <1>1, <1>3, <1>4, <1>5, <2>1
  <2>4. review'[inbox'[i].tx] = "none"
    BY <1>1, <2>1, <2>2, <2>3
  <2>5. ASSUME NEW j \in 1..Len(inbox'), IsOffer(inbox'[j]), inbox'[j].tx = inbox'[i].tx
        PROVE  j = i
    <3>1. j + 1 \in 1..Len(inbox) /\ inbox'[j] = inbox[j + 1]
      BY <1>2, <1>3
    <3>2. j + 1 = i + 1
      BY <1>4, <2>1, <2>5, <3>1
    <3> QED BY <3>2
  <2> QED BY <2>1, <2>2, <2>4, <2>5
<1> QED BY <1>2, <1>6 DEF OffersNew

\* The messages stay where they are, or are lost; a review that has begun goes on.
LEMMA ReviewedStaysNew ==
  ASSUME ReviewInv, inbox' = inbox \/ inbox' = <<>>, used' = used,
         NEW S \in SUBSET Txs, \A t \in S : review[t] # "none",
         \A t \in Txs \ S : review'[t] = review[t]
  PROVE  /\ inbox' \in Seq(News) /\ OffersNew'
         /\ \A t \in Txs : t \notin used' => review'[t] = "none"
<1>1. used \subseteq Txs /\ inbox \in Seq(News)
  BY DEF ReviewInv, ReviewTypeOK
<1>2. \A t \in Txs : review[t] = "none" => review'[t] = "none"
  OBVIOUS
<1>3. CASE inbox' = inbox
  BY <1>1, <1>2, <1>3 DEF ReviewInv, OffersNew
<1>4. CASE inbox' = <<>>
  <2>1. inbox' \in Seq(News) /\ Len(inbox') = 0
    BY <1>4
  <2> QED BY <1>2, <2>1 DEF ReviewInv, OffersNew
<1> QED BY <1>3, <1>4

LEMMA ReviewInvStep == ReviewInv /\ [ReviewNext]_reviewVars => ReviewInv'
<1> SUFFICES ASSUME ReviewInv, [ReviewNext]_reviewVars PROVE ReviewInv'
  OBVIOUS
<1> USE ReviewAssumption
<1>a. /\ offered \in Txs \cup {NoTx} /\ used \subseteq Txs /\ review \in [Txs -> Stages]
      /\ prompt \in Txs \cup {NoTx} /\ said \subseteq Txs /\ refused \subseteq Txs
      /\ mood \in Moods /\ line \in Lines /\ agent \in BOOLEAN /\ inbox \in Seq(News)
      /\ prompt # NoTx => ~agent /\ review[prompt] = "asking"
      /\ \A t \in Txs : t \notin used => review[t] = "none"
  BY DEF ReviewInv, ReviewTypeOK
<1>s. /\ {"none", "decoding", "asking", "approved", "declined", "answered"} \subseteq Stages
      /\ {"ready", "reviewing", "signed", "rejected", "disconnected"} \subseteq Moods
      /\ {"open", "lost", "closed", "crashed"} \subseteq Lines
  BY DEF Stages, Moods, Lines
\* The server speaks.
<1>1. ASSUME NEW m \in News, Send(m) \/ inbox' = inbox, used \subseteq used', used' \subseteq Txs,
             IsOffer(m) => m.tx \in used' \ used,
             offered' \in Txs \cup {NoTx}, UNCHANGED <<agent, client>>
      PROVE  ReviewInv'
  <2>1. inbox' \in Seq(News) /\ OffersNew'
    BY <1>1, SentStaysNew DEF Send, client
  <2> QED BY <1>a, <1>1, <2>1 DEF ReviewInv, ReviewTypeOK, client
<1>2. ASSUME NEW t \in Txs, InjectOffer(t) PROVE ReviewInv'
  <2>1. Offer(t) \in News /\ Offer(t).tx = t
    BY DEF Offer, News
  <2> QED BY <1>1, <1>2, <1>a, <2>1 DEF InjectOffer
<1>3. ASSUME Withdraw \/ EndSession \/ ServerHandlesAnswer PROVE ReviewInv'
  <2>1. Withdrawn \in News /\ ~IsOffer(Withdrawn) /\ SessionOver \in News /\ ~IsOffer(SessionOver)
    BY DEF Withdrawn, SessionOver, News, IsOffer
  <2>2. CASE Withdraw
    BY <1>1, <1>a, <2>1, <2>2 DEF Withdraw
  <2>3. CASE EndSession
    BY <1>1, <1>a, <2>1, <2>3 DEF EndSession
  <2>4. CASE ServerHandlesAnswer
    BY <1>1, <1>a, <2>1, <2>4 DEF ServerHandlesAnswer
  <2> QED BY <1>3, <2>2, <2>3, <2>4
\* An offer's review begins: it is not the one the prompt is about.
<1>4. CASE ReceiveOffer
  <2> DEFINE t == Head(inbox).tx
  <2>1. inbox # <<>> /\ IsOffer(Head(inbox)) /\ inbox' = Tail(inbox)
    BY <1>4 DEF ReceiveOffer, Received, IsOffer
  <2>2. /\ review' = [review EXCEPT ![t] = "decoding"]
        /\ mood' = IF agent THEN mood ELSE "reviewing"
        /\ UNCHANGED <<agent, offered, used, outbox, prompt, said, refused, line>>
    BY <1>4 DEF ReceiveOffer
  <2>3. Head(inbox) \in News /\ Head(inbox) = inbox[1] /\ 1 \in 1..Len(inbox)
    BY <1>a, <2>1, HeadTailProperties, LenProperties, EmptySeq
  <2>4. t \in Txs /\ t \in used /\ review[t] = "none"
    BY <2>1, <2>3 DEF ReviewInv, OffersNew, News, IsOffer
  <2>5. inbox' \in Seq(News) /\ OffersNew'
    BY <2>1, <2>2, HeardStaysNew
  <2> HIDE DEF t
  <2>6. /\ prompt' # NoTx => ~agent' /\ review'[prompt'] = "asking"
        /\ \A x \in Txs : x \notin used' => review'[x] = "none"
    BY <1>a, <2>2, <2>4
  <2> QED BY <1>a, <1>s, <2>2, <2>4, <2>5, <2>6 DEF ReviewInv, ReviewTypeOK
<1>5. CASE ReceiveWithdrawal
  <2>1. inbox # <<>> /\ inbox' = Tail(inbox) /\ UNCHANGED <<review, used>>
    BY <1>5 DEF ReceiveWithdrawal, Received
  <2>2. inbox' \in Seq(News) /\ OffersNew'
    BY <2>1, HeardStaysNew
  <2> QED BY <1>5, <1>a, <1>s, <2>2 DEF ReceiveWithdrawal, ReviewInv, ReviewTypeOK
\* From here on reviews that have begun go on.
<1>6. ASSUME NEW S \in SUBSET Txs, \A t \in S : review[t] # "none",
             \A t \in Txs \ S : review'[t] = review[t],
             review' \in [Txs -> Stages], inbox' = inbox \/ inbox' = <<>>,
             UNCHANGED <<agent, offered, used>>,
             prompt' \in Txs \cup {NoTx}, said' \subseteq Txs, refused' \subseteq Txs,
             mood' \in Moods, line' \in Lines,
             prompt' # NoTx => ~agent /\ review'[prompt'] = "asking"
      PROVE  ReviewInv'
  <2>1. /\ inbox' \in Seq(News) /\ OffersNew'
        /\ \A t \in Txs : t \notin used' => review'[t] = "none"
    BY <1>6, ReviewedStaysNew
  <2> QED BY <1>a, <1>6, <2>1 DEF ReviewInv, ReviewTypeOK
<1>7. CASE ReceiveSessionOver
  <2>1. CASE prompt = NoTx
    <3>1. {} \in SUBSET Txs /\ (\A t \in {} : review[t] # "none")
      OBVIOUS
    <3> QED BY <1>6, <1>7, <1>a, <1>s, <2>1, <3>1 DEF ReceiveSessionOver
  <2>2. CASE prompt # NoTx
    <3>1. /\ review' = [review EXCEPT ![prompt] = "declined"] /\ inbox' = <<>>
          /\ prompt' = NoTx /\ mood' = "disconnected" /\ line' = "closed"
          /\ UNCHANGED <<agent, offered, used, said, refused>>
      BY <1>7, <2>2 DEF ReceiveSessionOver
    <3>2. /\ {prompt} \in SUBSET Txs /\ \A t \in {prompt} : review[t] # "none"
          /\ \A t \in Txs \ {prompt} : review'[t] = review[t]
          /\ review' \in [Txs -> Stages]
      BY <1>a, <1>s, <2>2, <3>1
    <3> QED BY <1>6, <1>a, <1>s, <3>1, <3>2
  <2> QED BY <2>1, <2>2
<1>8. ASSUME NEW t \in Txs, Decoded(t) PROVE ReviewInv'
  <2>1. CASE agent
    <3>1. /\ {t} \in SUBSET Txs /\ \A x \in {t} : review[x] # "none"
          /\ \A x \in Txs \ {t} : review'[x] = review[x]
          /\ review' \in [Txs -> Stages]
      BY <1>8, <1>a, <1>s, <2>1 DEF Decoded
    <3> QED BY <1>6, <1>8, <1>a, <2>1, <3>1 DEF Decoded, server
  <2>2. CASE ~agent
    <3>1. /\ review' = [x \in Txs |->
                IF x = t THEN "asking" ELSE IF x = prompt THEN "declined" ELSE review[x]]
          /\ prompt' = t /\ review[t] = "decoding"
      BY <1>8, <2>2 DEF Decoded, Ask
    <3> DEFINE S == {x \in Txs : x = t \/ x = prompt}
    <3>2. /\ S \in SUBSET Txs /\ \A x \in S : review[x] # "none"
          /\ \A x \in Txs \ S : review'[x] = review[x]
      BY <1>a, <2>2, <3>1
    <3>3. review' \in [Txs -> Stages] /\ review'[prompt'] = "asking"
      BY <1>a, <1>s, <3>1
    <3> HIDE DEF S
    <3> QED BY <1>6, <1>8, <1>a, <3>1, <3>2, <3>3 DEF Decoded, server
  <2> QED BY <2>1, <2>2
<1>9. ASSUME NEW t \in Txs, review[t] # "none",
             NEW stage \in Stages, review' = [review EXCEPT ![t] = stage],
             prompt' \in {prompt, NoTx} \ {t},
             inbox' = inbox, UNCHANGED <<agent, offered, used>>,
             said' \subseteq Txs, refused' \subseteq Txs,
             mood' \in Moods, line' \in Lines
      PROVE  ReviewInv'
  <2>1. /\ review' \in [Txs -> Stages] /\ {t} \in SUBSET Txs
        /\ \A x \in {t} : review[x] # "none"
        /\ \A x \in Txs \ {t} : review'[x] = review[x]
        /\ prompt' \in Txs \cup {NoTx}
        /\ prompt' # NoTx => ~agent /\ review'[prompt'] = "asking"
    BY <1>a, <1>9
  <2> QED BY <1>6, <1>9, <2>1
<1>10. ASSUME NEW t \in Txs, DecodeFails(t) PROVE ReviewInv'
  <2>1. prompt # t
    BY <1>10, <1>a DEF DecodeFails
  <2> QED BY <1>9, <1>10, <1>a, <1>s, <2>1 DEF DecodeFails, server
<1>11. ASSUME NEW t \in Txs, NEW yes \in BOOLEAN, Decide(t, yes) PROVE ReviewInv'
  BY <1>9, <1>11, <1>a, <1>s DEF Decide, server
<1>12. ASSUME NEW t \in Txs, Sign(t) PROVE ReviewInv'
  BY <1>9, <1>12, <1>a, <1>s DEF Sign, server
<1>13. ASSUME NEW t \in Txs, Reject(t) PROVE ReviewInv'
  BY <1>9, <1>13, <1>a, <1>s DEF Reject, server
<1>14. CASE LoseLine
  <2>1. {} \in SUBSET Txs /\ (\A t \in {} : review[t] # "none")
    OBVIOUS
  <2> QED BY <1>6, <1>14, <1>a, <1>s, <2>1 DEF LoseLine
<1>15. CASE UNCHANGED reviewVars
  BY <1>15 DEF reviewVars, ReviewInv, ReviewTypeOK, OffersNew
<1> QED
  BY <1>2, <1>3, <1>4, <1>5, <1>7, <1>8, <1>10, <1>11, <1>12, <1>13, <1>14, <1>15
     DEF ReviewNext

\* Every variable of the review keeps its type, and the open prompt of a person's
\* client is always about a review that waits for its answer.
THEOREM ReviewTypeCorrect == ReviewSpec => []ReviewTypeOK
<1>1. ReviewInv => ReviewTypeOK
  BY DEF ReviewInv
<1> QED BY ReviewInvInit, ReviewInvStep, <1>1, PTL DEF ReviewSpec

-----------------------------------------------------------------------------
(* TransactionReview                                                       *)

\* Of what is approved, the bytes' own transfers were looked at: where there are
\* any the claims are not.
Judgements ==
  [offer : {"open", "judged"}, tx : Transactions, claims : Claims,
   decoded : BOOLEAN, approved : BOOLEAN]

PolicyInv ==
  /\ judged \in Judgements \cup {Nothing}
  /\ judged.offer = "open" => ~judged.approved
  /\ ApprovedWithinPolicy

LEMMA PolicyInvInit == PolicyInit => PolicyInv
  BY DEF PolicyInit, PolicyInv, ApprovedWithinPolicy, Judged, Nothing

LEMMA PolicyInvStep == PolicyInv /\ [PolicyNext]_policyVars => PolicyInv'
<1> SUFFICES ASSUME PolicyInv, [PolicyNext]_policyVars PROVE PolicyInv'
  OBVIOUS
<1>1. ASSUME UNCHANGED judged PROVE PolicyInv'
  BY <1>1 DEF PolicyInv, ApprovedWithinPolicy, Judged
<1>2. ASSUME NEW t \in Transactions, NEW c \in Claims, NEW decoded \in BOOLEAN,
             ReviewOffer(t, c, decoded)
      PROVE  PolicyInv'
  BY <1>2 DEF ReviewOffer, PolicyInv, ApprovedWithinPolicy, Judged, Judgements
\* What the rules see of a decoded transfer is its own list, unless that is empty.
<1>3. ASSUME Evaluate PROVE PolicyInv'
  <2> DEFINE seen  == IF judged.decoded THEN Overlaid(judged.claims, judged.tx)
                      ELSE judged.claims
             grant == /\ AmountsAllowed(seen) /\ RecipientsAllowed(seen)
                      /\ TypeAllowed(seen) /\ Cardinality(Recent) < MaxPerHour
  <2>1. /\ judged.offer = "open"
        /\ judged' = [judged EXCEPT !.offer = "judged", !.approved = grant]
    BY <1>3 DEF Evaluate
  <2>2. judged \in Judgements
    BY <2>1 DEF PolicyInv, Nothing
  <2>3. ASSUME grant, judged.decoded, NEW m \in judged.tx.transfers
        PROVE  m.amount <= MaxHbar /\ m.account \in Allowed
    <3>1. seen.transfers = judged.tx.transfers
      BY <2>3 DEF Overlaid
    <3> QED BY <2>3, <3>1 DEF AmountsAllowed, RecipientsAllowed
  <2>4. grant \in BOOLEAN
    BY DEF AmountsAllowed, RecipientsAllowed, TypeAllowed
  <2> HIDE DEF grant
  <2>5. judged' \in Judgements /\ judged'.offer = "judged"
        /\ judged'.approved = grant /\ judged'.decoded = judged.decoded
        /\ judged'.tx = judged.tx
    BY <2>1, <2>2, <2>4 DEF Judgements
  <2>6. ApprovedWithinPolicy'
    BY <2>3, <2>5 DEF ApprovedWithinPolicy, Judged
  <2> QED
    BY <2>5, <2>6 DEF PolicyInv
<1>4. ASSUME Answer PROVE PolicyInv'
  BY <1>4 DEF Answer, PolicyInv, ApprovedWithinPolicy, Judged, Nothing
<1>5. ASSUME PolicyTick \/ UNCHANGED policyVars PROVE UNCHANGED judged
  BY <1>5 DEF PolicyTick, policyVars
<1> QED
  BY <1>1, <1>2, <1>3, <1>4, <1>5 DEF PolicyNext

\* Whatever the coordinator claims, HBAR goes in an approved transaction only to
\* allowed accounts and within the limit, if its bytes could be decoded.
THEOREM ApprovedWithinPolicyAlways == PolicySpec => []ApprovedWithinPolicy
<1>1. PolicyInv => ApprovedWithinPolicy
  BY DEF PolicyInv
<1> QED BY PolicyInvInit, PolicyInvStep, <1>1, PTL DEF PolicySpec

-----------------------------------------------------------------------------
(* The rate limit.  Every approval counted is a timestamp still remembered, and  *)
(* of those there are never more than the limit says.                            *)

RateInv ==
  /\ IsFiniteSet(stamps) /\ stamps \subseteq Stamps
  /\ approvals \subseteq Recent
  /\ Cardinality(Recent) <= MaxPerHour

\* A new timestamp is told apart from all that are remembered: of the numbers
\* 0..n one is free when there are only n.
LEMMA NowIsNew ==
  ASSUME IsFiniteSet(stamps), approvals \subseteq stamps
  PROVE  Now \in Stamps /\ Now \notin stamps /\ Now.age = 0
<1> DEFINE n    == Cardinality(stamps \cup approvals)
           Used == {s \in stamps : s.no \in 0..n}
           f    == [s \in Used |-> s.no]
<1>1. stamps \cup approvals = stamps
  OBVIOUS
<1>2. n \in Nat /\ n = Cardinality(stamps)
  BY <1>1, FS_CardinalityType
<1>3. IsFiniteSet(Used) /\ Cardinality(Used) <= n
  BY <1>2, FS_Subset
<1>4. Cardinality(Used) \in Nat
  BY <1>3, FS_CardinalityType
<1>5. IsFiniteSet(0..n) /\ Cardinality(0..n) = n + 1
  BY <1>2, FS_Interval
<1>6. ASSUME \A k \in 0..n : \E s \in stamps : s.no = k
      PROVE  FALSE
  <2>1. f \in [Used -> 0..n]
    OBVIOUS
  <2>2. \A k \in 0..n : \E s \in Used : f[s] = k
    BY <1>6
  <2>3. f \in Surjection(Used, 0..n)
    BY <2>1, <2>2 DEF Surjection
  <2>4. Cardinality(0..n) <= Cardinality(Used)
    BY <1>3, <2>3, FS_Surjection
  <2> QED BY <1>2, <1>3, <1>4, <1>5, <2>4
<1>7. \E k \in 0..n : \A s \in stamps \cup approvals : s.no # k
  BY <1>1, <1>6
<1> DEFINE k0 == CHOOSE k \in 0..n : \A s \in stamps \cup approvals : s.no # k
<1>8. k0 \in 0..n /\ \A s \in stamps \cup approvals : s.no # k0
  BY <1>7
<1>9. Now = [no |-> k0, age |-> 0]
  BY DEF Now
<1> HIDE DEF k0, n
<1>10. k0 \in Nat
  BY <1>2, <1>8
<1>11. 0 \in 0..Hour
  BY PolicyAssumption
<1> QED BY <1>8, <1>9, <1>10, <1>11 DEF Stamps

\* Ageing makes no timestamp of two, and what is recent after it was so before.
LEMMA RecentAges ==
  ASSUME IsFiniteSet(stamps), stamps \subseteq Stamps, PolicyTick
  PROVE  /\ IsFiniteSet(stamps') /\ stamps' \subseteq Stamps
         /\ IsFiniteSet(Recent') /\ Cardinality(Recent') <= Cardinality(Recent)
<1> DEFINE Young     == {q \in stamps : q.age < Hour}
           Older(s)  == [s EXCEPT !.age = @ + 1]
           f         == [s \in Young |-> Older(s)]
           Still     == {s \in Young : Older(s) \in Recent'}
           g         == [s \in Still |-> Older(s)]
<1>1. stamps' = {Older(s) : s \in Young}
  BY DEF PolicyTick, Aged
<1>2. IsFiniteSet(Young)
  BY FS_Subset
<1>3. f \in Surjection(Young, stamps')
  BY <1>1 DEF Surjection
<1>4. IsFiniteSet(stamps')
  BY <1>2, <1>3, FS_Surjection
<1>5. ASSUME NEW s \in Young
      PROVE  Older(s) \in Stamps
  <2>1. s \in Stamps /\ s.age < Hour
    OBVIOUS
  <2>2. s.age + 1 \in 0..Hour
    BY <2>1, PolicyAssumption DEF Stamps
  <2> QED BY <2>1, <2>2 DEF Stamps
<1>6. stamps' \subseteq Stamps
  BY <1>1, <1>5
<1>7. Young = Recent
  BY DEF Recent
<1>8. Recent' \subseteq stamps'
  BY DEF Recent
<1>9. g \in Surjection(Still, Recent')
  BY <1>1, <1>8 DEF Surjection
<1>10. IsFiniteSet(Still) /\ Cardinality(Still) <= Cardinality(Young)
  BY <1>2, FS_Subset
<1>11. IsFiniteSet(Recent') /\ Cardinality(Recent') <= Cardinality(Still)
  BY <1>9, <1>10, FS_Surjection
<1>12. /\ Cardinality(Recent') \in Nat /\ Cardinality(Still) \in Nat
       /\ Cardinality(Young) \in Nat
  BY <1>2, <1>10, <1>11, FS_CardinalityType
<1>13. Cardinality(Recent') <= Cardinality(Young)
  BY <1>10, <1>11, <1>12
<1> QED BY <1>4, <1>6, <1>7, <1>11, <1>13

LEMMA RateInvStep == RateInv /\ [PolicyNext]_policyVars => RateInv'
<1> SUFFICES ASSUME RateInv, [PolicyNext]_policyVars PROVE RateInv'
  OBVIOUS
<1>a. /\ IsFiniteSet(stamps) /\ stamps \subseteq Stamps
      /\ approvals \subseteq Recent /\ Cardinality(Recent) <= MaxPerHour
  BY DEF RateInv
<1>b. Recent \subseteq stamps /\ IsFiniteSet(Recent) /\ Cardinality(Recent) \in Nat
  <2>1. Recent \subseteq stamps
    BY DEF Recent
  <2> QED BY <1>a, <2>1, FS_Subset, FS_CardinalityType
<1>c. Hour \in Nat \ {0} /\ MaxPerHour \in Nat
  BY PolicyAssumption
<1>1. ASSUME UNCHANGED <<stamps, approvals>> PROVE RateInv'
  BY <1>1 DEF RateInv, Recent
\* The rule lets a timestamp in only where there is room, and an approval is one.
<1>2. ASSUME Evaluate PROVE RateInv'
  <2> DEFINE room == Cardinality(Recent) < MaxPerHour
  <2>1. /\ stamps' = IF room THEN Recent \cup {Now} ELSE Recent
        /\ \/ approvals' = approvals
           \/ room /\ approvals' = approvals \cup {Now}
    BY <1>2 DEF Evaluate
  <2>2. Now \in Stamps /\ Now \notin stamps /\ Now.age = 0
    BY <1>a, <1>b, NowIsNew
  <2>3. CASE ~room
    <3>1. stamps' = Recent /\ approvals' = approvals
      BY <2>1, <2>3
    <3>2. Recent' = Recent
      BY <3>1 DEF Recent
    <3> QED BY <1>a, <1>b, <3>1, <3>2 DEF RateInv
  <2>4. CASE room
    <3>1. stamps' = Recent \cup {Now} /\ approvals' \subseteq approvals \cup {Now}
      BY <2>1, <2>4
    <3>2. Recent' = Recent \cup {Now}
      BY <1>c, <2>2, <3>1 DEF Recent
    <3>3. /\ IsFiniteSet(Recent \cup {Now})
          /\ Cardinality(Recent \cup {Now}) = Cardinality(Recent) + 1
      BY <1>b, <2>2, FS_AddElement
    <3>4. Cardinality(Recent \cup {Now}) <= MaxPerHour
      BY <1>b, <1>c, <2>4, <3>3
    <3> QED BY <1>a, <1>b, <2>2, <3>1, <3>2, <3>3, <3>4 DEF RateInv
  <2> QED BY <2>3, <2>4
\* The approvals age with the timestamps they are, and go no later.
<1>3. ASSUME PolicyTick PROVE RateInv'
  <2>1. /\ IsFiniteSet(stamps') /\ stamps' \subseteq Stamps
        /\ IsFiniteSet(Recent') /\ Cardinality(Recent') <= Cardinality(Recent)
    BY <1>3, <1>a, RecentAges
  <2>2. Cardinality(Recent') <= MaxPerHour
    BY <1>a, <1>b, <1>c, <2>1, FS_CardinalityType
  <2>3. ASSUME NEW x \in approvals' PROVE x \in Recent'
    <3>1. PICK s \in approvals : s.age < Hour - 1 /\ x = [s EXCEPT !.age = @ + 1]
      BY <1>3 DEF PolicyTick, Aged
    <3>2. s \in stamps /\ s \in Stamps
      BY <1>a, <1>b
    <3>3. s.age \in Nat /\ x.age = s.age + 1
      BY <3>1, <3>2, <1>c DEF Stamps
    <3>4. s.age < Hour /\ x.age < Hour
      BY <1>c, <3>1, <3>3
    <3>5. x \in stamps'
      BY <1>3, <3>1, <3>2, <3>4 DEF PolicyTick, Aged
    <3> QED BY <3>4, <3>5 DEF Recent
  <2> QED BY <2>1, <2>2, <2>3 DEF RateInv
<1>4. ASSUME Answer PROVE UNCHANGED <<stamps, approvals>>
  BY <1>4 DEF Answer
<1>5. ASSUME NEW t \in Transactions, NEW c \in Claims, NEW decoded \in BOOLEAN,
             ReviewOffer(t, c, decoded)
      PROVE  UNCHANGED <<stamps, approvals>>
  BY <1>5 DEF ReviewOffer
<1>6. ASSUME UNCHANGED policyVars PROVE UNCHANGED <<stamps, approvals>>
  BY <1>6 DEF policyVars
<1> QED
  BY <1>1, <1>2, <1>3, <1>4, <1>5, <1>6 DEF PolicyNext

LEMMA RateInvInit == PolicyInit => RateInv
<1> SUFFICES ASSUME PolicyInit PROVE RateInv
  OBVIOUS
<1>1. stamps = {} /\ approvals = {} /\ Recent = {}
  BY DEF PolicyInit, Recent
<1> QED BY <1>1, FS_EmptySet, PolicyAssumption DEF RateInv

LEMMA RateIsKept == ASSUME RateInv PROVE ApprovalsPerHour
<1>1. Recent \subseteq stamps /\ IsFiniteSet(stamps)
  BY DEF RateInv, Recent
<1>2. IsFiniteSet(Recent)
  BY <1>1, FS_Subset
<1>3. approvals \subseteq Recent /\ Cardinality(Recent) <= MaxPerHour
  BY DEF RateInv
<1>4. IsFiniteSet(approvals) /\ Cardinality(approvals) <= Cardinality(Recent)
  BY <1>2, <1>3, FS_Subset
<1>5. Cardinality(approvals) \in Nat /\ Cardinality(Recent) \in Nat
  BY <1>2, <1>4, FS_CardinalityType
<1> QED
  BY <1>3, <1>4, <1>5, PolicyAssumption DEF ApprovalsPerHour

\* In no hour are more transactions approved than the limit says, though the
\* rule also counts what was then rejected.
THEOREM ApprovalsPerHourAlways == PolicySpec => []ApprovalsPerHour
  BY RateInvInit, RateInvStep, RateIsKept, PTL DEF PolicySpec

LEMMA PolicyIsTyped == PolicyInv /\ RateInv => PolicyTypeOK
  BY DEF PolicyInv, RateInv, Recent, Judgements, PolicyTypeOK

\* The policy's variables keep their types, for any accounts, amounts and hour.
THEOREM PolicyTypeCorrect == PolicySpec => []PolicyTypeOK
  BY PolicyInvInit, PolicyInvStep, RateInvInit, RateInvStep, PolicyIsTyped, PTL DEF PolicySpec
=============================================================================
