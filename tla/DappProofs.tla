------------------------------ MODULE DappProofs ------------------------------
(* The browser: that the page shows no record of an earlier transaction; that a   *)
(* signature which leaves the page was approved, and no timer connects a client   *)
(* that has hung up; that the coordinator's history is true.  For any number of           *)
(* transactions, polls, connections and messages.                                 *)
EXTENDS MirrorPoll, SessionPage, CoordinatorPage, TLAPS

LEMMA OneMoreFits == ASSUME NEW n \in Nat, NEW m \in 0..n, m < n PROVE m + 1 \in 0..n
  OBVIOUS

-----------------------------------------------------------------------------
(* The mirror poll *)

\* No request is of a run to come; those of the current run are about the target,
\* as are the polls that the timers still start.
RunsApart ==
  /\ reqId \in Nat
  /\ \A f \in requests : f.req \in Nat /\ f.req <= reqId
  /\ target # NoPollTx => \A f \in requests : f.req = reqId => f.tx = target
  /\ preDelay \/ interval => target # NoPollTx

PollInv == RunsApart /\ RecordIsCurrent

LEMMA PollInvInit == PollInit => PollInv
  BY DEF PollInit, PollInv, RunsApart, RecordIsCurrent

\* A request sent now is of the current run and about the target.
LEMMA PollOnceKeepsPollInv ==
  ASSUME PollInv, preDelay \/ interval, PollOnce,
         preDelay' \/ interval' => target # NoPollTx
  PROVE  PollInv'
<1> DEFINE sent == [req |-> reqId, n |-> tries + 1, tx |-> target]
<1>1. requests' = requests \cup {sent} /\ UNCHANGED <<target, reqId, found>>
  BY DEF PollOnce
<1>2. sent.req = reqId /\ sent.tx = target
  OBVIOUS
<1> HIDE DEF sent
<1>3. RunsApart'
  BY <1>1, <1>2 DEF PollInv, RunsApart
<1>4. RecordIsCurrent'
  BY <1>1 DEF PollInv, RecordIsCurrent
<1> QED BY <1>3, <1>4 DEF PollInv

LEMMA PollInvStep == PollInv /\ [PollNext]_pollVars => PollInv'
<1> SUFFICES ASSUME PollInv, [PollNext]_pollVars PROVE PollInv'
  OBVIOUS
<1> USE PollAssumption
\* What is under way is of an earlier run from now on.
<1>1. ASSUME NEW t \in PollTxs, StartPolling(t) PROVE PollInv'
  BY <1>1 DEF StartPolling, PollInv, RunsApart, RecordIsCurrent
<1>2. ASSUME StopPolling PROVE PollInv'
  BY <1>2 DEF StopPolling, TimersCleared, PollInv, RunsApart, RecordIsCurrent
<1>3. ASSUME FirstPoll PROVE PollInv'
  BY <1>3, PollOnceKeepsPollInv DEF FirstPoll, PollInv, RunsApart
<1>4. ASSUME NextPoll PROVE PollInv'
  BY <1>4, PollOnceKeepsPollInv DEF NextPoll, PollInv, RunsApart
\* A record is taken from a request of the current run, which asked for the target.
<1>5. ASSUME NEW f \in Fetches, NEW a \in FetchAnswers, PollAnswered(f, a) PROVE PollInv'
  <2>1. /\ f \in requests /\ requests' = requests \ {f}
        /\ UNCHANGED <<target, reqId>>
        /\ preDelay' \/ interval' => preDelay \/ interval
        /\ found' = found \/ (f.req = reqId /\ found' = f.tx)
    BY <1>5 DEF PollAnswered, TimersCleared, Current
  <2>2. RunsApart'
    BY <2>1 DEF PollInv, RunsApart
  <2>3. RecordIsCurrent'
    BY <2>1 DEF PollInv, RunsApart, RecordIsCurrent
  <2> QED BY <2>2, <2>3 DEF PollInv
<1>6. ASSUME UNCHANGED pollVars PROVE PollInv'
  BY <1>6 DEF pollVars, PollInv, RunsApart, RecordIsCurrent
<1> QED
  BY <1>1, <1>2, <1>3, <1>4, <1>5, <1>6 DEF PollNext

\* While the page polls for a transaction, the record it shows is that one's.
THEOREM RecordIsCurrentAlways == PollSpec => []RecordIsCurrent
<1>1. PollInv => RecordIsCurrent
  BY DEF PollInv
<1> QED BY PollInvInit, PollInvStep, <1>1, PTL DEF PollSpec

-----------------------------------------------------------------------------
(* The poll's types *)

\* A run that has yet to poll has made no try, and what is polled for has a run.
PollTypes ==
  /\ PollTypeOK
  /\ preDelay \/ interval => target # NoPollTx
  /\ target # NoPollTx => reqId # 0
  /\ preDelay => tries = 0 /\ ~interval

LEMMA PollNumbers ==
  /\ PollLimit + MaxLate \in Nat /\ MaxRuns \in Nat
  /\ 0 < PollLimit + MaxLate
  BY PollAssumption

LEMMA PollTypesInit == PollInit => PollTypes
<1>1. 0 \in 0..MaxRuns /\ 0 \in 0..(PollLimit + MaxLate)
  BY PollNumbers
<1> QED BY <1>1 DEF PollInit, PollTypes, PollTypeOK, PollPhases

\* One more try fits, and its request is one of the fetches.
LEMMA PollOnceTyped ==
  ASSUME PollTypes, preDelay \/ interval, tries < PollLimit + MaxLate, PollOnce
  PROVE  /\ tries' \in 0..(PollLimit + MaxLate) /\ requests' \subseteq Fetches
         /\ pollPhase' \in PollPhases
<1>1. /\ tries \in 0..(PollLimit + MaxLate) /\ reqId \in 0..MaxRuns /\ reqId # 0
      /\ target \in PollTxs /\ requests \subseteq Fetches
  BY DEF PollTypes, PollTypeOK
<1>2. tries + 1 \in 1..(PollLimit + MaxLate) /\ tries + 1 \in 0..(PollLimit + MaxLate)
  BY <1>1, PollNumbers
<1>3. reqId \in 1..MaxRuns
  BY <1>1, PollNumbers
<1>4. [req |-> reqId, n |-> tries + 1, tx |-> target] \in Fetches
  BY <1>1, <1>2, <1>3 DEF Fetches
<1> QED BY <1>1, <1>2, <1>4 DEF PollOnce, PollPhases

LEMMA PollTypesStep == PollTypes /\ [PollNext]_pollVars => PollTypes'
<1> SUFFICES ASSUME PollTypes, [PollNext]_pollVars PROVE PollTypes'
  OBVIOUS
<1>1. ASSUME NEW t \in PollTxs, StartPolling(t) PROVE PollTypes'
  <2>1. reqId \in 0..MaxRuns /\ reqId < MaxRuns
    BY <1>1 DEF StartPolling, PollTypes, PollTypeOK
  <2>2. reqId + 1 \in 0..MaxRuns /\ reqId + 1 # 0
    BY <2>1, PollNumbers
  <2>3. 0 \in 0..(PollLimit + MaxLate) /\ t # NoPollTx
    BY PollNumbers, PollAssumption
  <2>4. reqId' \in 0..MaxRuns /\ reqId' # 0
    BY <1>1, <2>2 DEF StartPolling
  <2> QED BY <1>1, <2>3, <2>4 DEF StartPolling, PollTypes, PollTypeOK, PollPhases
<1>2. ASSUME StopPolling PROVE PollTypes'
  BY <1>2 DEF StopPolling, TimersCleared, PollTypes, PollTypeOK, PollPhases
<1>3. ASSUME FirstPoll PROVE PollTypes'
  <2>1. tries < PollLimit + MaxLate
    BY <1>3, PollNumbers DEF FirstPoll, PollTypes
  <2>2. PollOnce /\ preDelay' = FALSE /\ interval' = TRUE /\ preDelay
    BY <1>3 DEF FirstPoll
  <2>3. /\ tries' \in 0..(PollLimit + MaxLate) /\ requests' \subseteq Fetches
        /\ pollPhase' \in PollPhases
    BY <2>1, <2>2, PollOnceTyped
  <2> QED BY <2>2, <2>3 DEF PollOnce, PollTypes, PollTypeOK
<1>4. ASSUME NextPoll PROVE PollTypes'
  <2>1. PollOnce /\ UNCHANGED <<preDelay, interval>> /\ interval /\ tries < PollLimit + MaxLate
    BY <1>4 DEF NextPoll
  <2>2. /\ tries' \in 0..(PollLimit + MaxLate) /\ requests' \subseteq Fetches
        /\ pollPhase' \in PollPhases
    BY <2>1, PollOnceTyped
  <2>3. ~preDelay
    BY <2>1 DEF PollTypes
  <2> QED BY <2>1, <2>2, <2>3 DEF PollOnce, PollTypes, PollTypeOK
<1>5. ASSUME NEW f \in Fetches, NEW a \in FetchAnswers, PollAnswered(f, a) PROVE PollTypes'
  <2>1. f.tx \in PollTxs
    BY DEF Fetches
  <2>2. /\ requests' \subseteq requests /\ UNCHANGED <<target, reqId, tries>>
        /\ pollPhase' \in {pollPhase, "confirmed", "timed-out"} /\ found' \in {found, f.tx}
        /\ UNCHANGED <<preDelay, interval>> \/ (preDelay' = FALSE /\ interval' = FALSE)
    BY <1>5 DEF PollAnswered, TimersCleared
  <2>3. /\ requests' \subseteq Fetches /\ pollPhase' \in PollPhases
        /\ found' \in PollTxs \cup {NoPollTx}
    BY <2>1, <2>2 DEF PollTypes, PollTypeOK, PollPhases
  <2>4. preDelay' \in BOOLEAN /\ interval' \in BOOLEAN
    BY <2>2 DEF PollTypes, PollTypeOK
  <2>5. preDelay' => preDelay /\ (interval' => interval)
    BY <2>2
  <2>6. interval' => interval
    BY <2>2
  <2>7. PollTypeOK'
    BY <2>2, <2>3, <2>4 DEF PollTypes, PollTypeOK
  <2> QED BY <2>2, <2>5, <2>6, <2>7 DEF PollTypes
<1>6. ASSUME UNCHANGED pollVars PROVE PollTypes'
  BY <1>6 DEF pollVars, PollTypes, PollTypeOK
<1> QED
  BY <1>1, <1>2, <1>3, <1>4, <1>5, <1>6 DEF PollNext

\* The poll's types, of which the number of tries is the one that takes a reason:
\* the first poll of a run has none behind it.
THEOREM PollTypeCorrect == PollSpec => []PollTypeOK
<1>1. PollTypes => PollTypeOK
  BY DEF PollTypes
<1> QED BY PollTypesInit, PollTypesStep, <1>1, PTL DEF PollSpec

-----------------------------------------------------------------------------
(* What leaves the page *)

\* The wallet is asked for nothing but the schedule and what was approved.
ApprovedInv ==
  /\ wallet \cap PageTxs \subseteq approvedTxs
  /\ SubmittedWasApproved

LEMMA ApprovedInvInit == PageInit => ApprovedInv
  BY DEF PageInit, ApprovedInv, SubmittedWasApproved

LEMMA ApprovedInvStep == ApprovedInv /\ [PageNext]_pageVars => ApprovedInv'
<1> SUFFICES ASSUME ApprovedInv, [PageNext]_pageVars PROVE ApprovedInv'
  OBVIOUS
<1> USE PageAssumption DEF ApprovedInv, SubmittedWasApproved
<1>1. ASSUME PressApprove PROVE ApprovedInv'
  BY <1>1 DEF PressApprove
<1>2. ASSUME NEW t \in PageTxs, WalletSigns(t) PROVE ApprovedInv'
  BY <1>2 DEF WalletSigns, SubmittedFor
<1>3. ASSUME NEW t \in PageTxs \cup {ScheduleSign}, WalletFails(t) PROVE ApprovedInv'
  BY <1>3 DEF WalletFails
<1>4. ASSUME ScheduleSigned PROVE ApprovedInv'
  BY <1>4 DEF ScheduleSigned
<1>5. ASSUME LeavePage PROVE ApprovedInv'
  BY <1>5 DEF LeavePage
\* The rest has no hand in what is approved, signed or sent.
<1>6. ASSUME UNCHANGED hands PROVE ApprovedInv'
  BY <1>6 DEF hands
<1>7. ASSUME \/ LoadSession \/ JoinByItself \/ SocketOpens \/ SocketFails \/ SocketLost
             \/ AuthRefused \/ AuthAccepted \/ Reconnects \/ ReplacedFails \/ ClosingFails
      PROVE UNCHANGED hands
  BY <1>7 DEF LoadSession, JoinByItself, SocketOpens, SocketFails, SocketLost, AuthRefused,
       AuthAccepted, Reconnects, ReplacedFails, ClosingFails, hands
<1>8. ASSUME \/ TakeOffOffer \/ AnnounceToPage \/ ExpirePageSession
             \/ ReceivesOffer \/ LearnsOffOffer \/ ReceivesSchedule \/ LearnsExecuted
             \/ LearnsSessionOver \/ PressDisconnect
             \/ \E t \in PageTxs : OfferPageTx(t) \/ ExecuteOffer(t)
      PROVE UNCHANGED hands
  BY <1>8 DEF TakeOffOffer, AnnounceToPage, ExpirePageSession, ReceivesOffer, LearnsOffOffer,
       ReceivesSchedule, LearnsExecuted, LearnsSessionOver, PressDisconnect, OfferPageTx,
       ExecuteOffer, hands
<1>9. ASSUME \/ FollowHook \/ ViewDecoded \/ PressReject \/ ClearSigned \/ PageCountdownEnds
      PROVE UNCHANGED hands
  BY <1>9 DEF FollowHook, ViewDecoded, PressReject, ClearSigned, PageCountdownEnds, hands
<1>10. ASSUME UNCHANGED pageVars PROVE UNCHANGED hands
  BY <1>10 DEF pageVars, hands
<1> QED
  BY <1>1, <1>2, <1>3, <1>4, <1>5, <1>6, <1>7, <1>8, <1>9, <1>10 DEF PageNext

\* A signature that leaves the page is of a transaction for which its person
\* pressed Approve, whatever the page has gone on to since.
THEOREM SubmittedWasApprovedAlways == PageSpec => []SubmittedWasApproved
<1>1. ApprovedInv => SubmittedWasApproved
  BY DEF ApprovedInv
<1> QED BY ApprovedInvInit, ApprovedInvStep, <1>1, PTL DEF PageSpec

-----------------------------------------------------------------------------
(* Hanging up *)

\* A client that has hung up has no timer set, whichever socket fails afterwards.
LineInv == Hung => ~retry

\* What HungUpForGood says of a step.
OnlyThePage == Hung /\ ~Hung' => pageStep = "wallet-connect" /\ own'

LEMMA LineInvInit == PageInit => LineInv
  BY DEF PageInit, LineInv, Hung

\* The client's own steps.
LEMMA BrowserKeepsLineInv ==
  ASSUME LineInv,
         \/ LoadSession \/ JoinByItself \/ SocketOpens \/ SocketFails \/ SocketLost
         \/ AuthRefused \/ AuthAccepted \/ Reconnects \/ ReplacedFails \/ ClosingFails
  PROVE  LineInv' /\ OnlyThePage
<1> USE DEF LineInv, OnlyThePage, Hung
<1>1. CASE LoadSession
  BY <1>1 DEF LoadSession, browser
<1>2. CASE JoinByItself
  BY <1>2 DEF JoinByItself, OpenSocket, browser
<1>3. CASE SocketOpens
  BY <1>3 DEF SocketOpens
<1>4. CASE SocketFails \/ SocketLost
  BY <1>4 DEF SocketFails, SocketLost, PageLineLost
<1>5. CASE AuthRefused \/ AuthAccepted
  BY <1>5 DEF AuthRefused, AuthAccepted
\* No timer is up that hanging up has cleared.
<1>6. CASE Reconnects
  BY <1>6 DEF Reconnects, OpenSocket
\* The failure of a replaced socket sets none once the client has hung up.
<1>7. CASE ReplacedFails
  BY <1>7 DEF ReplacedFails
<1>8. CASE ClosingFails
  BY <1>8 DEF ClosingFails
<1> QED BY <1>1, <1>2, <1>3, <1>4, <1>5, <1>6, <1>7, <1>8

\* What is left: hanging up, and the steps that leave the client alone.
LEMMA OthersKeepLineInv ==
  ASSUME LineInv,
         \/ TakeOffOffer \/ AnnounceToPage \/ ExpirePageSession
         \/ \E t \in PageTxs : OfferPageTx(t) \/ ExecuteOffer(t) \/ WalletSigns(t)
         \/ ReceivesOffer \/ LearnsOffOffer \/ ReceivesSchedule \/ LearnsExecuted
         \/ LearnsSessionOver
         \/ FollowHook \/ ViewDecoded \/ PressApprove \/ ScheduleSigned \/ PressReject
         \/ ClearSigned \/ PageCountdownEnds \/ PressDisconnect \/ LeavePage
         \/ \E t \in PageTxs \cup {ScheduleSign} : WalletFails(t)
  PROVE  LineInv' /\ OnlyThePage
<1> USE DEF LineInv, OnlyThePage, Hung
<1>1. CASE LearnsSessionOver \/ PressDisconnect
  <2>1. HangUp
    BY <1>1 DEF LearnsSessionOver, PressDisconnect
  <2> QED BY <2>1 DEF HangUp, SocketCloses
<1>2. CASE LeavePage
  BY <1>2 DEF LeavePage
<1>3. CASE ~(LearnsSessionOver \/ PressDisconnect \/ LeavePage)
  <2>1. UNCHANGED browser
    BY <1>3 DEF TakeOffOffer, AnnounceToPage, ExpirePageSession, OfferPageTx, ExecuteOffer,
       ReceivesOffer, LearnsOffOffer, ReceivesSchedule, LearnsExecuted,
       FollowHook, ViewDecoded, PressApprove, ScheduleSigned, PressReject, ClearSigned,
       PageCountdownEnds, WalletSigns, WalletFails
  <2> QED BY <2>1 DEF browser
<1> QED BY <1>1, <1>2, <1>3

LEMMA LineInvStep == LineInv /\ [PageNext]_pageVars => LineInv' /\ OnlyThePage
<1> SUFFICES ASSUME LineInv, [PageNext]_pageVars PROVE LineInv' /\ OnlyThePage
  OBVIOUS
<1>1. CASE UNCHANGED pageVars
  BY <1>1 DEF LineInv, OnlyThePage, Hung, pageVars, browser
<1> QED
  BY <1>1, BrowserKeepsLineInv, OthersKeepLineInv DEF PageNext

\* Once the client has hung up, no timer, message or button connects it: only the
\* page does, from wallet-connect, where a rejected connect has put it back.
THEOREM HungUpForGoodAlways == PageSpec => HungUpForGood
<1>1. LineInv /\ [PageNext]_pageVars
        => [Hung /\ ~Hung' => pageStep = "wallet-connect" /\ own']_pageVars
  BY LineInvStep DEF OnlyThePage
<1> QED BY LineInvInit, LineInvStep, <1>1, PTL DEF PageSpec, HungUpForGood

-----------------------------------------------------------------------------
(* The page's types *)

PageNews == [type : {"TRANSACTION_RECEIVED", "SCHEDULE_CREATED", "TRANSACTION_EXECUTED",
                     "TRANSACTION_EXPIRED", "TRANSACTION_REJECTED", "SESSION_EXPIRED"},
             tx : PageTxs \cup {NoPageTx}]

\* The types in the groups in which the actions leave them alone: the screen, the
\* hook, the client, the wallet, the server; and what is under way.
ScreenOK == pageStep \in PageSteps /\ view \in {"none", "loading", "shown", "unreadable"}
HookOK ==
  /\ pageStatus \in PageStatuses /\ slot \in PageTxs \cup {NoPageTx}
  /\ {planned, inSession} \subseteq BOOLEAN
BrowserOK ==
  /\ pageLine \in PageLines
  /\ {joining, own, behind, reconnecting, retry, reach} \subseteq BOOLEAN
  /\ joins \in 0..MaxTries /\ reattempts \in 0..MaxReconnects /\ breaks \in 0..MaxBreaks
HandsOK ==
  /\ wallet \subseteq PageTxs \cup {ScheduleSign}
  /\ {approvedTxs, submittedTxs} \subseteq SUBSET PageTxs
OffersOK ==
  onOffer \in PageTxs \cup {NoPageTx} /\ injectedTxs \subseteq PageTxs /\ announced \in BOOLEAN
NewsOK == pageIn \in Seq(PageNews)

PageTypes == ScreenOK /\ HookOK /\ BrowserOK /\ HandsOK /\ OffersOK /\ NewsOK

LEMMA PageNumbers == MaxTries \in Nat /\ MaxReconnects \in Nat /\ MaxBreaks \in Nat
  BY PageAssumption

LEMMA NoNews == <<>> \in Seq(PageNews)
  OBVIOUS

LEMMA PageTypesInit == PageInit => PageTypes
<1> SUFFICES ASSUME PageInit PROVE PageTypes
  OBVIOUS
<1> USE DEF PageInit
<1>1. 0 \in 0..MaxTries /\ 0 \in 0..MaxReconnects /\ 0 \in 0..MaxBreaks
  BY PageNumbers
<1>2. BrowserOK
  BY <1>1 DEF BrowserOK, PageLines
<1>3. ScreenOK /\ HookOK /\ HandsOK /\ OffersOK /\ NewsOK
  BY NoNews DEF ScreenOK, PageSteps, HookOK, PageStatuses, HandsOK, OffersOK, NewsOK
<1> QED BY <1>2, <1>3 DEF PageTypes

\* The review is shown, or its transaction is being decoded, or it is not there.
LEMMA RenderTyped ==
  ASSUME view \in {"none", "loading", "shown", "unreadable"}, Render
  PROVE  view' \in {"none", "loading", "shown", "unreadable"}
  BY DEF Render

LEMMA SendsNews ==
  ASSUME NewsOK, NEW m \in PageNews, pageIn' \in {pageIn, Append(pageIn, m), <<>>}
  PROVE  NewsOK'
<1>1. Append(pageIn, m) \in Seq(PageNews) /\ <<>> \in Seq(PageNews)
  BY DEF NewsOK
<1> QED BY <1>1 DEF NewsOK

\* The client's steps.
LEMMA ClientTyped ==
  ASSUME PageTypes,
         \/ LoadSession \/ JoinByItself \/ SocketOpens \/ SocketFails \/ SocketLost
         \/ AuthRefused \/ AuthAccepted \/ Reconnects \/ ReplacedFails \/ ClosingFails
  PROVE  PageTypes'
<1>1. UNCHANGED <<hands, offers>>
  BY DEF LoadSession, JoinByItself, SocketOpens, SocketFails, SocketLost, AuthRefused,
     AuthAccepted, Reconnects, ReplacedFails, ClosingFails
<1>2. HandsOK' /\ OffersOK'
  BY <1>1 DEF PageTypes, HandsOK, OffersOK, hands, offers
<1>3. ScreenOK'
  <2>1. pageStep' \in {pageStep, "wallet-connect", "error", "session-connect", "waiting",
                        "ready", "reviewing"}
    BY DEF LoadSession, JoinByItself, Rejoined, SocketOpens, SocketFails, SocketLost,
       AuthRefused, AuthAccepted, Reconnects, ReplacedFails, ClosingFails, OwnConnectFails, screen
  <2>2. view' = view \/ Render
    BY DEF LoadSession, JoinByItself, SocketOpens, SocketFails, SocketLost, AuthRefused,
       AuthAccepted, Reconnects, ReplacedFails, ClosingFails, screen
  <2> QED BY <2>1, <2>2, RenderTyped DEF PageTypes, ScreenOK, PageSteps
<1>4. HookOK'
  <2>1. /\ pageStatus' \in {pageStatus, "disconnected", "ready", "reviewing", "connected"}
        /\ slot' = slot /\ planned' \in {planned, announced}
        /\ inSession' \in {inSession, TRUE, FALSE}
    BY DEF LoadSession, JoinByItself, SocketOpens, SocketFails, SocketLost, AuthRefused,
       AuthAccepted, Reconnects, ReplacedFails, ClosingFails, PageLineLost, LineLost,
       OwnConnectFails, hook
  <2> QED BY <2>1 DEF PageTypes, HookOK, OffersOK, PageStatuses
<1>5. NewsOK'
  <2>1. CASE AuthAccepted
    <3>1. pageIn' = pageIn
            \/ (onOffer # NoPageTx
                 /\ pageIn' = Append(pageIn, PageMsg("TRANSACTION_RECEIVED", onOffer)))
      BY <2>1 DEF AuthAccepted
    <3>2. PageMsg("TRANSACTION_RECEIVED", onOffer) \in PageNews
      BY DEF PageTypes, OffersOK, PageMsg, PageNews
    <3> QED BY <3>1, <3>2, SendsNews DEF PageTypes
  <2>2. CASE SocketLost
    <3>1. pageIn' \in {pageIn, <<>>}
      BY <2>2 DEF SocketLost, LineGone
    <3> QED BY <3>1, NoNews DEF PageTypes, NewsOK
  <2>3. CASE \/ LoadSession \/ JoinByItself \/ SocketOpens \/ SocketFails
             \/ AuthRefused \/ Reconnects \/ ReplacedFails \/ ClosingFails
    <3>1. pageIn' = pageIn
      BY <2>3 DEF LoadSession, JoinByItself, SocketOpens, SocketFails, AuthRefused, Reconnects,
         ReplacedFails, ClosingFails
    <3> QED BY <3>1 DEF PageTypes, NewsOK
  <2> QED BY <2>1, <2>2, <2>3
<1>6. BrowserOK'
  <2>1. BrowserOK
    BY DEF PageTypes
  <2>2. breaks < MaxBreaks => breaks + 1 \in 0..MaxBreaks
    BY <2>1, PageNumbers, OneMoreFits DEF BrowserOK
  <2>3. reattempts < MaxReconnects => reattempts + 1 \in 0..MaxReconnects
    BY <2>1, PageNumbers, OneMoreFits DEF BrowserOK
  <2>4. 0 \in 0..MaxReconnects
    BY PageNumbers
  <2>5. CASE JoinByItself
    <3>1. CASE joins >= MaxTries
      BY <2>1, <2>5, <3>1 DEF JoinByItself, browser, BrowserOK
    <3>2. CASE ~(joins >= MaxTries)
      <4>1. joins + 1 \in 0..MaxTries
        BY <2>1, <3>2, PageNumbers, OneMoreFits DEF BrowserOK
      <4>2. /\ joining' = TRUE /\ joins' = joins + 1 /\ pageLine' = "opening" /\ own' = TRUE
            /\ reattempts' \in {reattempts, 0} /\ UNCHANGED <<behind, reconnecting, retry, reach, breaks>>
        BY <2>5, <3>2 DEF JoinByItself, OpenSocket
      <4> QED BY <2>1, <2>4, <4>1, <4>2 DEF BrowserOK, PageLines
    <3> QED BY <3>1, <3>2
  <2>6. CASE SocketOpens
    BY <2>1, <2>4, <2>6 DEF SocketOpens, BrowserOK, PageLines
  <2>7. CASE SocketFails \/ SocketLost
    <3>1. /\ breaks < MaxBreaks /\ breaks' = breaks + 1 /\ own' = FALSE
          /\ UNCHANGED <<joins, behind>> /\ PageLineLost
      BY <2>7 DEF SocketFails, SocketLost
    <3>2. joining' \in {joining, FALSE}
      BY <2>7 DEF SocketFails, SocketLost, OwnConnectFails
    <3>3. reach' = reach \/ reach' = FALSE
      BY <2>1, <2>7 DEF SocketFails, SocketLost, LineGone, BrowserOK
    <3>4. /\ pageLine' = "lost"
          /\ \/ /\ reattempts < MaxReconnects /\ reattempts' = reattempts + 1
                /\ reconnecting' = TRUE /\ retry' = TRUE
             \/ UNCHANGED <<reattempts, reconnecting, retry>>
      BY <3>1 DEF PageLineLost, LineLost
    <3>5. reattempts' \in 0..MaxReconnects /\ breaks' \in 0..MaxBreaks
      BY <2>1, <2>2, <2>3, <3>1, <3>4 DEF BrowserOK
    <3> QED BY <2>1, <3>1, <3>2, <3>3, <3>4, <3>5 DEF BrowserOK, PageLines
  <2>8. CASE AuthRefused
    BY <2>1, <2>2, <2>8 DEF AuthRefused, OwnConnectFails, BrowserOK, PageLines
  <2>9. CASE AuthAccepted
    BY <2>1, <2>9 DEF AuthAccepted, BrowserOK, PageLines
  <2>10. CASE Reconnects
    BY <2>1, <2>4, <2>10 DEF Reconnects, OpenSocket, BrowserOK, PageLines
  <2>11. CASE LoadSession
    BY <2>1, <2>11 DEF LoadSession, browser, BrowserOK
  <2>12. CASE ReplacedFails
    <3>1. /\ UNCHANGED <<joins, pageLine, own, reach, breaks>> /\ behind' = FALSE
          /\ joining' \in {joining, FALSE}
      BY <2>12 DEF ReplacedFails, OwnConnectFails
    <3>2. \/ /\ reattempts < MaxReconnects /\ reattempts' = reattempts + 1
             /\ reconnecting' = TRUE /\ retry' = TRUE
          \/ UNCHANGED <<reattempts, reconnecting, retry>>
      BY <2>12 DEF ReplacedFails, LineLost
    <3>3. reattempts' \in 0..MaxReconnects
      BY <2>1, <2>3, <3>2 DEF BrowserOK
    <3> QED BY <2>1, <3>1, <3>2, <3>3 DEF BrowserOK
  <2>13. CASE ClosingFails
    BY <2>1, <2>13 DEF ClosingFails, OwnConnectFails, BrowserOK, PageLines
  <2> QED BY <2>5, <2>6, <2>7, <2>8, <2>9, <2>10, <2>11, <2>12, <2>13
<1> QED BY <1>2, <1>3, <1>4, <1>5, <1>6 DEF PageTypes

\* Hanging up leaves a client without anything to do.
LEMMA HangUpTyped ==
  ASSUME PageTypes, (HangUp /\ behind' = behind) \/ LeavePage,
         UNCHANGED <<slot, planned, joins, joining, breaks>>
  PROVE  BrowserOK' /\ HookOK' /\ NewsOK'
<1>1. 0 \in 0..MaxReconnects
  BY PageNumbers
<1>2. /\ own' \in {own, FALSE} /\ behind' \in {behind, FALSE}
      /\ pageLine' \in {"closing", "closed"} /\ LineGone
      /\ reconnecting' = FALSE /\ reattempts' = 0 /\ retry' = FALSE
      /\ pageStatus' = "disconnected" /\ inSession' = FALSE
  BY DEF HangUp, SocketCloses, LeavePage
<1>3. reach' \in BOOLEAN /\ pageIn' \in {pageIn, <<>>}
  BY <1>2 DEF LineGone, PageTypes, BrowserOK
<1>4. NewsOK'
  BY <1>3, NoNews DEF PageTypes, NewsOK
<1>5. HookOK'
  BY <1>2 DEF PageTypes, HookOK, PageStatuses
<1>6. BrowserOK'
  BY <1>1, <1>2, <1>3 DEF PageTypes, BrowserOK, PageLines
<1> QED BY <1>4, <1>5, <1>6

\* What the server does and tells.
LEMMA ServerTyped ==
  ASSUME PageTypes,
         \/ TakeOffOffer \/ AnnounceToPage \/ ExpirePageSession
         \/ \E t \in PageTxs : OfferPageTx(t) \/ ExecuteOffer(t)
  PROVE  PageTypes'
<1>1. UNCHANGED <<screen, hook, browser, hands>>
  BY DEF TakeOffOffer, AnnounceToPage, ExpirePageSession, OfferPageTx, ExecuteOffer
<1>2. ScreenOK' /\ HookOK' /\ BrowserOK' /\ HandsOK'
  BY <1>1 DEF PageTypes, ScreenOK, HookOK, BrowserOK, HandsOK, screen, hook, browser, hands
<1>3. OffersOK'
  BY DEF TakeOffOffer, AnnounceToPage, ExpirePageSession, OfferPageTx, ExecuteOffer, PageTypes,
     OffersOK, offers
<1>4. NewsOK'
  <2>1. \E m \in PageNews : pageIn' \in {pageIn, Append(pageIn, m), <<>>}
    <3>1. \/ UNCHANGED pageIn
          \/ \E type \in {"TRANSACTION_RECEIVED", "SCHEDULE_CREATED", "TRANSACTION_EXECUTED",
                     "TRANSACTION_EXPIRED", "TRANSACTION_REJECTED", "SESSION_EXPIRED"},
                t \in PageTxs \cup {NoPageTx} : TellPage(type, t)
      BY DEF TakeOffOffer, AnnounceToPage, ExpirePageSession, OfferPageTx, ExecuteOffer
    <3>2. ASSUME NEW type \in {"TRANSACTION_RECEIVED", "SCHEDULE_CREATED", "TRANSACTION_EXECUTED",
                     "TRANSACTION_EXPIRED", "TRANSACTION_REJECTED", "SESSION_EXPIRED"},
                 NEW t \in PageTxs \cup {NoPageTx}, TellPage(type, t)
          PROVE  \E m \in PageNews : pageIn' \in {pageIn, Append(pageIn, m), <<>>}
      <4>1. PageMsg(type, t) \in PageNews
        BY DEF PageMsg, PageNews
      <4> QED BY <3>2, <4>1 DEF TellPage
    <3>3. PageNews # {}
      <4>1. PageMsg("SESSION_EXPIRED", NoPageTx) \in PageNews
        BY DEF PageMsg, PageNews
      <4> QED BY <4>1
    <3> QED BY <3>1, <3>2, <3>3
  <2> QED BY <2>1, SendsNews DEF PageTypes
<1> QED BY <1>2, <1>3, <1>4 DEF PageTypes

\* What the hook makes of a message.
LEMMA HookTyped ==
  ASSUME PageTypes,
         \/ ReceivesOffer \/ LearnsOffOffer \/ ReceivesSchedule \/ LearnsExecuted
         \/ LearnsSessionOver
  PROVE  PageTypes'
<1>1. UNCHANGED <<hands, offers>>
  BY DEF ReceivesOffer, LearnsOffOffer, ReceivesSchedule, LearnsExecuted, LearnsSessionOver
<1>2. HandsOK' /\ OffersOK'
  BY <1>1 DEF PageTypes, HandsOK, OffersOK, hands, offers
<1>3. ScreenOK'
  <2>1. pageStep' = pageStep /\ (view' = view \/ Render)
    BY DEF ReceivesOffer, LearnsOffOffer, ReceivesSchedule, LearnsExecuted, LearnsSessionOver,
       screen
  <2> QED BY <2>1, RenderTyped DEF PageTypes, ScreenOK
<1>4. CASE LearnsSessionOver
  <2>1. BrowserOK' /\ HookOK' /\ NewsOK'
    BY <1>4, HangUpTyped DEF LearnsSessionOver
  <2> QED BY <1>2, <1>3, <2>1 DEF PageTypes
<1>5. CASE ReceivesOffer \/ LearnsOffOffer \/ ReceivesSchedule \/ LearnsExecuted
  <2>1. /\ pageIn # <<>> /\ pageIn' = Tail(pageIn) /\ UNCHANGED browser
        /\ pageStatus' \in {"reviewing", "ready", "completed"}
        /\ slot' \in {slot, Head(pageIn).tx, NoPageTx} /\ planned' \in {planned, TRUE}
        /\ inSession' = inSession
    BY <1>5 DEF ReceivesOffer, LearnsOffOffer, ReceivesSchedule, LearnsExecuted
  <2>2. Head(pageIn) \in PageNews /\ Tail(pageIn) \in Seq(PageNews)
    BY <2>1 DEF PageTypes, NewsOK
  <2>3. HookOK'
    BY <2>1, <2>2 DEF PageTypes, HookOK, PageStatuses, PageNews
  <2>4. BrowserOK' /\ NewsOK'
    BY <2>1, <2>2 DEF PageTypes, BrowserOK, NewsOK, browser
  <2> QED BY <1>2, <1>3, <2>3, <2>4 DEF PageTypes
<1> QED BY <1>4, <1>5

\* The page and the wallet.
LEMMA HandsTyped ==
  ASSUME PageTypes,
         \/ FollowHook \/ ViewDecoded \/ PressApprove \/ ScheduleSigned \/ PressReject
         \/ ClearSigned \/ PageCountdownEnds \/ PressDisconnect \/ LeavePage
         \/ \E t \in PageTxs : WalletSigns(t)
         \/ \E t \in PageTxs \cup {ScheduleSign} : WalletFails(t)
  PROVE  PageTypes'
<1>1. ScreenOK'
  <2>1. pageStep' \in PageSteps
    BY DEF FollowHook, Followed, Rejoined, ViewDecoded, PressApprove, ScheduleSigned,
       PressReject, ClearSigned, PageCountdownEnds, PressDisconnect, LeavePage, WalletSigns,
       WalletFails, GoTo, PageTypes, ScreenOK, PageSteps, screen
  <2>2. view' \in {view, "none", "shown", "unreadable"} \/ Render
    BY DEF FollowHook, ViewDecoded, PressApprove, ScheduleSigned, PressReject, ClearSigned,
       PageCountdownEnds, PressDisconnect, LeavePage, WalletSigns, WalletFails, GoTo, screen
  <2> QED BY <2>1, <2>2, RenderTyped DEF PageTypes, ScreenOK
<1>2. HandsOK'
  <2>1. CASE PressApprove
    <3>1. planned \/ slot \in PageTxs
      BY <2>1 DEF PressApprove, PageTypes, HookOK
    <3> QED BY <2>1, <3>1 DEF PressApprove, PageTypes, HandsOK
  <2>2. CASE \E t \in PageTxs : WalletSigns(t)
    BY <2>2 DEF WalletSigns, SubmittedFor, PageTypes, HandsOK
  <2>3. CASE ScheduleSigned \/ LeavePage \/ \E t \in PageTxs \cup {ScheduleSign} : WalletFails(t)
    BY <2>3 DEF ScheduleSigned, LeavePage, WalletFails, PageTypes, HandsOK
  <2>4. CASE \/ FollowHook \/ ViewDecoded \/ PressReject \/ ClearSigned \/ PageCountdownEnds
             \/ PressDisconnect
    BY <2>4 DEF FollowHook, ViewDecoded, PressReject, ClearSigned, PageCountdownEnds,
       PressDisconnect, hands, PageTypes, HandsOK
  <2> QED BY <2>1, <2>2, <2>3, <2>4
<1>3. CASE PressDisconnect \/ LeavePage
  <2>1. UNCHANGED <<slot, planned, joins, joining, breaks, offers>>
    BY <1>3 DEF PressDisconnect, LeavePage
  <2>2. (HangUp /\ behind' = behind) \/ LeavePage
    BY <1>3 DEF PressDisconnect
  <2>3. BrowserOK' /\ HookOK' /\ NewsOK'
    BY <2>1, <2>2, HangUpTyped
  <2>4. OffersOK'
    BY <2>1 DEF offers, PageTypes, OffersOK
  <2> QED BY <1>1, <1>2, <2>3, <2>4 DEF PageTypes
<1>4. CASE ~(PressDisconnect \/ LeavePage)
  <2>1. /\ UNCHANGED <<browser, injectedTxs, announced, planned, inSession>>
        /\ pageStatus' \in {pageStatus, "signed", "ready"} /\ slot' \in {slot, NoPageTx}
        /\ onOffer' \in {onOffer, NoPageTx}
        /\ pageIn' \in {pageIn, Append(pageIn, PageMsg("TRANSACTION_REJECTED", NoPageTx))}
    BY <1>4 DEF FollowHook, ViewDecoded, PressApprove, ScheduleSigned, PressReject, ClearSigned,
       PageCountdownEnds, WalletSigns, WalletFails, GoTo, hook, offers
  <2>2. PageMsg("TRANSACTION_REJECTED", NoPageTx) \in PageNews
    BY DEF PageMsg, PageNews
  <2>3. NewsOK'
    BY <2>1, <2>2, SendsNews DEF PageTypes
  <2>4. HookOK' /\ BrowserOK' /\ OffersOK'
    BY <2>1 DEF PageTypes, HookOK, BrowserOK, OffersOK, PageStatuses, browser
  <2> QED BY <1>1, <1>2, <2>3, <2>4 DEF PageTypes
<1> QED BY <1>3, <1>4

LEMMA PageTypesStep == PageTypes /\ [PageNext]_pageVars => PageTypes'
<1> SUFFICES ASSUME PageTypes, [PageNext]_pageVars PROVE PageTypes'
  OBVIOUS
<1>1. CASE UNCHANGED pageVars
  BY <1>1 DEF PageTypes, ScreenOK, HookOK, BrowserOK, HandsOK, OffersOK, NewsOK, pageVars,
     screen, hook, browser, hands, offers
<1> QED BY <1>1, ClientTyped, ServerTyped, HookTyped, HandsTyped DEF PageNext

LEMMA PageTypesGive == PageTypes => PageTypeOK
  BY DEF PageTypes, ScreenOK, HookOK, BrowserOK, HandsOK, OffersOK, PageTypeOK

\* The page's types: its counters stay within their bounds through any sequence of
\* connections, and it is handed nothing to sign but the schedule and transactions.
THEOREM PageTypeCorrect == PageSpec => []PageTypeOK
  BY PageTypesInit, PageTypesStep, PageTypesGive, PTL DEF PageSpec

-----------------------------------------------------------------------------
(* The coordinator's history *)

NewsTypes ==
  {"TRANSACTION_RECEIVED", "SCHEDULE_CREATED", "INJECTION_FAILED", "ERROR",
   "SIGNATURE_RECEIVED", "THRESHOLD_MET", "TRANSACTION_EXECUTED", "EXECUTION_FAILED",
   "TRANSACTION_EXPIRED", "TRANSACTION_REJECTED", "TRANSACTION_RESET", "SESSION_EXPIRED"}

\* What may be told to the coordinator: of executions, only those that took place.
TrueNews(done) ==
  {m \in [type : NewsTypes, tx : CoordTxs \cup {NoCoordTx}] :
     m.type = "TRANSACTION_EXECUTED" => m.tx \in done}

HeldTypes ==
  [tx : CoordTxs \cup {NoCoordTx}, status : MonitorStates, running : CoordTxs \cup {NoCoordTx}]

\* What waits was sent, and the news under way is true.
HistoryInv ==
  /\ awaiting \subseteq sentTxs
  /\ held \in HeldTypes
  /\ coordIn \in Seq(TrueNews(executed))
  /\ history \in [CoordTxs -> {"none", "PENDING", "SUCCESS", "FAILURE"}]
  /\ HistoryTrue

LEMMA HistoryInvInit == CoordInit => HistoryInv
<1> SUFFICES ASSUME CoordInit PROVE HistoryInv
  OBVIOUS
<1>1. coordIn \in Seq(TrueNews(executed))
  BY DEF CoordInit
<1>2. history = [t \in CoordTxs |-> "none"]
  BY DEF CoordInit
<1>3. HistoryTrue
  BY <1>2 DEF HistoryTrue
<1>4. history \in [CoordTxs -> {"none", "PENDING", "SUCCESS", "FAILURE"}]
  BY <1>2
<1>5. held \in HeldTypes
  BY DEF CoordInit, NothingHeld, HeldTypes, MonitorStates
<1> QED BY <1>1, <1>3, <1>4, <1>5 DEF CoordInit, HistoryInv

\* True news stay true when one more is told, and when more is executed.
LEMMA TellKeepsNews ==
  ASSUME NEW type \in NewsTypes, NEW t \in CoordTxs \cup {NoCoordTx}, NEW done,
         coordIn \in Seq(TrueNews(executed)), executed \subseteq done,
         type = "TRANSACTION_EXECUTED" => t \in done,
         TellCoordinator(type, t)
  PROVE  coordIn' \in Seq(TrueNews(done))
<1>1. CoordMsg(type, t) \in TrueNews(done)
  BY DEF CoordMsg, TrueNews
<1>2. TrueNews(executed) \subseteq TrueNews(done)
  BY DEF TrueNews
<1>3. coordIn \in Seq(TrueNews(done))
  BY <1>2
<1> QED BY <1>1, <1>3 DEF TellCoordinator

\* A message that is heard is true, and so are those behind it.
LEMMA HearKeepsNews ==
  ASSUME NEW types, coordIn \in Seq(TrueNews(executed)), Hears(types)
  PROVE  /\ coordIn' \in Seq(TrueNews(executed)) /\ executed' = executed
         /\ Head(coordIn) \in TrueNews(executed)
  BY DEF Hears

\* The steps that touch neither the injections nor what is told.
LEMMA QuietKeepsHistory ==
  ASSUME HistoryInv, UNCHANGED <<awaiting, sentTxs, history, executed>>,
         held' \in HeldTypes, coordIn' \in Seq(TrueNews(executed))
  PROVE  HistoryInv'
  BY DEF HistoryInv, HistoryTrue

LEMMA HeldAsKeepsType ==
  ASSUME held \in HeldTypes, NEW t \in CoordTxs \cup {NoCoordTx}, NEW status \in MonitorStates,
         HeldAs(t, status)
  PROVE  held' \in HeldTypes
  BY DEF HeldAs, HeldTypes

\* The steps of the connection and of the page.
LEMMA PageKeepsHistory ==
  ASSUME HistoryInv,
         \/ PressConnect \/ CoordSocketOpens \/ CoordJoins \/ ConnectFails \/ CoordSocketCloses
         \/ InjectsNothing \/ StartAnother
         \/ \E t \in CoordTxs :
              (\E plan \in BOOLEAN : PressInject(t, plan)) \/ PreparingFails(t) \/ InjectionTimesOut(t)
  PROVE  HistoryInv'
<1>1. /\ UNCHANGED <<sentTxs, history, held, executed>> /\ awaiting' \subseteq awaiting
      /\ coordIn' = coordIn \/ coordIn' = <<>>
  <2>1. CASE \/ PressConnect \/ CoordSocketOpens \/ CoordJoins \/ ConnectFails
             \/ CoordSocketCloses \/ InjectsNothing \/ StartAnother
    BY <2>1 DEF PressConnect, CoordSocketOpens, CoordJoins, ConnectFails, CoordSocketCloses,
         InjectsNothing, StartAnother, injections
  <2>2. CASE \E t \in CoordTxs :
               (\E plan \in BOOLEAN : PressInject(t, plan)) \/ PreparingFails(t) \/ InjectionTimesOut(t)
    <3>1. PICK t \in CoordTxs :
            (\E plan \in BOOLEAN : PressInject(t, plan)) \/ PreparingFails(t) \/ InjectionTimesOut(t)
      BY <2>2
    <3>2. CASE \E plan \in BOOLEAN : PressInject(t, plan)
      BY <3>2 DEF PressInject
    <3>3. CASE PreparingFails(t) \/ InjectionTimesOut(t)
      BY <3>3 DEF PreparingFails, InjectionTimesOut
    <3> QED BY <3>1, <3>2, <3>3
  <2> QED BY <2>1, <2>2
<1>2. <<>> \in Seq(TrueNews(executed))
  OBVIOUS
<1>3. coordIn' \in Seq(TrueNews(executed))
  BY <1>1, <1>2 DEF HistoryInv
<1> QED BY <1>1, <1>3 DEF HistoryInv, HistoryTrue

\* What the server tells.
LEMMA ServerKeepsHistory ==
  ASSUME HistoryInv,
         \/ SignatureComes \/ NetworkExecutes \/ NetworkDeclines \/ ExecutionDeclined
         \/ HeldIsDropped \/ SessionRunsOut \/ PressReset
         \/ \E t \in CoordTxs : AnotherInjects(t)
  PROVE  HistoryInv'
<1> USE DEF NewsTypes, MonitorStates
<1>1. held \in HeldTypes /\ held.tx \in CoordTxs \cup {NoCoordTx}
  BY DEF HistoryInv, HeldTypes
<1>2. CASE NetworkExecutes
  <2>1. /\ TellCoordinator("TRANSACTION_EXECUTED", held.running)
        /\ held' = [held EXCEPT !.status = "completed", !.running = NoCoordTx]
        /\ executed' = executed \cup {held.running} /\ UNCHANGED <<awaiting, sentTxs, history>>
    BY <1>2 DEF NetworkExecutes, ExecutionEnds, injections
  <2>2. held.running \in CoordTxs \cup {NoCoordTx} /\ held' \in HeldTypes
    BY <1>1, <2>1 DEF HeldTypes
  <2>3. coordIn' \in Seq(TrueNews(executed'))
    BY <2>1, <2>2, TellKeepsNews DEF HistoryInv
  <2> QED BY <2>1, <2>2, <2>3 DEF HistoryInv, HistoryTrue
<1>3. CASE \E t \in CoordTxs : AnotherInjects(t)
  <2>1. PICK t \in CoordTxs : AnotherInjects(t)
    BY <1>3
  <2>2. /\ TellCoordinator("TRANSACTION_RECEIVED", t) /\ HeldAs(t, "received")
        /\ sentTxs' = sentTxs \cup {t} /\ UNCHANGED <<awaiting, history, executed>>
    BY <2>1 DEF AnotherInjects
  <2>3. coordIn' \in Seq(TrueNews(executed)) /\ held' \in HeldTypes
    BY <1>1, <2>2, TellKeepsNews, HeldAsKeepsType DEF HistoryInv
  <2> QED BY <2>2, <2>3 DEF HistoryInv, HistoryTrue
<1>4. CASE \/ SignatureComes \/ NetworkDeclines \/ ExecutionDeclined
           \/ HeldIsDropped \/ SessionRunsOut \/ PressReset
  <2>1. /\ \E type \in NewsTypes \ {"TRANSACTION_EXECUTED"} : TellCoordinator(type, NoCoordTx)
        /\ UNCHANGED <<awaiting, sentTxs, history, executed>>
    BY <1>4 DEF SignatureComes, NetworkDeclines, ExecutionDeclined, ExecutionEnds,
         HeldIsDropped, SessionRunsOut, PressReset, injections
  <2>2. coordIn' \in Seq(TrueNews(executed))
    BY <2>1, TellKeepsNews DEF HistoryInv
  <2>3. held' \in HeldTypes
    <3>1. CASE SignatureComes
      BY <1>1, <3>1 DEF SignatureComes, HeldAs, HeldTypes
    <3>2. CASE NetworkDeclines
      <4>1. PICK status \in MonitorStates : ExecutionEnds(status)
        BY <1>1, <3>2 DEF NetworkDeclines, HeldTypes
      <4> QED BY <1>1, <4>1 DEF ExecutionEnds, HeldTypes
    <3>3. CASE ExecutionDeclined \/ SessionRunsOut
      BY <1>1, <3>3 DEF ExecutionDeclined, SessionRunsOut
    <3>4. CASE HeldIsDropped \/ PressReset
      BY <1>1, <3>4, HeldAsKeepsType DEF HeldIsDropped, PressReset
    <3> QED BY <1>4, <3>1, <3>2, <3>3, <3>4
  <2> QED BY <2>1, <2>2, <2>3, QuietKeepsHistory
<1> QED BY <1>2, <1>3, <1>4

\* An injection is sent, or is lost on a closed socket.
LEMMA SendKeepsHistory ==
  ASSUME HistoryInv, NEW t \in CoordTxs, SendInjection(t)
  PROVE  HistoryInv'
<1> USE DEF NewsTypes, MonitorStates
<1>1. /\ sentTxs' = sentTxs \cup {t} /\ awaiting' = awaiting \cup {t}
      /\ UNCHANGED <<history, executed>>
  BY DEF SendInjection
<1>2. coordIn' \in Seq(TrueNews(executed)) /\ held' \in HeldTypes
  <2>1. CASE coordLine # "open"
    BY <2>1 DEF SendInjection, HistoryInv
  <2>2. CASE coordLine = "open"
    <3>1. /\ \E type \in NewsTypes \ {"TRANSACTION_EXECUTED"}, u \in {t, NoCoordTx} :
               TellCoordinator(type, u)
          /\ \/ UNCHANGED held
             \/ \E u \in {t, NoCoordTx}, status \in MonitorStates : HeldAs(u, status)
      BY <2>2 DEF SendInjection, ServeInjection
    <3>2. coordIn' \in Seq(TrueNews(executed))
      BY <3>1, TellKeepsNews DEF HistoryInv
    <3>3. held' \in HeldTypes
      BY <3>1, HeldAsKeepsType DEF HistoryInv
    <3> QED BY <3>2, <3>3
  <2> QED BY <2>1, <2>2
<1> QED BY <1>1, <1>2 DEF HistoryInv, HistoryTrue

\* What is heard.
LEMMA HearKeepsHistory ==
  ASSUME HistoryInv,
         \/ HearsAccepted \/ HearsRefused \/ HearsSignature \/ HearsExecuted \/ HearsFailed
         \/ HearsRejected \/ HearsReset
  PROVE  HistoryInv'
<1>1. PICK types : Hears(types)
  BY DEF HearsAccepted, HearsRefused, HearsSignature, HearsExecuted, HearsFailed, HearsRejected,
         HearsReset
<1>2. /\ coordIn' \in Seq(TrueNews(executed)) /\ executed' = executed
      /\ Head(coordIn) \in TrueNews(executed)
  BY <1>1, HearKeepsNews DEF HistoryInv
<1>3. UNCHANGED <<sentTxs, held>>
  BY <1>1 DEF Hears
<1>4. CASE HearsAccepted
  <2>1. PICK waits \in SUBSET awaiting :
          /\ awaiting' \subseteq awaiting
          /\ history' = [t \in CoordTxs |-> IF t \in waits THEN "PENDING" ELSE history[t]]
    BY <1>4 DEF HearsAccepted, Settled
  <2> QED BY <1>2, <1>3, <2>1 DEF HistoryInv, HistoryTrue
<1>5. CASE HearsExecuted
  <2>1. Head(coordIn).tx \in executed
    BY <1>2, <1>5 DEF HearsExecuted, Hears, TrueNews
  <2>2. /\ history' = Marked(Head(coordIn).tx, "SUCCESS") /\ awaiting' = awaiting
    BY <1>5 DEF HearsExecuted, Succeeded
  <2> QED BY <1>2, <1>3, <2>1, <2>2 DEF HistoryInv, HistoryTrue, Marked
<1>6. CASE HearsFailed
  <2>1. /\ history' = Marked(monitor.tx, "FAILURE") /\ awaiting' = awaiting
    BY <1>6 DEF HearsFailed
  <2> QED BY <1>2, <1>3, <2>1 DEF HistoryInv, HistoryTrue, Marked
<1>7. CASE HearsRefused \/ HearsSignature \/ HearsRejected \/ HearsReset
  <2>1. awaiting' \subseteq awaiting /\ history' = history
    BY <1>7 DEF HearsRefused, HearsSignature, HearsRejected, HearsReset, Settled
  <2> QED BY <1>2, <1>3, <2>1 DEF HistoryInv, HistoryTrue
<1> QED BY <1>4, <1>5, <1>6, <1>7

LEMMA HistoryInvStep == HistoryInv /\ [CoordNext]_coordVars => HistoryInv'
<1> SUFFICES ASSUME HistoryInv, [CoordNext]_coordVars PROVE HistoryInv'
  OBVIOUS
<1>1. CASE UNCHANGED coordVars
  BY <1>1 DEF HistoryInv, HistoryTrue, coordVars, injections
<1> QED
  BY <1>1, PageKeepsHistory, ServerKeepsHistory, SendKeepsHistory, HearKeepsHistory DEF CoordNext

\* The coordinator's history is true, whatever crosses on the way.
THEOREM HistoryTrueAlways == CoordSpec => []HistoryTrue
<1>1. HistoryInv => HistoryTrue
  BY DEF HistoryInv
<1> QED BY HistoryInvInit, HistoryInvStep, <1>1, PTL DEF CoordSpec

-----------------------------------------------------------------------------
(* The coordinator's types *)

\* What is heard names a transaction or none, which the history's invariant has
\* already; the rest follows action by action.
CoordTypes == CoordTypeOK /\ HistoryInv

LEMMA CoordTypesInit == CoordInit => CoordTypes
<1> SUFFICES ASSUME CoordInit PROVE CoordTypes
  OBVIOUS
<1>1. HistoryInv
  BY HistoryInvInit
<1> QED
  BY <1>1 DEF CoordInit, CoordTypes, CoordTypeOK, HistoryInv, HeldTypes, FreshMonitor, MonitorStates

\* What the connection and the page's buttons change.
CoordUiOK ==
  /\ coordStep \in {"connect", "build", "share"}
  /\ coordLine \in {"opening", "asking", "open", "closed"}
  /\ {connecting, injecting} \subseteq BOOLEAN
CoordSetsOK == {toSchedule, preparing, sentTxs, awaiting, executed} \subseteq SUBSET CoordTxs
MonitorOK == monitor \in [state : MonitorStates, tx : CoordTxs \cup {NoCoordTx}, plan : BOOLEAN]

LEMMA CoordParts == CoordTypeOK /\ HistoryInv <=> CoordUiOK /\ CoordSetsOK /\ MonitorOK /\ HistoryInv
  BY DEF CoordTypeOK, CoordUiOK, CoordSetsOK, MonitorOK, HistoryInv, HeldTypes

LEMMA PageKeepsCoord ==
  ASSUME CoordUiOK, CoordSetsOK, MonitorOK, HistoryInv,
         \/ PressConnect \/ CoordSocketOpens \/ CoordJoins \/ ConnectFails \/ CoordSocketCloses
         \/ InjectsNothing \/ StartAnother
         \/ \E t \in CoordTxs :
              (\E plan \in BOOLEAN : PressInject(t, plan)) \/ PreparingFails(t) \/ InjectionTimesOut(t)
  PROVE  CoordUiOK' /\ CoordSetsOK' /\ MonitorOK'
<1>1. CASE CoordJoins
  <2>1. held.status \in MonitorStates
    BY DEF HistoryInv, HeldTypes
  <2>2. monitor' = [state |-> held.status, tx |-> NoCoordTx, plan |-> FALSE]
    BY <1>1 DEF CoordJoins, FreshMonitor
  <2>3. MonitorOK'
    BY <2>1, <2>2 DEF MonitorOK
  <2>4. /\ coordStep' \in {"share", "build"} /\ coordLine' = "open" /\ connecting' = FALSE
        /\ UNCHANGED <<injecting, injections, executed>>
    BY <1>1 DEF CoordJoins
  <2> QED BY <2>3, <2>4 DEF CoordUiOK, CoordSetsOK, injections
<1>2. CASE \/ PressConnect \/ CoordSocketOpens \/ ConnectFails \/ CoordSocketCloses
           \/ InjectsNothing \/ StartAnother
  BY <1>2 DEF PressConnect, CoordSocketOpens, ConnectFails, CoordSocketCloses, InjectsNothing,
       StartAnother, CoordUiOK, CoordSetsOK, MonitorOK, injections
<1>3. ASSUME NEW t \in CoordTxs,
             (\E plan \in BOOLEAN : PressInject(t, plan)) \/ PreparingFails(t) \/ InjectionTimesOut(t)
      PROVE  CoordUiOK' /\ CoordSetsOK' /\ MonitorOK'
  <2>1. CASE \E plan \in BOOLEAN : PressInject(t, plan)
    BY <2>1 DEF PressInject, CoordUiOK, CoordSetsOK, MonitorOK
  <2>2. CASE PreparingFails(t) \/ InjectionTimesOut(t)
    BY <2>2 DEF PreparingFails, InjectionTimesOut, CoordUiOK, CoordSetsOK, MonitorOK
  <2> QED BY <1>3, <2>1, <2>2
<1> QED BY <1>1, <1>2, <1>3

LEMMA ServerKeepsCoord ==
  ASSUME CoordUiOK, CoordSetsOK, MonitorOK, HistoryInv,
         \/ SignatureComes \/ NetworkExecutes \/ NetworkDeclines \/ ExecutionDeclined
         \/ HeldIsDropped \/ SessionRunsOut \/ PressReset
         \/ \E t \in CoordTxs : AnotherInjects(t) \/ SendInjection(t)
  PROVE  CoordUiOK' /\ CoordSetsOK' /\ MonitorOK'
<1>1. UNCHANGED <<coordUi, monitor>>
  BY DEF SignatureComes, NetworkExecutes, NetworkDeclines, ExecutionEnds, ExecutionDeclined,
     HeldIsDropped, SessionRunsOut, PressReset, AnotherInjects, SendInjection
<1>2. CoordUiOK' /\ MonitorOK'
  BY <1>1 DEF CoordUiOK, MonitorOK, coordUi
<1>3. CASE NetworkExecutes
  <2>1. held.running \in CoordTxs
    BY <1>3 DEF NetworkExecutes, ExecutionEnds, HistoryInv, HeldTypes
  <2> QED BY <1>2, <1>3, <2>1 DEF NetworkExecutes, ExecutionEnds, CoordSetsOK, injections
<1>4. CASE \E t \in CoordTxs : AnotherInjects(t) \/ SendInjection(t)
  BY <1>2, <1>4 DEF AnotherInjects, SendInjection, CoordSetsOK
<1>5. CASE \/ SignatureComes \/ NetworkDeclines \/ ExecutionDeclined
           \/ HeldIsDropped \/ SessionRunsOut \/ PressReset
  BY <1>2, <1>5 DEF SignatureComes, NetworkDeclines, ExecutionEnds, ExecutionDeclined,
     HeldIsDropped, SessionRunsOut, PressReset, CoordSetsOK, injections
<1> QED BY <1>3, <1>4, <1>5

LEMMA HearKeepsCoord ==
  ASSUME CoordUiOK, CoordSetsOK, MonitorOK, HistoryInv,
         \/ HearsAccepted \/ HearsRefused \/ HearsSignature \/ HearsExecuted \/ HearsFailed
         \/ HearsRejected \/ HearsReset
  PROVE  CoordUiOK' /\ CoordSetsOK' /\ MonitorOK'
<1>1. PICK types : Hears(types)
  BY DEF HearsAccepted, HearsRefused, HearsSignature, HearsExecuted, HearsFailed, HearsRejected,
         HearsReset
<1>2. Head(coordIn).tx \in CoordTxs \cup {NoCoordTx}
  BY <1>1, HearKeepsNews DEF HistoryInv, TrueNews
<1>3. UNCHANGED <<coordLine, connecting, toSchedule, preparing, sentTxs, held, executed>>
  BY <1>1 DEF Hears
<1>4. monitor.tx \in CoordTxs \cup {NoCoordTx} /\ monitor.plan \in BOOLEAN
  BY DEF MonitorOK
<1> USE DEF MonitorStates
<1>5. MonitorOK'
  <2>1. CASE HearsAccepted
    BY <1>4, <2>1 DEF HearsAccepted, MonitorOK
  <2>2. CASE HearsExecuted
    BY <1>2, <2>2 DEF HearsExecuted, MonitorOK
  <2>3. CASE HearsReset
    BY <2>3 DEF HearsReset, FreshMonitor, MonitorOK
  <2>4. CASE HearsSignature \/ HearsFailed
    BY <2>4 DEF HearsSignature, HearsFailed, MonitorOK
  <2>5. CASE HearsRefused \/ HearsRejected
    BY <2>5 DEF HearsRefused, HearsRejected, MonitorOK
  <2> QED BY <2>1, <2>2, <2>3, <2>4, <2>5
<1>6. /\ awaiting' \subseteq awaiting
      /\ coordStep' \in {coordStep, "share", "build"}
      /\ injecting' \in BOOLEAN
  BY DEF HearsAccepted, HearsRefused, HearsSignature, HearsExecuted, HearsFailed, HearsRejected,
     HearsReset, Settled, CoordUiOK
<1> QED BY <1>3, <1>5, <1>6 DEF CoordUiOK, CoordSetsOK

LEMMA CoordTypesStep == CoordTypes /\ [CoordNext]_coordVars => CoordTypes'
<1> SUFFICES ASSUME CoordTypes, [CoordNext]_coordVars PROVE CoordTypes'
  OBVIOUS
<1>1. CoordUiOK /\ CoordSetsOK /\ MonitorOK /\ HistoryInv
  BY CoordParts DEF CoordTypes
<1>2. HistoryInv'
  BY <1>1, HistoryInvStep
<1>3. CoordUiOK' /\ CoordSetsOK' /\ MonitorOK'
  <2>1. CASE UNCHANGED coordVars
    BY <1>1, <2>1 DEF CoordUiOK, CoordSetsOK, MonitorOK, coordVars, coordUi, injections
  <2> QED
    BY <1>1, <2>1, PageKeepsCoord, ServerKeepsCoord, HearKeepsCoord DEF CoordNext
<1> QED BY <1>2, <1>3, CoordParts DEF CoordTypes, CoordTypeOK, CoordUiOK, CoordSetsOK, MonitorOK,
        HistoryInv, HeldTypes

\* The coordinator's types: what is executed is a transaction, since what is being
\* executed is one, and the monitor names one that it was told of, or none.
THEOREM CoordTypeCorrect == CoordSpec => []CoordTypeOK
<1>1. CoordTypes => CoordTypeOK
  BY DEF CoordTypes
<1> QED BY CoordTypesInit, CoordTypesStep, <1>1, PTL DEF CoordSpec
=============================================================================
