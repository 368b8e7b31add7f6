----------------------------- MODULE SessionPage -----------------------------
(***************************************************************************)
(* The participant's page of the dApp, /session/[id]: its steps, the state *)
(* of useSigningSession that they follow, the browser client below it, the *)
(* review on the screen and the wallet.                                    *)
(*                                                                         *)
(* A message changes the hook's state at once; the effect that follows it  *)
(* with the page's step runs later, and other events may come between.     *)
(* What a button does is done with the state of that moment; the wallet    *)
(* and the decoder answer when they please, whatever the page is at by     *)
(* then.  Effects run before a timer of seconds is up.                     *)
(*                                                                         *)
(* The server is reduced to the transaction on offer and what it tells     *)
(* this participant.  Of a socket that the client has replaced by another  *)
(* only the failure is modelled, which can reject the page's connect.      *)
(***************************************************************************)
EXTENDS Naturals, Sequences

CONSTANTS
  PageTxs,        \* transactions the coordinator may inject, each once
  NoPageTx,       \* null
  ScheduleSign,   \* the ScheduleSignTransaction that the wallet builds
  MaxTries,       \* maxConnectionAttempts
  MaxReconnects,  \* options.maxReconnectAttempts
  MaxBreaks,      \* bound: connections that fail, are refused or are lost
  MaxNews         \* bound: what the server has under way to the page

ASSUME PageAssumption ==
  /\ NoPageTx \notin PageTxs /\ ScheduleSign \notin PageTxs \cup {NoPageTx}
  /\ {MaxTries, MaxReconnects, MaxBreaks, MaxNews} \subseteq Nat

VARIABLES
  pageStep,      \* currentStep
  view,          \* what TransactionReview shows: "none" while it is not there
  pageStatus,    \* state.status of useSigningSession
  slot,          \* state.transaction.frozenTransaction
  planned,       \* state.schedule is there
  inSession,     \* state.connected
  joins,         \* connectionAttemptRef
  joining,       \* hasAutoConnectedRef
  pageLine,      \* the socket the client holds
  own,           \* the page waits for a connect, and on this socket
  behind,        \* it waits on a socket that the client has replaced
  reconnecting,  \* isReconnecting
  reattempts,    \* reconnectAttempts
  retry,         \* reconnectTimeout is set
  reach,         \* the server has a socket of this participant
  breaks,        \* connections that failed so far
  wallet,        \* requests the wallet has yet to answer
  approvedTxs,   \* transactions for which Approve was pressed
  submittedTxs,  \* those whose signature was sent
  pageIn,        \* messages under way to the page
  onOffer,       \* session.frozenTransaction
  injectedTxs,   \* transactions injected so far
  announced      \* session.scheduleId is there

screen  == <<pageStep, view>>
hook    == <<pageStatus, slot, planned, inSession>>
browser == <<joins, joining, pageLine, own, behind, reconnecting, reattempts, retry,
             reach, breaks>>
hands   == <<wallet, approvedTxs, submittedTxs>>
offers  == <<onOffer, injectedTxs, announced>>
pageVars == <<screen, hook, browser, hands, pageIn, offers>>

PageSteps == {"loading", "wallet-connect", "session-connect", "ready", "waiting",
              "reviewing", "signing", "signed", "completed", "error", "left"}
PageStatuses == {"disconnected", "connected", "ready", "reviewing", "signed", "completed"}
PageLines == {"none", "opening", "asking", "refused", "open", "lost", "closing", "closed"}

\* disconnect was called last, not connect.
Hung == pageLine \in {"closing", "closed"}

PageMsg(type, t) == [type |-> type, tx |-> t]

PageInit ==
  /\ pageStep = "loading" /\ view = "none"
  /\ pageStatus = "disconnected" /\ slot = NoPageTx /\ planned = FALSE
  /\ inSession = FALSE
  /\ joins = 0 /\ joining = FALSE /\ pageLine = "none" /\ own = FALSE /\ behind = FALSE
  /\ reconnecting = FALSE /\ reattempts = 0 /\ retry = FALSE
  /\ reach = FALSE /\ breaks = 0
  /\ wallet = {} /\ approvedTxs = {} /\ submittedTxs = {}
  /\ pageIn = <<>>
  /\ onOffer = NoPageTx /\ injectedTxs = {} /\ announced = FALSE

\* TransactionReview is on the screen; its effect decodes what it is given.
Reviews(step, t, p) == step = "reviewing" /\ ~p /\ t # NoPageTx

Render ==
  view' = IF ~Reviews(pageStep', slot', planned') THEN "none"
          ELSE IF view # "none" /\ slot' = slot THEN view ELSE "loading"

-----------------------------------------------------------------------------
(* Loading and connecting *)

\* What /join has left in this tab is for this session, or else an error; a
\* saved session never has the token it would need.
LoadSession ==
  /\ pageStep = "loading"
  /\ pageStep' \in {"wallet-connect", "error"}
  /\ UNCHANGED <<view, hook, browser, hands, pageIn, offers>>

\* connect of the client.
OpenSocket(byPage) ==
  /\ pageLine' = "opening" /\ own' = byPage
  /\ reattempts' = IF reconnecting THEN reattempts ELSE 0
  /\ UNCHANGED reconnecting

\* The step of a page at wallet-connect whose client is in the session already.
Rejoined(st, otherwise) ==
  IF ~inSession THEN otherwise
  ELSE CASE st = "ready" -> "waiting" [] st = "connected" -> "ready"
         [] st = "reviewing" -> "reviewing" [] OTHER -> otherwise

\* The effect that advances by itself once a wallet is connected; the effect that
\* follows the hook runs behind it and has the last word on the step.
JoinByItself ==
  /\ pageStep = "wallet-connect" /\ ~joining
  /\ IF joins >= MaxTries
     THEN /\ pageStep' = Rejoined(pageStatus, "error")
          /\ UNCHANGED <<pageStatus, browser>>
     ELSE /\ pageStep' = Rejoined(pageStatus, "session-connect")
          /\ joining' = TRUE /\ joins' = joins + 1
          /\ OpenSocket(TRUE)
          /\ pageStatus' = "disconnected"
          /\ UNCHANGED <<behind, retry, reach, breaks>>
  /\ UNCHANGED <<slot, planned, inSession>>
  /\ Render
  /\ UNCHANGED <<hands, pageIn, offers>>

SocketOpens ==
  /\ pageLine = "opening"
  /\ pageLine' = "asking" /\ reattempts' = 0 /\ reconnecting' = FALSE
  /\ UNCHANGED <<screen, hook, joins, joining, own, behind, retry, reach, breaks, hands,
                 pageIn, offers>>

\* 'close' of a socket that was not closed on purpose: attemptReconnect, if
\* attempts are left.
LineLost ==
  /\ pageStatus' = "disconnected" /\ inSession' = FALSE
  /\ IF reattempts < MaxReconnects
     THEN reattempts' = reattempts + 1 /\ reconnecting' = TRUE /\ retry' = TRUE
     ELSE UNCHANGED <<reattempts, reconnecting, retry>>

PageLineLost == pageLine' = "lost" /\ LineLost

\* The page's own connect is rejected: back to the wallet, and another try.
OwnConnectFails ==
  pageStep' = "wallet-connect" /\ joining' = FALSE

\* 'error', then 'close'.  While the client is reconnecting, nobody is told of
\* the error: a page that waits for its connect waits on.
SocketFails ==
  /\ pageLine = "opening" /\ breaks < MaxBreaks
  /\ breaks' = breaks + 1
  /\ IF own /\ ~reconnecting THEN OwnConnectFails ELSE UNCHANGED <<pageStep, joining>>
  /\ PageLineLost
  /\ own' = FALSE
  /\ UNCHANGED <<slot, planned, joins, behind, reach, hands, pageIn, offers>>
  /\ Render

\* The server loses the socket it knows, unless that is one that the client has
\* left open behind its newest.
LineGone ==
  /\ reach' = (reach /\ pageLine # "open")
  /\ pageIn' = IF reach' THEN pageIn ELSE <<>>

\* A connection that ends later, with an 'error' before its 'close' or without;
\* without, a page that waits for its connect waits on.
SocketLost ==
  /\ pageLine \in {"asking", "refused", "open"} /\ breaks < MaxBreaks
  /\ breaks' = breaks + 1
  /\ \/ own /\ ~reconnecting /\ OwnConnectFails
     \/ UNCHANGED <<pageStep, joining>>
  /\ PageLineLost
  /\ own' = FALSE /\ LineGone
  /\ UNCHANGED <<slot, planned, joins, behind, hands, offers>>
  /\ Render

\* AUTH_FAILED
AuthRefused ==
  /\ pageLine = "asking" /\ breaks < MaxBreaks
  /\ breaks' = breaks + 1
  /\ pageLine' = "refused" /\ own' = FALSE
  /\ IF own THEN OwnConnectFails /\ pageStatus' = "disconnected"
     ELSE UNCHANGED <<pageStep, joining, pageStatus>>
  /\ UNCHANGED <<slot, planned, inSession, joins, behind, reconnecting, reattempts, retry,
                 reach, hands, pageIn, offers>>
  /\ Render

\* AUTH_SUCCESS.  A page that waits for it gets ready in the same breath, which
\* overwrites the status, and is given the transaction on offer; after a
\* reconnection nobody gets ready.
AuthAccepted ==
  /\ pageLine = "asking"
  /\ pageLine' = "open" /\ reach' = TRUE /\ own' = FALSE
  /\ planned' = announced /\ inSession' = TRUE
  /\ pageStatus' = IF own THEN "ready" ELSE IF announced THEN "reviewing" ELSE "connected"
  /\ pageIn' = IF own /\ onOffer # NoPageTx
               THEN Append(pageIn, PageMsg("TRANSACTION_RECEIVED", onOffer)) ELSE pageIn
  /\ UNCHANGED <<pageStep, slot>>
  /\ Render
  /\ UNCHANGED <<joins, joining, behind, reconnecting, reattempts, retry, breaks, hands,
                 offers>>

\* The timer of attemptReconnect, which no success has cleared in the meantime and
\* which does not look whether another connect is under way.  An effect has run
\* before it is up.
Reconnects ==
  /\ retry
  /\ pageStep = "wallet-connect" => joining
  /\ retry' = FALSE
  /\ behind' = (behind \/ own)
  /\ OpenSocket(FALSE)
  /\ UNCHANGED <<screen, hook, joins, joining, reach, breaks, hands, pageIn, offers>>

\* 'error' and 'close' of the socket on which the page's connect was left behind.
ReplacedFails ==
  /\ behind /\ behind' = FALSE
  /\ IF reconnecting THEN UNCHANGED <<pageStep, joining>> ELSE OwnConnectFails
  /\ IF Hung THEN pageStatus' = "disconnected" /\ inSession' = FALSE
                  /\ UNCHANGED <<reconnecting, reattempts, retry>>
     ELSE LineLost
  /\ UNCHANGED <<slot, planned, joins, pageLine, own, reach, breaks, hands, pageIn, offers>>
  /\ Render

-----------------------------------------------------------------------------
(* The server *)

TellPage(type, t) ==
  /\ Len(pageIn) < MaxNews
  /\ pageIn' = IF reach THEN Append(pageIn, PageMsg(type, t)) ELSE pageIn

\* One transaction is like another: which is injected first is no choice.  A
\* schedule takes the place of an injection in their number.
OfferPageTx(t) ==
  /\ t \notin injectedTxs /\ t = CHOOSE u \in PageTxs \ injectedTxs : TRUE
  /\ announced => injectedTxs \cup {t} # PageTxs
  /\ onOffer' = t /\ injectedTxs' = injectedTxs \cup {t}
  /\ TellPage("TRANSACTION_RECEIVED", t)
  /\ UNCHANGED <<announced, screen, hook, browser, hands>>

\* The timer, another participant's rejection, or a reset, of which the browser
\* client knows no message.
TakeOffOffer ==
  /\ onOffer # NoPageTx
  /\ onOffer' = NoPageTx
  /\ \/ \E type \in {"TRANSACTION_EXPIRED", "TRANSACTION_REJECTED"} : TellPage(type, NoPageTx)
     \/ UNCHANGED pageIn
  /\ UNCHANGED <<injectedTxs, announced, screen, hook, browser, hands>>

\* The offer, or one injected before it, has been executed.
ExecuteOffer(t) ==
  /\ t \in injectedTxs
  /\ onOffer' = IF onOffer = t THEN NoPageTx ELSE onOffer
  /\ TellPage("TRANSACTION_EXECUTED", t)
  /\ UNCHANGED <<injectedTxs, announced, screen, hook, browser, hands>>

AnnounceToPage ==
  /\ ~announced /\ injectedTxs # PageTxs
  /\ announced' = TRUE
  /\ TellPage("SCHEDULE_CREATED", NoPageTx)
  /\ UNCHANGED <<onOffer, injectedTxs, screen, hook, browser, hands>>

ExpirePageSession ==
  /\ reach
  /\ TellPage("SESSION_EXPIRED", NoPageTx)
  /\ UNCHANGED <<offers, screen, hook, browser, hands>>

-----------------------------------------------------------------------------
(* What the hook makes of messages *)

ReceivesOffer ==
  /\ pageIn # <<>>
  /\ Head(pageIn).type = "TRANSACTION_RECEIVED"
  /\ pageIn' = Tail(pageIn)
  /\ pageStatus' = "reviewing" /\ slot' = Head(pageIn).tx
  /\ UNCHANGED <<planned, inSession, pageStep>>
  /\ Render
  /\ UNCHANGED <<browser, hands, offers>>

LearnsOffOffer ==
  /\ pageIn # <<>>
  /\ Head(pageIn).type \in {"TRANSACTION_EXPIRED", "TRANSACTION_REJECTED"}
  /\ pageIn' = Tail(pageIn)
  /\ pageStatus' = "ready" /\ slot' = NoPageTx
  /\ UNCHANGED <<planned, inSession, pageStep>>
  /\ Render
  /\ UNCHANGED <<browser, hands, offers>>

ReceivesSchedule ==
  /\ pageIn # <<>>
  /\ Head(pageIn).type = "SCHEDULE_CREATED"
  /\ pageIn' = Tail(pageIn)
  /\ pageStatus' = "reviewing" /\ planned' = TRUE
  /\ UNCHANGED <<slot, inSession, pageStep>>
  /\ Render
  /\ UNCHANGED <<browser, hands, offers>>

\* TRANSACTION_EXECUTED, of whichever transaction.
LearnsExecuted ==
  /\ pageIn # <<>>
  /\ Head(pageIn).type = "TRANSACTION_EXECUTED"
  /\ pageIn' = Tail(pageIn)
  /\ pageStatus' = "completed"
  /\ UNCHANGED <<slot, planned, inSession, screen, browser, hands, offers>>

\* close of the socket.  While it is being set up that fails it, of which its
\* 'error' tells; later there is a 'close' alone, or both.
SocketCloses ==
  /\ own' \in IF pageLine \in {"opening", "closing"} THEN {own}
             ELSE IF pageLine = "asking" THEN {own, FALSE} ELSE {FALSE}
  /\ pageLine' = IF own' THEN "closing" ELSE "closed"
  /\ LineGone
  /\ pageStatus' = "disconnected" /\ inSession' = FALSE

\* Mutation: the timer of a reconnection is not cancelled.
HangUpTimed == SocketCloses /\ UNCHANGED <<reconnecting, reattempts, retry>>

\* disconnect: on purpose, so without a retry.
HangUp == SocketCloses /\ reconnecting' = FALSE /\ reattempts' = 0 /\ retry' = FALSE

\* The page's connect, which was under way when the client hung up, is rejected.
ClosingFails ==
  /\ pageLine = "closing"
  /\ pageLine' = "closed" /\ own' = FALSE
  /\ OwnConnectFails
  /\ UNCHANGED <<hook, joins, behind, reconnecting, reattempts, retry, reach, breaks, hands,
                 pageIn, offers>>
  /\ Render

LearnsSessionOver ==
  /\ pageIn # <<>>
  /\ Head(pageIn).type = "SESSION_EXPIRED"
  /\ HangUp
  /\ UNCHANGED <<slot, planned, screen, joins, joining, behind, breaks, hands, offers>>

-----------------------------------------------------------------------------
(* The page *)

\* The step that follows from a step and the hook's status.
Followed(step, st) ==
  CASE step = "wallet-connect" -> Rejoined(st, step)
    [] step = "session-connect" /\ st = "connected" -> "ready"
    [] step \in {"ready", "session-connect"} /\ st = "ready" -> "waiting"
    [] step \in {"waiting", "completed", "signed"} /\ st = "reviewing" -> "reviewing"
    [] step = "signing" /\ st = "signed" -> "signed"
    [] step \notin {"completed", "signed", "wallet-connect"} /\ st = "completed" -> "completed"
    [] OTHER -> step

\* The effect that keeps the step up with the hook.
FollowHook ==
  /\ pageStep # "left" /\ Followed(pageStep, pageStatus) # pageStep
  /\ pageStep' = Followed(pageStep, pageStatus)
  /\ UNCHANGED hook
  /\ Render
  /\ UNCHANGED <<browser, hands, pageIn, offers>>

\* A decoding that was begun for an earlier transaction may end after the one
\* for this, and takes its place.
ViewDecoded ==
  /\ view # "none"
  /\ view' \in {"shown", "unreadable"}
  /\ UNCHANGED <<pageStep, hook, browser, hands, pageIn, offers>>

GoTo(step) == pageStep' = step /\ UNCHANGED hook /\ Render

\* handleApprove takes the transaction from the hook's state, or signs the
\* schedule if there has been one.
PressApprove ==
  /\ pageStep = "reviewing"
  /\ IF planned THEN wallet' = wallet \cup {ScheduleSign} /\ UNCHANGED approvedTxs
     ELSE /\ slot # NoPageTx /\ view = "shown"
          /\ wallet' = wallet \cup {slot} /\ approvedTxs' = approvedTxs \cup {slot}
  /\ GoTo("signing")
  /\ UNCHANGED <<browser, submittedTxs, pageIn, offers>>

\* The client's send throws unless its socket is open.
CanSend == pageLine \in {"asking", "refused", "open"}

\* Mutation: what is submitted goes by the state when the wallet answers.
SubmittedLatest(t) == IF slot = NoPageTx THEN t ELSE slot

\* What is submitted is signed over, and checked against, the bytes that
\* handleApprove was called with.
SubmittedFor(t) == t

WalletSigns(t) ==
  /\ t \in wallet \cap PageTxs
  /\ wallet' = wallet \ {t}
  /\ IF CanSend
     THEN /\ submittedTxs' = submittedTxs \cup {SubmittedFor(t)}
          /\ pageStatus' = "signed"
          /\ UNCHANGED pageStep
     ELSE pageStep' = "reviewing" /\ UNCHANGED <<submittedTxs, pageStatus>>
  /\ UNCHANGED <<slot, planned, inSession>>
  /\ Render
  /\ UNCHANGED <<browser, approvedTxs, pageIn, offers>>

\* The wallet declines, or none of its signatures verifies.
WalletFails(t) ==
  /\ t \in wallet
  /\ wallet' = wallet \ {t}
  /\ GoTo("reviewing")
  /\ UNCHANGED <<browser, approvedTxs, submittedTxs, pageIn, offers>>

\* The wallet has executed the ScheduleSignTransaction.
ScheduleSigned ==
  /\ ScheduleSign \in wallet
  /\ wallet' = wallet \ {ScheduleSign}
  /\ GoTo("signed")
  /\ UNCHANGED <<browser, approvedTxs, submittedTxs, pageIn, offers>>

\* handleReject; if send throws, nothing has changed.  The server takes its
\* offer back and tells everybody, this participant too.
PressReject ==
  /\ pageStep = "reviewing" /\ CanSend
  /\ planned \/ (slot # NoPageTx /\ view # "loading")
  /\ IF pageLine = "open"
     THEN /\ onOffer' = NoPageTx
          /\ pageIn' = Append(pageIn, PageMsg("TRANSACTION_REJECTED", NoPageTx))
     ELSE UNCHANGED <<onOffer, pageIn>>
  /\ pageStatus' = "ready" /\ slot' = NoPageTx
  /\ pageStep' = "waiting"
  /\ UNCHANGED <<planned, inSession>>
  /\ Render
  /\ UNCHANGED <<browser, hands, injectedTxs, announced>>

\* handleClearPostSigning
ClearSigned ==
  /\ pageStep \in {"signed", "completed"}
  /\ GoTo("waiting")
  /\ UNCHANGED <<browser, hands, pageIn, offers>>

\* The countdown to the session's expiry, which leaves the connection alone.
PageCountdownEnds ==
  /\ pageStep \notin {"loading", "wallet-connect", "error", "left"}
  /\ GoTo("error")
  /\ UNCHANGED <<browser, hands, pageIn, offers>>

\* handleDisconnect, which waits for the wallet to disconnect; the page goes on.
PressDisconnect ==
  /\ pageStep \notin {"loading", "wallet-connect", "error", "left"}
  /\ HangUp
  /\ UNCHANGED <<slot, planned, screen, joins, joining, behind, breaks, hands, offers>>

\* The page is left, then or by any other way.  Its clean-up hangs up, and what
\* the wallet answers finds a closed socket.
LeavePage ==
  /\ pageStep # "left"
  /\ pageStep' = "left" /\ view' = "none"
  /\ pageLine' = "closed" /\ own' = FALSE /\ behind' = FALSE /\ LineGone
  /\ reconnecting' = FALSE /\ reattempts' = 0 /\ retry' = FALSE
  /\ pageStatus' = "disconnected" /\ inSession' = FALSE
  /\ wallet' = {}
  /\ UNCHANGED <<slot, planned, joins, joining, breaks, approvedTxs, submittedTxs, offers>>

PageNext ==
  \/ LoadSession \/ JoinByItself \/ SocketOpens \/ SocketFails \/ SocketLost
  \/ AuthRefused \/ AuthAccepted \/ Reconnects \/ ReplacedFails \/ ClosingFails
  \/ TakeOffOffer \/ AnnounceToPage \/ ExpirePageSession
  \/ ReceivesOffer \/ LearnsOffOffer \/ ReceivesSchedule \/ LearnsExecuted
  \/ LearnsSessionOver
  \/ FollowHook \/ ViewDecoded \/ PressApprove \/ ScheduleSigned \/ PressReject \/ ClearSigned
  \/ PageCountdownEnds \/ PressDisconnect \/ LeavePage
  \/ \E t \in PageTxs :
       \/ OfferPageTx(t) \/ ExecuteOffer(t)
       \/ WalletSigns(t)
  \/ \E t \in PageTxs \cup {ScheduleSign} : WalletFails(t)

PageSpec == PageInit /\ [][PageNext]_pageVars

-----------------------------------------------------------------------------
(* Properties *)

\* The type invariant.
PageTypeOK ==
  /\ pageStep \in PageSteps /\ pageStatus \in PageStatuses /\ pageLine \in PageLines
  /\ view \in {"none", "loading", "shown", "unreadable"}
  /\ {slot, onOffer} \subseteq PageTxs \cup {NoPageTx}
  /\ {planned, inSession, joining, own, behind, reconnecting, retry, reach, announced} \subseteq BOOLEAN
  /\ joins \in 0..MaxTries /\ reattempts \in 0..MaxReconnects /\ breaks \in 0..MaxBreaks
  /\ wallet \subseteq PageTxs \cup {ScheduleSign}
  /\ {approvedTxs, submittedTxs, injectedTxs} \subseteq SUBSET PageTxs

\* However the page goes on while the wallet is busy, be it to another
\* transaction, a reconnection or the end, a signature that leaves it is of a
\* transaction that its person pressed Approve for.
SubmittedWasApproved == submittedTxs \subseteq approvedTxs

\* Once the client has hung up, because its person left or the session is over, no
\* timer that was set before connects it again, nor does a message or a button: only
\* the page itself does, from wallet-connect, where hanging up puts it back when that
\* rejects a connect of its own.
HungUpForGood ==
  [][Hung /\ ~Hung' => pageStep = "wallet-connect" /\ own']_pageVars
=============================================================================
