--------------------------- MODULE CoordinatorPage ---------------------------
(***************************************************************************)
(* The coordinator's page of the dApp, /create: the connection, the        *)
(* injection of a transaction or of a schedule, the session monitor that   *)
(* follows what the server tells, and the history kept in the browser.     *)
(*                                                                         *)
(* An injection is prepared (the node selection, the freezing or the       *)
(* wallet's ScheduleCreate take their time), sent, and then waits for the  *)
(* next answer that could be its own.  The socket may have closed by then: *)
(* a send on a closed socket is silent, and nobody watches for the close.  *)
(*                                                                         *)
(* The server is reduced to the transaction it holds and what it tells the *)
(* coordinator.  What the monitor keeps for display or for the mirror poll *)
(* (MirrorPoll) is left out.                                               *)
(***************************************************************************)
EXTENDS Naturals, Sequences

CONSTANTS
  CoordTxs,      \* transactions, each prepared once
  NoCoordTx,     \* null
  MaxCoordNews   \* bound: messages under way to the coordinator

ASSUME CoordAssumption ==
  NoCoordTx \notin CoordTxs /\ MaxCoordNews \in Nat

VARIABLES
  coordStep,   \* step
  coordLine,   \* the socket in wsRef
  connecting,  \* the promise of connect is pending
  injecting,   \* isInjecting
  toSchedule,  \* transactions injected with scheduleOptions.enabled
  preparing,   \* injections that are being built
  sentTxs,     \* those sent, or another coordinator's
  awaiting,    \* those that wait for an answer
  history,     \* what the browser's history says of each
  monitor,     \* SessionMonitor: the session's state, transactionId, scheduleId
  coordIn,     \* messages under way to the coordinator
  held,        \* the session at the server: its transaction and status, and
               \* the transaction whose execution is under way
  executed     \* transactions that the network has executed

coordUi == <<coordStep, coordLine, connecting, injecting>>
injections == <<toSchedule, preparing, sentTxs, awaiting, history>>
coordVars == <<coordUi, injections, monitor, coordIn, held, executed>>

MonitorStates == {"waiting", "received", "signing", "executing", "completed",
                  "failed", "expired"}
FreshMonitor == [state |-> "waiting", tx |-> NoCoordTx, plan |-> FALSE]
NothingHeld == [tx |-> NoCoordTx, status |-> "waiting", running |-> NoCoordTx]

CoordMsg(type, t) == [type |-> type, tx |-> t]

CoordInit ==
  /\ coordStep = "connect" /\ coordLine = "closed"
  /\ connecting = FALSE /\ injecting = FALSE
  /\ toSchedule = {} /\ preparing = {} /\ sentTxs = {} /\ awaiting = {}
  /\ history = [t \in CoordTxs |-> "none"]
  /\ monitor = FreshMonitor
  /\ coordIn = <<>> /\ held = NothingHeld /\ executed = {}

-----------------------------------------------------------------------------
(* The connection *)

PressConnect ==
  /\ coordStep = "connect" /\ ~connecting
  /\ coordLine' = "opening" /\ connecting' = TRUE
  /\ UNCHANGED <<coordStep, injecting, injections, monitor, coordIn, held, executed>>

CoordSocketOpens ==
  /\ coordLine = "opening"
  /\ coordLine' = "asking"
  /\ UNCHANGED <<coordStep, connecting, injecting, injections, monitor, coordIn, held, executed>>

\* AUTH_SUCCESS: the monitor starts from the status that it carries.
CoordJoins ==
  /\ coordLine = "asking" /\ connecting
  /\ coordLine' = "open" /\ connecting' = FALSE
  /\ coordStep' = IF held.status \in {"received", "signing"} THEN "share" ELSE "build"
  /\ monitor' = [FreshMonitor EXCEPT !.state = held.status]
  /\ UNCHANGED <<injecting, injections, coordIn, held, executed>>

\* AUTH_FAILED, ERROR, a failing socket, one that closes uncleanly, or the timer
\* of 10 seconds.
ConnectFails ==
  /\ connecting
  /\ connecting' = FALSE /\ coordLine' = "closed"
  /\ UNCHANGED <<coordStep, injecting, injections, monitor, coordIn, held, executed>>

\* A clean close settles no promise, and later nobody notices a close.
CoordSocketCloses ==
  /\ coordLine \in {"opening", "asking", "open"}
  /\ coordLine' = "closed" /\ coordIn' = <<>>
  /\ UNCHANGED <<coordStep, connecting, injecting, injections, monitor, held, executed>>

-----------------------------------------------------------------------------
(* The server *)

TellCoordinator(type, t) ==
  /\ Len(coordIn) < MaxCoordNews
  /\ coordIn' = IF coordLine = "open" THEN Append(coordIn, CoordMsg(type, t)) ELSE coordIn

HeldAs(tx, status) == held' = [held EXCEPT !.tx = tx, !.status = status]

\* TRANSACTION_INJECT and SCHEDULE_ANNOUNCE are taken in any status, or refused;
\* a transaction that is past its validity is at once taken off, and of that
\* alone the coordinator is told.
ServeInjection(t) ==
  \/ /\ t \in toSchedule
     /\ TellCoordinator("SCHEDULE_CREATED", t) /\ UNCHANGED held
  \/ /\ t \notin toSchedule
     /\ TellCoordinator("TRANSACTION_RECEIVED", t) /\ HeldAs(t, "received")
  \/ /\ t \notin toSchedule
     /\ TellCoordinator("TRANSACTION_EXPIRED", NoCoordTx) /\ HeldAs(NoCoordTx, "waiting")
  \/ TellCoordinator("INJECTION_FAILED", NoCoordTx) /\ UNCHANGED held

\* Another client of the coordinator injects.
AnotherInjects(t) ==
  /\ t \notin preparing \cup sentTxs
  /\ sentTxs' = sentTxs \cup {t}
  /\ HeldAs(t, "received")
  /\ TellCoordinator("TRANSACTION_RECEIVED", t)
  /\ UNCHANGED <<coordUi, toSchedule, preparing, awaiting, history, monitor, executed>>

\* SIGNATURE_RECEIVED, when no execution holds the session's lock.  The one that
\* meets the threshold is followed by THRESHOLD_MET, which says no more, and by
\* the execution.
SignatureComes ==
  /\ held.running = NoCoordTx /\ held.tx # NoCoordTx
  /\ held.status \in {"received", "signing"}
  /\ \/ TellCoordinator("SIGNATURE_RECEIVED", NoCoordTx) /\ HeldAs(held.tx, "signing")
     \/ /\ TellCoordinator("THRESHOLD_MET", NoCoordTx)
        /\ held' = [held EXCEPT !.status = "executing", !.running = held.tx]
  /\ UNCHANGED <<coordUi, injections, monitor, executed>>

\* The execution under way ends.  A success becomes the status of whatever the
\* session has come to by then; a failure only if it is still 'executing'.
ExecutionEnds(status) ==
  /\ held.running # NoCoordTx
  /\ held' = [held EXCEPT !.status = status, !.running = NoCoordTx]
  /\ UNCHANGED <<coordUi, injections, monitor>>

NetworkExecutes ==
  /\ ExecutionEnds("completed")
  /\ executed' = executed \cup {held.running}
  /\ TellCoordinator("TRANSACTION_EXECUTED", held.running)

NetworkDeclines ==
  /\ ExecutionEnds(IF held.status = "executing" THEN "failed" ELSE held.status)
  /\ TellCoordinator("EXECUTION_FAILED", NoCoordTx)
  /\ UNCHANGED executed

\* A coordinator asks for an execution that the status, or the number of
\* signatures, does not allow, and everybody is told that it failed.
ExecutionDeclined ==
  /\ held.running = NoCoordTx
  /\ TellCoordinator("EXECUTION_FAILED", NoCoordTx)
  /\ UNCHANGED <<coordUi, injections, monitor, held, executed>>

\* A participant's rejection, or the expiry timer of an injection.
HeldIsDropped ==
  /\ sentTxs # {}
  /\ \/ TellCoordinator("TRANSACTION_REJECTED", NoCoordTx)
     \/ held.status # "completed" /\ TellCoordinator("TRANSACTION_EXPIRED", NoCoordTx)
  /\ HeldAs(NoCoordTx, "waiting")
  /\ UNCHANGED <<coordUi, injections, monitor, executed>>

SessionRunsOut ==
  /\ coordLine = "open"
  /\ TellCoordinator("SESSION_EXPIRED", NoCoordTx)
  /\ UNCHANGED <<coordUi, injections, monitor, held, executed>>

-----------------------------------------------------------------------------
(* Injecting *)

\* The hook returns without a word when the socket is closed or there is nothing
\* to inject, and the page goes on as after an injection.
InjectsNothing ==
  /\ coordStep = "build" /\ ~injecting
  /\ coordStep' = "share"
  /\ UNCHANGED <<coordLine, connecting, injecting, injections, monitor, coordIn, held, executed>>

PressInject(t, plan) ==
  /\ coordStep = "build" /\ ~injecting /\ coordLine = "open"
  /\ t \notin preparing \cup sentTxs
  /\ toSchedule' = IF plan THEN toSchedule \cup {t} ELSE toSchedule
  /\ injecting' = TRUE /\ preparing' = preparing \cup {t}
  /\ UNCHANGED <<coordStep, coordLine, connecting, sentTxs, awaiting, history, monitor,
                 coordIn, held, executed>>

\* The building throws, or the wallet declines.
PreparingFails(t) ==
  /\ t \in preparing
  /\ preparing' = preparing \ {t} /\ toSchedule' = toSchedule \ {t}
  /\ injecting' = FALSE
  /\ UNCHANGED <<coordStep, coordLine, connecting, sentTxs, awaiting, history, monitor,
                 coordIn, held, executed>>

SendInjection(t) ==
  /\ t \in preparing
  /\ preparing' = preparing \ {t}
  /\ sentTxs' = sentTxs \cup {t} /\ awaiting' = awaiting \cup {t}
  /\ IF coordLine = "open" THEN ServeInjection(t) ELSE UNCHANGED <<coordIn, held>>
  /\ UNCHANGED <<coordUi, toSchedule, history, monitor, executed>>

\* The timer of 15 seconds: the promise is rejected.
InjectionTimesOut(t) ==
  /\ t \in awaiting
  /\ awaiting' = awaiting \ {t} /\ injecting' = FALSE
  /\ UNCHANGED <<coordStep, coordLine, connecting, toSchedule, preparing, sentTxs, history,
                 monitor, coordIn, held, executed>>

\* The reset button of the monitor.
PressReset ==
  /\ monitor.state \in {"received", "signing", "expired"} /\ coordLine = "open"
  /\ \/ /\ held.status \in {"received", "signing", "waiting"}
        /\ HeldAs(NoCoordTx, "waiting") /\ TellCoordinator("TRANSACTION_RESET", NoCoordTx)
     \/ /\ held.status \notin {"received", "signing", "waiting"}
        /\ UNCHANGED held /\ TellCoordinator("ERROR", NoCoordTx)
  /\ UNCHANGED <<coordUi, injections, monitor, executed>>

\* onStartAnother, on a receipt or on the banner of a schedule.
StartAnother ==
  /\ coordStep = "share"
  /\ monitor.state \in {"completed", "failed", "expired"} \/ monitor.plan
  /\ coordStep' = "build" /\ injecting' = FALSE
  /\ UNCHANGED <<coordLine, connecting, injections, monitor, coordIn, held, executed>>

-----------------------------------------------------------------------------
(* What a message does *)

Hears(types) ==
  /\ coordIn # <<>> /\ Head(coordIn).type \in types
  /\ coordIn' = Tail(coordIn)
  /\ UNCHANGED <<coordLine, connecting, toSchedule, preparing, sentTxs, held, executed>>

\* Any answer of its kind ends an injection's wait, whichever it is to.
Settled(waits, step) ==
  /\ awaiting' = awaiting \ waits
  /\ injecting' = (injecting /\ waits = {})
  /\ coordStep' = IF waits = {} THEN coordStep ELSE step

\* The waits that end well are saved.
HearsAccepted ==
  /\ Hears({"TRANSACTION_RECEIVED", "SCHEDULE_CREATED"})
  /\ LET plan  == Head(coordIn).type = "SCHEDULE_CREATED"
         waits == IF plan THEN awaiting \cap toSchedule ELSE awaiting \ toSchedule
         anew  == monitor.tx # NoCoordTx \/ monitor.state \in {"failed", "expired"}
     IN /\ Settled(waits, "share")
        /\ history' = [t \in CoordTxs |-> IF t \in waits THEN "PENDING" ELSE history[t]]
        /\ monitor' = [state |-> "received",
                       tx    |-> IF ~plan /\ anew THEN NoCoordTx ELSE monitor.tx,
                       plan  |-> plan \/ monitor.plan]

HearsRefused ==
  /\ Hears({"INJECTION_FAILED", "ERROR"})
  /\ Settled(awaiting, coordStep)
  /\ UNCHANGED <<history, monitor>>

HearsSignature ==
  /\ Hears({"SIGNATURE_RECEIVED", "THRESHOLD_MET"})
  /\ monitor' = [monitor EXCEPT !.state =
                   IF Head(coordIn).type = "THRESHOLD_MET" THEN "executing" ELSE "signing"]
  /\ UNCHANGED <<coordStep, injecting, awaiting, history>>

\* updateTxHistoryEntryStatus
Marked(t, status) ==
  [u \in CoordTxs |-> IF u = t /\ history[u] # "none" THEN status ELSE history[u]]

\* Mutation: what is still pending is taken for what was executed.
SucceededPending(t) ==
  [u \in CoordTxs |-> IF history[u] = "PENDING" THEN "SUCCESS" ELSE history[u]]

Succeeded(t) == Marked(t, "SUCCESS")

HearsExecuted ==
  /\ Hears({"TRANSACTION_EXECUTED"})
  /\ monitor' = [monitor EXCEPT !.state = "completed", !.tx = Head(coordIn).tx]
  /\ history' = Succeeded(Head(coordIn).tx)
  /\ UNCHANGED <<coordStep, injecting, awaiting>>

\* None of these carries an id: the entry marked is that of what was executed
\* last, if anything.
HearsFailed ==
  /\ Hears({"EXECUTION_FAILED", "TRANSACTION_EXPIRED", "SESSION_EXPIRED"})
  /\ monitor' = [monitor EXCEPT !.state =
                   IF Head(coordIn).type = "EXECUTION_FAILED" THEN "failed" ELSE "expired"]
  /\ history' = Marked(monitor.tx, "FAILURE")
  /\ UNCHANGED <<coordStep, injecting, awaiting>>

\* A rejection changes the participant's line only.
HearsRejected ==
  /\ Hears({"TRANSACTION_REJECTED"})
  /\ UNCHANGED <<coordStep, injecting, awaiting, history, monitor>>

\* handleTransactionReset frees the button, whatever is being injected.
HearsReset ==
  /\ Hears({"TRANSACTION_RESET"})
  /\ monitor' = FreshMonitor
  /\ coordStep' = "build" /\ injecting' = FALSE
  /\ UNCHANGED <<awaiting, history>>

CoordNext ==
  \/ PressConnect \/ CoordSocketOpens \/ CoordJoins \/ ConnectFails \/ CoordSocketCloses
  \/ SignatureComes \/ NetworkExecutes \/ NetworkDeclines \/ ExecutionDeclined
  \/ HeldIsDropped \/ SessionRunsOut
  \/ InjectsNothing \/ PressReset \/ StartAnother
  \/ HearsAccepted \/ HearsRefused \/ HearsSignature \/ HearsExecuted \/ HearsFailed
  \/ HearsRejected \/ HearsReset
  \/ \E t \in CoordTxs :
       \/ AnotherInjects(t) \/ (\E plan \in BOOLEAN : PressInject(t, plan))
       \/ PreparingFails(t) \/ SendInjection(t) \/ InjectionTimesOut(t)

\* The timers are up sooner or later.
CoordFairness ==
  /\ WF_coordVars(ConnectFails)
  /\ \A t \in CoordTxs : WF_coordVars(InjectionTimesOut(t))

CoordSpec == CoordInit /\ [][CoordNext]_coordVars /\ CoordFairness

-----------------------------------------------------------------------------
(* Properties *)

\* The type invariant.
CoordTypeOK ==
  /\ coordStep \in {"connect", "build", "share"}
  /\ coordLine \in {"opening", "asking", "open", "closed"}
  /\ {connecting, injecting} \subseteq BOOLEAN
  /\ {toSchedule, preparing, sentTxs, awaiting, executed} \subseteq SUBSET CoordTxs
  /\ history \in [CoordTxs -> {"none", "PENDING", "SUCCESS", "FAILURE"}]
  /\ monitor \in [state : MonitorStates, tx : CoordTxs \cup {NoCoordTx}, plan : BOOLEAN]
  /\ held \in [tx : CoordTxs \cup {NoCoordTx}, status : MonitorStates,
             running : CoordTxs \cup {NoCoordTx}]

\* The history that the coordinator exports names nothing that was not sent, and
\* says SUCCESS of nothing that the network has not executed, though the answers
\* to several injections, timeouts, resets and outcomes cross on the way.
HistoryTrue ==
  \A t \in CoordTxs :
    /\ history[t] # "none" => t \in sentTxs
    /\ history[t] = "SUCCESS" => t \in executed

\* Connecting and waiting for the answer to an injection end, whether the server
\* answers or not, and whether the socket is still there.
CoordinatorWaitsEnd ==
  /\ connecting ~> ~connecting
  /\ \A t \in CoordTxs : t \in awaiting ~> t \notin awaiting
=============================================================================
