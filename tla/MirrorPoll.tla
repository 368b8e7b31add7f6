------------------------------- MODULE MirrorPoll -------------------------------
(***************************************************************************)
(* useMirrorPoll: the coordinator's page asks the mirror node what became  *)
(* of a transaction, every three seconds and at most so many times, until  *)
(* it learns it.  The interval does not wait for the answers, so several   *)
(* requests may be under way and answered in any order, also after the     *)
(* page has gone on to another transaction.                                *)
(*                                                                         *)
(* The mirror node is external: every request is answered in the end, by   *)
(* the record, by "not found" or by an error.                              *)
(***************************************************************************)
EXTENDS Naturals

CONSTANTS
  PollTxs,      \* transaction ids the page polls for
  NoPollTx,     \* null
  PollLimit,  \* MAX_ATTEMPTS
  MaxRuns,      \* bound: times that the effect starts
  MaxLate       \* bound: polls beyond PollLimit

ASSUME PollAssumption ==
  /\ NoPollTx \notin PollTxs
  /\ PollLimit \in Nat \ {0} /\ {MaxRuns, MaxLate} \subseteq Nat

VARIABLES
  target,     \* the hook's txId while enabled, else NoPollTx
  reqId,      \* reqIdRef
  preDelay,   \* the timer before the first poll is set
  interval,   \* the polling interval is set
  tries,      \* attemptCount of the latest run
  requests,   \* fetches under way
  pollPhase,  \* state.phase
  found       \* state.result: the transaction it is about

pollVars ==
  <<target, reqId, preDelay, interval, tries, requests, pollPhase, found>>

PollPhases == {"idle", "submitting", "polling", "confirmed", "timed-out"}
Fetches == [req : 1..MaxRuns, n : 1..(PollLimit + MaxLate), tx : PollTxs]

PollInit ==
  /\ target = NoPollTx /\ reqId = 0
  /\ preDelay = FALSE /\ interval = FALSE
  /\ tries = 0 /\ requests = {}
  /\ pollPhase = "idle" /\ found = NoPollTx

\* cleanup
TimersCleared == preDelay' = FALSE /\ interval' = FALSE

\* The effect runs for a transaction: the threshold is met, or the page has
\* another one.
StartPolling(t) ==
  /\ t # target /\ reqId < MaxRuns
  /\ target' = t /\ reqId' = reqId + 1
  /\ preDelay' = TRUE /\ interval' = FALSE
  /\ tries' = 0
  /\ pollPhase' = "submitting" /\ found' = NoPollTx
  /\ UNCHANGED requests

\* The effect runs disabled.  reqIdRef stays, so that what is under way may
\* still be taken for current.
StopPolling ==
  /\ target # NoPollTx
  /\ target' = NoPollTx
  /\ TimersCleared
  /\ pollPhase' = "idle" /\ found' = NoPollTx
  /\ UNCHANGED <<reqId, tries, requests>>

\* poll, up to its await.
PollOnce ==
  /\ tries' = tries + 1
  /\ requests' = requests \cup {[req |-> reqId, n |-> tries + 1, tx |-> target]}
  /\ pollPhase' = "polling"
  /\ UNCHANGED <<target, reqId, found>>

FirstPoll ==
  /\ preDelay
  /\ preDelay' = FALSE /\ interval' = TRUE
  /\ PollOnce

NextPoll ==
  /\ interval /\ tries < PollLimit + MaxLate
  /\ PollOnce
  /\ UNCHANGED <<preDelay, interval>>

\* Mutation: what was asked before the page went on is not told apart.
CurrentAny(f) == TRUE

Current(f) == f.req = reqId

GivesUp(a) == tries >= PollLimit

\* poll, after its await.
PollAnswered(f, a) ==
  /\ f \in requests
  /\ requests' = requests \ {f}
  /\ \/ /\ ~Current(f) \/ (a # "record" /\ ~GivesUp(a))
        /\ UNCHANGED <<preDelay, interval, pollPhase, found>>
     \/ /\ Current(f) /\ a = "record"
        /\ pollPhase' = "confirmed" /\ found' = f.tx
        /\ TimersCleared
     \/ /\ Current(f) /\ a # "record" /\ GivesUp(a)
        /\ pollPhase' = "timed-out" /\ UNCHANGED found
        /\ TimersCleared
  /\ UNCHANGED <<target, reqId, tries>>

FetchAnswers == {"record", "not found", "error"}

PollNext ==
  \/ \E t \in PollTxs : StartPolling(t)
  \/ StopPolling
  \/ FirstPoll \/ NextPoll
  \/ \E f \in Fetches, a \in FetchAnswers : PollAnswered(f, a)

\* Timers fire, and requests are answered as long as any is under way.
PollFairness ==
  /\ WF_pollVars(FirstPoll \/ NextPoll)
  /\ WF_pollVars(\E f \in Fetches, a \in FetchAnswers : PollAnswered(f, a))

PollSpec == PollInit /\ [][PollNext]_pollVars /\ PollFairness

-----------------------------------------------------------------------------
(* Properties *)

\* The type invariant.
PollTypeOK ==
  /\ target \in PollTxs \cup {NoPollTx}
  /\ found \in PollTxs \cup {NoPollTx}
  /\ reqId \in 0..MaxRuns /\ tries \in 0..(PollLimit + MaxLate)
  /\ preDelay \in BOOLEAN /\ interval \in BOOLEAN
  /\ requests \subseteq Fetches
  /\ pollPhase \in PollPhases

\* While the page polls for a transaction, the record it shows is that one's,
\* however late the answers about an earlier one arrive.
RecordIsCurrent == target # NoPollTx => found \in {target, NoPollTx}

\* The page does not poll for ever, also when the mirror node answers with
\* errors only: it learns the outcome, gives up, or is told to stop.
PollingEnds == interval ~> ~interval
=============================================================================
