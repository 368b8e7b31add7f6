----------------------------- MODULE ServerProcess -----------------------------
(***************************************************************************)
(* WebSocketServer as a process: start with its tunnel, the heartbeat over *)
(* the open sockets, stop.  What its messages do is in the other modules.  *)
(*                                                                         *)
(* Sockets, the HTTP server and the tunnel's provider are external.  A     *)
(* prompt peer's pong arrives before the next heartbeat; a silent one      *)
(* never answers, nor closes.                                              *)
(***************************************************************************)
EXTENDS Naturals, FiniteSets

CONSTANTS Peers  \* clients of the server, one socket each

VARIABLES
  phase,   \* of start() and stop()
  tunnel,  \* this.tunnel, and a provider's attempt
  tunnelOption, \* --tunnel-provider, or none
  origins, \* who may connect from a browser: listed, any, or nobody
  timers,  \* this server's intervals in TimerController
  conn,    \* each peer's socket
  isAlive, \* ws.isAlive
  owes,    \* the peers whose pong has not arrived
  manner   \* how each peer behaves

processVars ==
  <<phase, tunnel, tunnelOption, origins, timers, conn, isAlive, owes, manner>>

Phases == {"new", "listening", "closing", "up", "refused", "failed",
           "detaching", "stopping", "stopped"}

\* The constructor sets the sweep of the rate limits going.
ProcessInit ==
  /\ phase = "new"
  /\ tunnel = "none"
  /\ tunnelOption \in {"none", "auto", "ngrok", "localtunnel"}
  /\ origins \in {"nobody", "listed", "any"}
  /\ timers = {"rate-limit-cleanup"}
  /\ conn = [p \in Peers |-> "none"]
  /\ isAlive = [p \in Peers |-> TRUE]
  /\ owes = {}
  /\ manner \in [Peers -> [prompt : BOOLEAN, origin : {"none", "listed", "other"}]]

Open == {p \in Peers : conn[p] = "open"}

-----------------------------------------------------------------------------
(* start()                                                                 *)

\* A tunnel without a list of origins is refused before anything listens.
StartRefused ==
  /\ phase = "new" /\ tunnelOption # "none" /\ origins = "nobody"
  /\ phase' = "refused"
  /\ UNCHANGED <<tunnel, tunnelOption, origins, timers, conn, isAlive, owes, manner>>

\* The listen callback: the heartbeat, then the tunnel is waited for.
Listen ==
  /\ phase = "new"
  /\ ~(tunnelOption # "none" /\ origins = "nobody")
  /\ phase' = IF tunnelOption = "none" THEN "up" ELSE "listening"
  /\ timers' = timers \cup {"ws-heartbeat"}
  /\ UNCHANGED <<tunnel, tunnelOption, origins, conn, isAlive, owes, manner>>

\* _startTunnel: with auto, ngrok and then localtunnel.
TunnelOpens ==
  /\ phase = "listening"
  /\ tunnel' = IF tunnelOption = "auto" THEN "ngrok" ELSE tunnelOption
  /\ phase' = "up"
  /\ UNCHANGED <<tunnelOption, origins, timers, conn, isAlive, owes, manner>>

LocaltunnelOpens ==
  /\ phase = "listening" /\ tunnelOption = "auto"
  /\ tunnel' = "localtunnel"
  /\ phase' = "up"
  /\ UNCHANGED <<tunnelOption, origins, timers, conn, isAlive, owes, manner>>

\* Auto goes on without a tunnel; a provider asked for by name is required.
TunnelFails ==
  /\ phase = "listening"
  /\ phase' = IF tunnelOption = "auto" THEN "up" ELSE "closing"
  /\ UNCHANGED <<tunnel, tunnelOption, origins, timers, conn, isAlive, owes, manner>>

\* server.close answers when the last connection has ended: start() rejects.
StartFails ==
  /\ phase = "closing" /\ Open = {}
  /\ phase' = "failed"
  /\ UNCHANGED <<tunnel, tunnelOption, origins, timers, conn, isAlive, owes, manner>>

-----------------------------------------------------------------------------
(* Connections and the heartbeat                                           *)

\* verifyClient
Verified(p) ==
  \/ manner[p].origin = "none"
  \/ origins = "any"
  \/ origins = "listed" /\ manner[p].origin = "listed"

\* _handleConnection
Connect(p) ==
  /\ phase \in {"listening", "up", "detaching"} /\ conn[p] = "none" /\ Verified(p)
  /\ conn' = [conn EXCEPT ![p] = "open"]
  /\ isAlive' = [isAlive EXCEPT ![p] = TRUE]
  /\ UNCHANGED <<phase, tunnel, tunnelOption, origins, timers, owes, manner>>

PeerCloses(p) ==
  /\ p \in Open /\ manner[p].prompt
  /\ conn' = [conn EXCEPT ![p] = "closed"]
  /\ UNCHANGED <<phase, tunnel, tunnelOption, origins, timers, isAlive, owes, manner>>

\* Mutation: a pong is not noted.
AnsweredNot(p) == isAlive' = isAlive

\* The pong listener of _handleConnection.
Answered(p) == isAlive' = [isAlive EXCEPT ![p] = TRUE]

Pong(p) ==
  /\ p \in Open \cap owes /\ manner[p].prompt
  /\ Answered(p)
  /\ owes' = owes \ {p}
  /\ UNCHANGED <<phase, tunnel, tunnelOption, origins, timers, conn, manner>>

\* Mutation: a peer that missed a ping is only pinged again.
DeadNever == {}

\* Those that have not answered since the heartbeat before.
Dead == {p \in Open : ~isAlive[p]}

\* _sendHeartbeats.  The prompt have had their time.
SendHeartbeats ==
  /\ "ws-heartbeat" \in timers
  /\ \A p \in Open \cap owes : ~manner[p].prompt
  /\ conn' = [p \in Peers |-> IF p \in Dead THEN "terminated" ELSE conn[p]]
  /\ isAlive' = [p \in Peers |-> IF p \in Open \ Dead THEN FALSE ELSE isAlive[p]]
  /\ owes' = Open \ Dead
  /\ UNCHANGED <<phase, tunnel, tunnelOption, origins, timers, manner>>

-----------------------------------------------------------------------------
(* stop(), which the command calls once start() has resolved                *)

\* _stopTunnel
TunnelStopped == tunnel' = "none"

Stop ==
  /\ phase = "up"
  /\ phase' = "detaching"
  /\ UNCHANGED <<tunnel, tunnelOption, origins, timers, conn, isAlive, owes, manner>>

\* Mutation: the heartbeat is left on.
TimersStoppedSome == timers' = timers \ {"rate-limit-cleanup"}

\* _stopHeartbeat, and the sweep's timer.
TimersStopped == timers' = {}

\* Then every socket is closed; one that does not answer ws itself gives up.
StopListening ==
  /\ phase = "detaching"
  /\ TunnelStopped /\ TimersStopped
  /\ phase' = "stopping"
  /\ UNCHANGED <<tunnelOption, origins, conn, isAlive, owes, manner>>

SocketEnds(p) ==
  /\ phase = "stopping" /\ p \in Open
  /\ conn' = [conn EXCEPT ![p] = "closed"]
  /\ UNCHANGED <<phase, tunnel, tunnelOption, origins, timers, isAlive, owes, manner>>

Stopped ==
  /\ phase = "stopping" /\ Open = {}
  /\ phase' = "stopped"
  /\ UNCHANGED <<tunnel, tunnelOption, origins, timers, conn, isAlive, owes, manner>>

ProcessNext ==
  \/ StartRefused \/ Listen \/ TunnelOpens \/ LocaltunnelOpens \/ TunnelFails
  \/ StartFails
  \/ \E p \in Peers : Connect(p) \/ PeerCloses(p) \/ Pong(p) \/ SocketEnds(p)
  \/ SendHeartbeats
  \/ Stop \/ StopListening \/ Stopped

\* What start() and stop() go on with: the answer of the provider or of
\* server.close, or their own next step.
StartOrStopGoesOn ==
  \/ StartRefused \/ Listen \/ TunnelOpens \/ TunnelFails \/ StartFails
  \/ StopListening \/ Stopped

\* Those answers come, prompt peers answer, the interval fires, and a socket ends
\* when it was asked to.  Nobody need connect, leave or stop.
ProcessFairness ==
  /\ WF_processVars(StartOrStopGoesOn)
  /\ WF_processVars(SendHeartbeats)
  /\ \A p \in Peers : WF_processVars(Pong(p)) /\ WF_processVars(SocketEnds(p))

ProcessSpec == ProcessInit /\ [][ProcessNext]_processVars /\ ProcessFairness

-----------------------------------------------------------------------------
(* Properties *)

\* The type invariant.
ProcessTypeOK ==
  /\ phase \in Phases
  /\ tunnel \in {"none", "ngrok", "localtunnel"}
  /\ timers \subseteq {"rate-limit-cleanup", "ws-heartbeat"}
  /\ conn \in [Peers -> {"none", "open", "closed", "terminated"}]
  /\ owes \subseteq Peers
  /\ isAlive \in [Peers -> BOOLEAN]

\* The heartbeat cuts off nobody who answers within its interval, ...
PromptPeersKept == \A p \in Peers : conn[p] = "terminated" => ~manner[p].prompt

\* ... and everybody who falls silent, while the server is up.
SilentPeersLeave ==
  \A p \in Peers :
    (p \in Open /\ ~manner[p].prompt) ~> (p \notin Open \/ timers = {})

\* Whoever is connected when a tunnel fails, or when the server is stopped,
\* start() and stop() come to an end, unless a peer that answers pings keeps a
\* failed start waiting; and a stopped server leaves nothing running.
StartAndStopEnd ==
  /\ phase \in {"listening", "closing"}
       ~> (phase \in {"up", "refused", "failed"} \/ \E p \in Open : manner[p].prompt)
  /\ phase \in {"detaching", "stopping"}
       ~> (phase = "stopped" /\ timers = {} /\ tunnel = "none" /\ Open = {})
=============================================================================
