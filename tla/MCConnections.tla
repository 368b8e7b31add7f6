---------------------------- MODULE MCConnections ----------------------------
(* Reconnection on small instances, and when the users have left before they *)
(* made a connection, either the registry by itself, whose sockets are those *)
(* of any other clients that may send anything at any time, or the page that *)
(* sits on the browser client, with its own simpler server.                  *)
EXTENDS MCReconnection, SessionPage

Elsewhere ==
  /\ \A u \in Users : gone[u]
  /\ \A s \in Socks : end[s] = "none"

\* Which unused socket is next, and which free id, does not matter.  Bound: one
\* socket stays unused.
AnyClient ==
  /\ Elsewhere
  /\ \/ TransactionStep
     \/ /\ Cardinality({s \in Socks : state[s] = "new"}) > 1
        /\ HandleConnection(CHOOSE s \in Socks : state[s] = "new")
     \/ \E s \in Socks :
          \/ HandleCoordinatorAuth(s)
          \/ HandleClose(s)
          \/ HandleParticipantReady(s)
          \/ HandleSignatureSubmit(s)
          \/ HandleTransactionRejected(s)
          \/ \E named \in Statuses : HandleStatusUpdate(s, named)
          \/ \E p \in Pids : HandleReconnect(s, p)
          \/ /\ \E p \in Pids : Fresh(p)
             /\ HandleAuth(s, NewPid)
  /\ UNCHANGED <<link, person>>

\* The page runs while no socket of the registry's was ever used.
PageByItself == Elsewhere /\ Init /\ PageNext

ConnectionsNext ==
  \/ PageInit /\ (ReconnectionNext \/ AnyClient) /\ UNCHANGED pageVars
  \/ PageByItself /\ UNCHANGED all

ConnectionsInit == Init /\ ClientInit /\ PageInit

FairConnections ==
  /\ ConnectionsInit
  /\ [][ConnectionsNext]_<<all, pageVars>> /\ Fairness

\* The type invariant: the registry's and the page's.
ConnectionsTypeOK == TypeOK /\ PageTypeOK
=============================================================================
