--------------------------- MODULE MCReconnection ---------------------------
(* Reconnection on small instances. *)
EXTENDS Reconnection

\* Every connection made, and every one lost and made again, has a socket.
ASSUME EnoughSockets ==
  Cardinality(Socks) > Cardinality(Users) + MaxDrops
=============================================================================
