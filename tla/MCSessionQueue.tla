--------------------------- MODULE MCSessionQueue ---------------------------
(* Small instances of SessionQueue for TLC. *)
EXTENDS SessionQueue, TLC

CONSTANTS hub, conn

\* The hub can fill the channel and the overflow; the handler joins in once.
HubMostly == hub :> 3 @@ conn :> 1
=============================================================================
