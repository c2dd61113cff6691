------------------------------ MODULE MCTunnel ------------------------------
(* A tunnel of one user, while another connection of that user looks up a  *)
(* name that does not resolve.                                             *)
EXTENDS Tunnel

CONSTANTS c1, c2, alice

MCOwner == [c \in Conns |-> alice]

\* One chunk each way.
MCSends == [s \in Streams |-> 1]
=============================================================================
