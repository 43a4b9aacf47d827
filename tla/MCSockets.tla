-------------------------------- MODULE MCSockets --------------------------------
(* A browser that may connect three times to two replicas.                       *)
EXTENDS Sockets

FairSockets == SocketsSpec /\ SocketsFairness
================================================================================
