---------------------------- MODULE MCTunnelConn ----------------------------
(* TunnelConn on a small instance.  The runs check liveness, so the requests
   are not declared interchangeable. *)
EXTENDS TunnelConn
=============================================================================
