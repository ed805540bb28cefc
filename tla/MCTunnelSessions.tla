-------------------------- MODULE MCTunnelSessions --------------------------
(* TunnelSessions on small instances. *)
EXTENDS TunnelSessions, TLC

(* Streams, agents, admins, tunnel names and hostnames are interchangeable. *)
Symmetry == Permutations(Streams) \cup Permutations(Agents) \cup Permutations(Names)
              \cup Permutations(Hosts) \cup Permutations(Admins)
=============================================================================
