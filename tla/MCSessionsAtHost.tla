-------------------------- MODULE MCSessionsAtHost --------------------------
(* SessionsAtHost on a small instance. *)
EXTENDS SessionsAtHost, TLC

(* Streams, agents, admins and tunnel names are interchangeable. *)
Symmetry == Permutations(Streams) \cup Permutations(Agents) \cup Permutations(Names)
              \cup Permutations(Admins)
=============================================================================
