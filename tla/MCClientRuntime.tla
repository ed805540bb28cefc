-------------------------- MODULE MCClientRuntime --------------------------
(* ClientRuntime on a small instance. *)
EXTENDS ClientRuntime, TLC

(* PIDs are interchangeable. *)
Symmetry == Permutations(Pids)
=============================================================================
