--------------------------- MODULE MCAdminDomains ---------------------------
(* AdminDomains on a small instance. *)
EXTENDS AdminDomains, TLC

(* Subjects, logins, tokens and requests are interchangeable: the configuration
   names no subject. *)
Symmetry == Permutations(Subjects) \cup Permutations(Logins) \cup Permutations(Tokens)
              \cup Permutations(Requests)
=============================================================================
