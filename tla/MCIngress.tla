----------------------------- MODULE MCIngress -----------------------------
(* Ingress on a small instance. *)
EXTENDS Ingress

NoneGiven == [user |-> Blank, pass |-> Blank, header |-> Blank, secret |-> Blank]

(* Every mode once, the header's for the ranges only. *)
OneOfEach ==
    {[mode |-> "public", fields |-> NoneGiven, ips |-> {}]}
    \cup {[mode |-> "basic_auth", fields |-> [NoneGiven EXCEPT !.user = u, !.pass = p], ips |-> {}] :
             u \in Users, p \in Passwords}
    \cup {[mode |-> "shared_secret_header", ips |-> Prefixes,
           fields |-> [NoneGiven EXCEPT !.header = h, !.secret = k]] : h \in Headers, k \in Secrets}

(* And what may be wrong or left out: no password given, to be kept if there is
   one; no mode; a range that does not parse. *)
SomeInputs ==
    OneOfEach
    \cup {[mode |-> "basic_auth", fields |-> [NoneGiven EXCEPT !.user = u], ips |-> {}] : u \in Users}
    \cup {[mode |-> Blank, fields |-> NoneGiven, ips |-> {Malformed}]}

(* One half of what the rules ask for each, from inside and outside the ranges. *)
Halves ==
    {[user |-> u, pass |-> p, headers |-> [h \in Headers |-> Blank], from |-> {}] :
        u \in Users, p \in Passwords}
    \cup {[user |-> Blank, pass |-> Blank, headers |-> [h \in Headers |-> k], from |-> f] :
        k \in Secrets, f \in {{}, Prefixes}}
=============================================================================
