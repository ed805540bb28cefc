--------------------------- MODULE MCAccessRules ---------------------------
(* AccessRules on small instances. *)
EXTENDS AccessRules

(* The inputs two editors use against each other: a full one, and one that
   leaves the password blank. *)
PasswordInputs ==
    {i \in Input : i.mode = "basic_auth" /\ i.ips = {} /\ i.fields.user # Blank
                     /\ i.fields.header = Blank /\ i.fields.secret = Blank}
=============================================================================
