\* One request, one administrator's updates, good or bad, two tunnels at the hostname and two connections.
CONSTANTS
    Editors = {e1}
    Inputs <- SomeInputs
    Users = {u1}
    Passwords = {p1}
    Headers = {x1}
    Secrets = {k1}
    Prefixes = {c1}
    Malformed = Malformed
    Blank = Blank
    None = None
    MaxTunnels = 2
    Requests = {r1}
    Presented <- Halves
    Conns = {n1, n2}
SPECIFICATION IngressSpec
INVARIANTS
    IngressTypeOK
    RowsHaveRules
    RuleComplete
PROPERTIES
    AdmittedByRule
    BlankKeeps
CHECK_DEADLOCK FALSE
