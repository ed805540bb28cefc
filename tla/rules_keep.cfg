\* Two updates of the same rule, one of which leaves the password blank.
CONSTANTS
    Editors = {e1, e2}
    Inputs <- PasswordInputs
    Users = {u1}
    Passwords = {p1, p2}
    Headers = {x1}
    Secrets = {k1}
    Prefixes = {c1}
    Malformed = Malformed
    Blank = Blank
    None = None
    MaxTunnels = 1
SPECIFICATION Spec
PROPERTIES
    BlankKeeps
CHECK_DEADLOCK FALSE
