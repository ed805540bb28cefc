\* One tunnel name and one hostname, contended by two streams and two agents.
CONSTANTS
    Streams = {s1, s2}
    Agents = {a1, a2}
    Names = {n1}
    Hosts = {h1}
    Admins = {m1}
    None = None
    MaxCrashes = 1
SPECIFICATION Spec
SYMMETRY Symmetry
INVARIANTS
    TypeOK
    EntryHasHandler
    OpenIsRegistered
    RegisteredIsOpen
PROPERTIES
    OnlyCrashesStrandAgents
    RevocationSettles
    UnassignmentSettles
    ImplementsLease
