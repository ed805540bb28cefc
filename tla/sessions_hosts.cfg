\* Two hostnames, one of which is watched: a tunnel at each in turn, and a restart.
CONSTANTS
    Streams = {s1, s2}
    Agents = {a1}
    Names = {n1}
    Hosts = {h1, h2}
    Admins = {m1}
    None = None
    MaxCrashes = 1
    Host = h1
    MaxTunnels = 1
    MaxTurns = 1
SPECIFICATION AtSpec
SYMMETRY Symmetry
PROPERTIES
    OnlyCrashesStrandTunnels
    ServesAsAssumed
