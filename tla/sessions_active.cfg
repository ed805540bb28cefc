CONSTANTS
    Streams = {s1, s2}
    Agents = {a1}
    Names = {n1}
    Hosts = {h1}
    Admins = {m1}
    None = None
    MaxCrashes = 0
SPECIFICATION Spec
PROPERTIES
    ActiveTunnelStays
