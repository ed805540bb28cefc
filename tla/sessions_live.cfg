\* One agent, two streams that contend for one hostname, under fair handlers.
CONSTANTS
    Streams = {s1, s2}
    Agents = {a1}
    Names = {n1}
    Hosts = {h1}
    Admins = {m1}
    None = None
    MaxCrashes = 1
SPECIFICATION FairSpec
PROPERTIES
    DeadStreamReleasesHost
    RowsCatchUp
