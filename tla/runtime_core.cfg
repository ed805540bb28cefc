\* Three processes at a time, PIDs given again at once.
CONSTANTS
    Pids = {p1, p2, p3}
    None = None
SPECIFICATION Spec
SYMMETRY Symmetry
INVARIANTS
    TypeOK
    StoppedIsGone
PROPERTIES
    RecordKept
    SparesStrangers
