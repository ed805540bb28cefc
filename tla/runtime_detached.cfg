\* A detached start, whose child checks the record too.
CONSTANTS
    Pids = {p1, p2, p3}
    None = None
SPECIFICATION Spec
SYMMETRY Symmetry
PROPERTIES
    RefusesOnlyForAnother
