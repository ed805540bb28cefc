\* Two subjects, a browser login and device logins, one token, two requests at a time.
CONSTANTS
    Subjects = {u1, u2}
    Groups = {g1}
    AdminSubjects = {}
    AdminGroups = {g1}
    Logins = {l1}
    Tokens = {t1}
    Requests = {q1, q2}
    Writers = {q1, q2}
    Domains = {d1}
    Idle = Idle
    None = None
SPECIFICATION AdminSpec
SYMMETRY Symmetry
INVARIANTS
    AdminTypeOK
    LoginOnce
    SessionOfSubject
    FileHoldsList
PROPERTIES
    OverStaysOver
    DemotionSettles
    OnlyAdminsChange
    KeepsBook
