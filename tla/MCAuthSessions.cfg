SPECIFICATION Spec
CONSTANTS
    u1 = u1
    u2 = u2
    Users = {u1, u2}
    Orgs = {o1}
    o1 = o1
    i1 = i1
    Installations = {i1}
    ClientKinds = {"Tauri", "Web"}
    MaxSessions = 3
    MaxPasswords = 2
    MaxLeaving = 1
    MaxUncertain = 2
    None = None
SYMMETRY Symmetry
VIEW View
INVARIANTS
    ChangeEndsSessions
    OneLiveSessionPerFamily
    AuthInvariant
PROPERTIES
    EndedStaysEnded
