SPECIFICATION Spec
CONSTANTS
    r1 = r1
    r2 = r2
    i1 = i1
    mail = mail
    token = token
    Requests = {r1, r2}
    Ips = {i1}
    Logins = {mail, token}
    Surface <- MCSurface
    AnyLogin = AnyLogin
    TurnstileAfter = 1
    LoginLimit = 3
    IpLimit = 3
    RateLimit = 2
    Window = 3
    Lockout = 2
    MaxTracked = 2
    MaxTime = 3
    None = None
SYMMETRY Symmetry
CONSTRAINT OneKind
INVARIANTS
    TypeOK
    GuessesBounded
    ChallengedInTime
    
PROPERTIES
    ImplementsLimits
