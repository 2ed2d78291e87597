SPECIFICATION Spec
CONSTANTS
    org = org
    platform = platform
    r1 = r1
    r2 = r2
    r3 = r3
    shop = shop
    d1 = d1
    d2 = d2
    a1 = a1
    a2 = a2
    server = server
    tool = tool
    w1 = w1
    w2 = w2
    Scopes = {org, shop, platform}
    Platform = platform
    LegacyRows <- MCLegacyRows
    DomainEvents <- MCDomainEvents
    SecurityEvents <- MCSecurityEvents
    Starters = {server, tool}
    Server = server
    Writers = {w1, w2}
    Micro = 2
    None = None
SYMMETRY Symmetry
INVARIANTS
    ChainsVerify
    AppendsAccepted
    LegacyComesFirst
