SPECIFICATION Spec
CONSTANTS
    u1 = u1
    m1 = m1
    m2 = m2
    t1 = t1
    t2 = t2
    Users = {u1}
    Mutations = {m1, m2}
    Tasks = {t1, t2}
    StoreErrors = FALSE
    MaxKills = 0
    None = None
CHECK_DEADLOCK FALSE
INVARIANTS
    QueuedIsKept
