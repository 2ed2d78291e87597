SPECIFICATION Spec
CONSTANTS
    u1 = u1
    u2 = u2
    u3 = u3
    o1 = o1
    t1 = t1
    t2 = t2
    m1 = m1
    other = other
    cash = cash
    Users = {u1, u2, u3}
    Orgs = {o1}
    TxIds = {t1, t2}
    MutationIds = {m1}
    AccountKinds = {cash}
    CategoryNames = {other}
    OtherCategory = other
    Amounts = {3}
    None = None
SYMMETRY Symmetry
INVARIANTS
    AuditLogTellsState
    AuditLogFollowsWorkflow
    BalanceFollowsLog
    MutationRecordedOnce
PROPERTIES
    ImplementsLifecycle
