SPECIFICATION Spec
CONSTANTS
    u1 = u1
    u2 = u2
    u3 = u3
    u4 = u4
    o1 = o1
    o2 = o2
    t1 = t1
    other = other
    travel = travel
    cash = cash
    Users = {u1, u2, u3, u4}
    Orgs = {o1, o2}
    TxIds = {t1}
    MutationIds = {}
    AccountKinds = {cash}
    CategoryNames = {other, travel}
    OtherCategory = other
    Amounts = {3}
    None = None
SYMMETRY Symmetry
CONSTRAINT FewCategories
INVARIANTS
    TypeOK
    RecordsAndLogsAgree
    DutiesSeparated
    OwnersKept
    AdministratorsNeverAct
    AuditShownWithTransaction
PROPERTIES
    HistoryOnlyGrows
