SPECIFICATION AnalysisSpec
CONSTANTS
    admin = admin
    boss = boss
    clerk = clerk
    org = org
    oldtx = oldtx
    newtx = newtx
    other = other
    travel = travel
    cash = cash
    Users = {admin, boss, clerk}
    Orgs = {org}
    TxIds = {oldtx, newtx}
    MutationIds = {}
    AccountKinds = {cash}
    CategoryNames = {other, travel}
    OtherCategory = other
    Amounts = {3}
    None = None
    Instants = {3, 7}
    DayLength = 2
    MonthLength = 4
    Beijing = 1
    Ranges = {1, 2}
    LegacyDocuments <- MCLegacyDocuments
VIEW View
INVARIANTS
    RowsFitSchema
    ReportsAgree
    CashFlowIsBalance
    QueuesComplete
    PagesComplete
PROPERTIES
    ClosedMonthsFixed
