SPECIFICATION Spec
CONSTANTS
    r1 = r1
    r2 = r2
    expense = expense
    password = password
    member = member
    Requests = {r1, r2}
    LedgerOps = {expense, member}
    AuthOps = {password, member}
    LoggedOps = {expense}
    AuditedOps = {password, member}
    MaxCrashes = 0
    None = None
SYMMETRY Symmetry
INVARIANTS
    NothingHalfStored
