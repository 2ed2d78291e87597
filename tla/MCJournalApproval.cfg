SPECIFICATION Spec
CONSTANTS
    clerk = clerk
    chief = chief
    owner = owner
    e1 = e1
    c1 = c1
    c2 = c2
    Users = {clerk, chief, owner}
    EntryIds = {e1}
    Currencies = {"CNY", "USD"}
    Drafts <- MCDrafts
    Book <- MCBook
    InitialMembers <- MCMembers
    NewMembers <- MCNewMembers
    Callers = {c1, c2}
    MaxSubmissions = 2
    None = None
SYMMETRY Symmetry
INVARIANTS
    RequestsSound
    PostedWithGrounds
    PostedBalanced
    UndisturbedAgree
