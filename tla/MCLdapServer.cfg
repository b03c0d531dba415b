SPECIFICATION Spec
CONSTANTS
    base = base
    outside = outside
    admin = admin
    admins = admins
    alice = alice
    naming = naming
    p1 = p1
    p2 = p2
    NoDN = NoDN
    NoPassword = NoPassword
    NoEntry = NoEntry
    NoRequest = NoRequest
    DNs = {base, admin, admins, alice}
    MemberDNs = {admin, alice}
    BaseDN = base
    Parent <- MCParent
    ClassesAt <- MCClassesAt
    Attrs = {naming}
    Required <- MCRequired
    Passwords = {p1, p2}
    MaxId = 7
    ForeignKeys = FALSE
    MaxDepth = 2
    Conns = {c1, c2}
    Requests <- MCRequests
    MaxRequests = 5
    AdminGroup = admins
    AllowAnonymous = FALSE
    Seed <- MCSeed
PROPERTIES
    WritesAuthorized
    SelfServiceNarrow
    BindDecidesIdentity
    AnswersJustified
    Answered
CHECK_DEADLOCK FALSE
