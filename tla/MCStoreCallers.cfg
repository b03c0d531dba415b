SPECIFICATION Spec
CONSTANTS
    base = base
    outside = outside
    user = user
    group = group
    naming = naming
    NoDN = NoDN
    NoPassword = NoPassword
    NoEntry = NoEntry
    DNs = {base, user, group}
    MemberDNs = {user}
    BaseDN = base
    Parent <- MCParent
    ClassesAt <- MCClassesAt
    Attrs = {naming}
    Required <- MCRequired
    Passwords = {h1}
    Callers = {c1}
    MaxId = 4
    ForeignKeys = FALSE
INVARIANTS
    ClassRows
    UuidIdentifies
    MembersInSync
PROPERTIES
    PasswordKept
    ImplementsDirectory
CHECK_DEADLOCK FALSE
