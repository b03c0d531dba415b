SPECIFICATION Spec
CONSTANTS
    base = base
    outside = outside
    user = user
    group = group
    NoDN = NoDN
    NoPassword = NoPassword
    DNs = {base, user, group}
    MemberDNs = {user, group}
    BaseDN = base
    Parent <- MCParent
    ClassesAt <- MCClassesAt
    Attrs <- MCAttrs
    Required <- MCRequired
    Passwords = {}
    MaxId = 4
    ForeignKeys = FALSE
    MaxDepth = 2
    Wild = "*"
    Comparators = {"ge"}
    NameOf <- MCNameOf
    ValueOf <- MCValueOf
    Bodies <- MCBodies
    Requests <- SubstringRequests
    NoRequest = NoRequest
    MaxRaces = 3
INVARIANTS
    SubstringsHonoured
CHECK_DEADLOCK FALSE
