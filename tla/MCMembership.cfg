SPECIFICATION SerialSpec
CONSTANTS
    base = base
    outside = outside
    user = user
    group1 = group1
    group2 = group2
    NoDN = NoDN
    NoPassword = NoPassword
    DNs = {base, user, group1, group2}
    MemberDNs = {user, group1, group2}
    BaseDN = base
    Parent <- MCParent
    ClassesAt <- MCClassesAt
    Attrs = {}
    Required <- MCRequired
    Passwords = {}
    MaxId = 5
    ForeignKeys = FALSE
    MaxDepth = 1
SYMMETRY MCSymmetry
INVARIANTS
    CycleProtectionExact
    SearchMatchesProjection
    ShownMembershipHonoured
PROPERTIES
    NewUserInNoGroup
CHECK_DEADLOCK FALSE
