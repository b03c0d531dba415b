SPECIFICATION Spec
CONSTANTS
    base = base
    outside = outside
    people = people
    staff = staff
    alice = alice
    bob = bob
    team = team
    NoDN = NoDN
    NoPassword = NoPassword
    NoQuery = NoQuery
    NoWalk = NoWalk
    DNs = {base, people, staff, alice, bob, team}
    MemberDNs = {alice, bob}
    BaseDN = base
    Parent <- MCParent
    ClassesAt <- MCClassesAt
    Attrs = {}
    Required <- MCRequired
    Passwords = {}
    MaxId = 9
    ForeignKeys = FALSE
    MaxDepth = 4
    TextOrder <- MCTextOrder
    Walks <- MCWalks
    Seed <- MCSeed
    MaxWrites = 3
    MaxInt = 15
    MaxCount = 2
    MaxPageSize = 3
INVARIANTS
    WalkShowsAll
    DirectoryShowsOnce
PROPERTIES
    PagesAsAsked
CHECK_DEADLOCK FALSE
