SPECIFICATION Spec
CONSTANTS
    base = base
    outside = outside
    people = people
    alice = alice
    team = team
    crew = crew
    p1 = p1
    p2 = p2
    NoDN = NoDN
    NoPassword = NoPassword
    DNs = {base, people, alice, team, crew}
    MemberDNs = {alice, team}
    BaseDN = base
    Parent <- MCParent
    ClassesAt <- MCClassesAt
    Attrs = {}
    Required <- MCRequired
    Passwords = {p1, p2}
    MaxId = 9
    ForeignKeys = FALSE
    MaxDepth = 4
    Files <- MCFiles
    Generated = p2
    Seed <- MCSeed
    MaxRuns = 2
    MaxWrites = 2
INVARIANTS
    ImportIsOverlay
    PlanHonoured
    RerunCompletes
    ExportImportable
CHECK_DEADLOCK FALSE
