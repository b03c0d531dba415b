SPECIFICATION Spec
CONSTANTS
    base = base
    outside = outside
    people = people
    teams = teams
    admin = admin
    admins = admins
    alice = alice
    team = team
    p1 = p1
    p2 = p2
    NoDN = NoDN
    NoPassword = NoPassword
    NoEntry = NoEntry
    NoRequest = NoRequest
    DNs = {base, people, teams, admin, admins, alice, team}
    MemberDNs = {admin, alice}
    BaseDN = base
    Parent <- MCParent
    ClassesAt <- MCClassesAt
    Attrs = {"uid", "cn", "ou"}
    Required <- MCRequired
    Passwords = {p1, p2}
    MaxId = 9
    ForeignKeys = FALSE
    MaxDepth = 2
    Handlers = {h1, h2}
    Requests <- MCRequests
    MaxRequests = 3
    AdminGroup = admins
    PasswordGroup = team
    Seed <- MCSeed
SYMMETRY MCSymmetry
PROPERTIES
    WebWritesAuthorized
    WritesAskedEntry
    AnswersAsAsked
    ClosedOnlyByRace
    ServiceKeepsValid
CHECK_DEADLOCK FALSE
