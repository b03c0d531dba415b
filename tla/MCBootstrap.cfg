SPECIFICATION Spec
CHECK_DEADLOCK FALSE
CONSTANTS
    DNs <- MCDNs
    BaseDN = "base"
    Parent <- MCParent
    NoDN = "none"
    ClassesAt <- MCClassesAt
    Attrs = {"name"}
    Required <- MCRequired
    MemberDNs = {"admin"}
    Passwords = {hash}
    NoPassword = noPassword
    MaxId = 5
    ForeignKeys = FALSE
    Procs = {server, import}
    UsersDN = "users"
    GroupsDN = "groups"
    AdminDN = "admin"
    AdminGroupDN = "admins"
    AdminHash = hash
    IndexUsers = 2
    DropColumns = 3
    AdminGroup = 4
    EntryUuids = 5
    LastMigration = 6
    MaxStarts = 3
INVARIANTS SoleInitializer SchemaBeforeUse InitializerServesAll
