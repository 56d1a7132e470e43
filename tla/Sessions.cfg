SPECIFICATION Spec
CONSTANTS
    alice = alice
    l1 = l1
    l2 = l2
    m1 = m1
    m2 = m2
    manage_books = manage_books
    read_books = read_books
    NoMigrator = NoMigrator
    NoAccount = NoAccount
    Idle = Idle
    Refused = Refused
    Migrators = {m1, m2}
    Users = {alice}
    Logins = {l1, l2}
    Permissions = {manage_books, read_books}
    ManageBooks = manage_books
    Rights <- MCRights
    AccessTTL = 1
    RefreshTTL = 2
    MaxTime = 3
SYMMETRY Interchangeable
INVARIANTS
    TypeOK
    VersionTellsSchema
    AdmitsWhileRefreshed
    RightsOfTheLogin
    AdminsOnly
PROPERTIES
    OverForGood
    UpgradesKeepAccounts
CHECK_DEADLOCK FALSE
