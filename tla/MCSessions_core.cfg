SPECIFICATION Spec
CONSTANTS
    alice = alice  bob = bob  ghost = ghost
    xdgA = xdgA  xdgB = xdgB  homeA = homeA  homeB = homeB
    data = data  extra = extra  disk = disk
    Targets = {xdgA, homeA, data}
    Params = {disk}
    Names = {alice, ghost}
    Users = {alice}
    Clients = {c1, c2}
    Configs <- ConfigBoth
    XdgPath <- XdgPaths
    HomePath <- HomePaths
    Below <- InHome
    Tokens = {t1, t2}
    Faults = {"serialize", "auth_read", "mount"}
    MaxCount = 2
    MaxCrashes = 0
    None = None  Unreadable = Unreadable  Garbage = Garbage
    NoCall = NoCall  NoReply = NoReply  Leftover = Leftover
SYMMETRY Symmetry
INVARIANTS
    TypeOK
    AuthorizedMountsOnly
    SessionsCounted
    MountsMatchGuards
PROPERTIES
    OpenAnswersAreTrue
