SPECIFICATION Spec
CONSTANTS
    alice = alice  bob = bob  ghost = ghost
    xdgA = xdgA  xdgB = xdgB  homeA = homeA  homeB = homeB
    data = data  extra = extra  disk = disk
    Targets = {xdgA, xdgB, homeA, homeB}
    Params = {disk}
    Names = {alice, bob}
    Users = {alice, bob}
    Clients = {c1, c2}
    Configs <- ConfigHome
    XdgPath <- XdgPaths
    HomePath <- HomePaths
    Below <- Apart
    Tokens = {t1, t2}
    Faults = {"key", "mount", "crash"}
    MaxCount = 2
    MaxCrashes = 1
    None = None  Unreadable = Unreadable  Garbage = Garbage
    NoCall = NoCall  NoReply = NoReply  Leftover = Leftover
SYMMETRY Symmetry
INVARIANTS
    TokenAcceptedOnce
    SessionMountsPresent
    MountsMatchGuards
PROPERTIES
    MountsHeldUntilLastClose
    DiscardingUnmountsAll
