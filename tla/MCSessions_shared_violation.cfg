SPECIFICATION Spec
CONSTANTS
    alice = alice  bob = bob  ghost = ghost
    xdgA = xdgA  xdgB = xdgB  homeA = homeA  homeB = homeB
    data = data  extra = extra  disk = disk
    Targets = {xdgA, xdgB, homeA, homeB, data}
    Params = {disk}
    Names = {alice, bob}
    Users = {alice, bob}
    Clients = {c1, c2}
    Configs <- ConfigData
    XdgPath <- XdgPaths
    HomePath <- HomePaths
    Below <- Apart
    Tokens = {t1, t2}
    Faults = {}
    MaxCount = 1
    MaxCrashes = 0
    None = None  Unreadable = Unreadable  Garbage = Garbage
    NoCall = NoCall  NoReply = NoReply  Leftover = Leftover
SYMMETRY Symmetry
INVARIANTS
    SessionMountsPresent
