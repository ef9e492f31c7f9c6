SPECIFICATION Spec
CONSTANTS
    alice = alice  bob = bob  ghost = ghost
    xdgA = xdgA  xdgB = xdgB  homeA = homeA  homeB = homeB
    data = data  extra = extra  disk = disk
    Targets = {xdgA, homeA, data, extra}
    Params = {disk}
    Names = {alice}
    Users = {alice}
    Clients = {c1}
    Configs <- ConfigTwo
    XdgPath <- XdgPaths
    HomePath <- HomePaths
    Below <- Apart
    Tokens = {t1}
    Faults = {}
    MaxCount = 1
    MaxCrashes = 0
    None = None  Unreadable = Unreadable  Garbage = Garbage
    NoCall = NoCall  NoReply = NoReply  Leftover = Leftover
PROPERTIES
    AuthorizedConfigAccepted
