SPECIFICATION FairPamSpec
CONSTANTS
    alice = alice  xdgA = xdgA  homeA = homeA  disk = disk
    Targets = {xdgA, homeA}
    Params = {disk}
    Names = {alice}
    Users = {alice}
    Clients = {c1, c2}
    Configs <- NoConfigs
    XdgPath <- XdgPaths
    HomePath <- HomePaths
    Below <- Apart
    Tokens = {t1}
    Faults = {"key", "crash"}
    PamFaults = {}
    MaxCount = 2
    MaxCrashes = 1
    None = None  Unreadable = Unreadable  Garbage = Garbage
    NoCall = NoCall  NoReply = NoReply  Leftover = Leftover
    Missing = Missing  Torn = Torn
PROPERTIES
    HooksReturn
