SPECIFICATION Spec
CONSTANTS
    alice = alice  root = root  path = path  disk = disk  media = media
    m1 = m1  m2 = m2  k1 = k1  k2 = k2  pw = pw  pin = pin  salt = salt  shell = shell
    Secrets = {m1, m2, k1, k2, pw, pin}
    First72 <- Short
    Salts = {salt}
    Targets = {media}
    Params = {disk}
    SessionCommands = {shell}
    None = None  Missing = Missing  Torn = Torn
    Undecodable = Undecodable  Err = Err
    Users = {alice, root}
    Paths = {path}
    Procs = {p1}
    Invocations <- ByRoot
    InitialFiles <- NoFile
    Faults = {}
    MaxStarts = 2
INVARIANTS
    SetupKeepsExistingKey
CHECK_DEADLOCK FALSE
