SPECIFICATION Spec
CONSTANTS
    alice = alice  root = root  path = path  disk = disk  media = media
    m1 = m1  m2 = m2  k1 = k1  k2 = k2  pw = pw  pin = pin  salt = salt  shell = shell
    Secrets = {m1, m2, k1, k2, pw, pin}
    First72 <- Short
    Salts = {salt}
    Targets = {media}
    Params = {disk}
    SessionCommands = {shell}
    None = None  Missing = Missing  Torn = Torn
    Undecodable = Undecodable  Err = Err
    Users = {alice}
    Paths = {path}
    Procs = {p1, p2}
    Invocations <- Commands
    InitialFiles <- Contents
    Faults = {"kill", "write_error", "dbus", "mistyped"}
    MaxStarts = 2
INVARIANTS
    TypeOK
    PartsKept
    ErrorsChangeNothing
    AddedMethodOpens
    SetupKeepsExistingKey
    MethodsBelongTogether
    GrantsAreOwnMounts
CHECK_DEADLOCK FALSE
