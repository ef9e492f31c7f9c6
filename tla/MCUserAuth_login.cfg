SPECIFICATION Spec
CONSTANTS
    Salt1 = Salt1  Salt2 = Salt2
    Secrets = {Empty, s1, s2, s3}
    Empty = Empty
    First72 <- Short
    Salts = {Salt1, Salt2}
    MaxMethods = 2
    None = None
SYMMETRY Symmetry
INVARIANTS
    TypeOK
    AuthYieldsMain
    MethodsKeepWorking
PROPERTIES
    IntermediateKeyFixed
    LoginNeedsSecret
