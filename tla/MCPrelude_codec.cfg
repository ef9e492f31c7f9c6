SPECIFICATION Spec
CONSTANTS
    TOKEN_LEN = 2
    ENCRYPTED_KEY_LEN = 2
    NONCE_LEN = 2
    TAG_LEN = 1
    RSA_LEN = 6
    PrivKeys = {k1, k2}
    AesKeys = {a1, a2}
    Nonces = {n1}
    Passwords <- AllPasswords
    OneTimeTokens <- AllTokens
    None = None
INVARIANTS
    TypeOK
    DeliveredAsSent
    HonestArrives
    CutIsRefused
