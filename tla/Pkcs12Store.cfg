SPECIFICATION Spec
CONSTANTS
    Keys <- MCKeys
    AlgOf <- MCAlgOf
    PqcAlgs <- MCPqcAlgs
    SignatureAlgs <- MCSignatureAlgs
    Certs <- MCCerts
    MaxTime = 2
    Aliases = {a1, a2}
    Passwords = {p1, p2}
    NoEntry = NoEntry
INVARIANTS
    TypeOK
    EntriesVetted
    AckedIsReadable
PROPERTIES
    LossNeedsInterruptionOrOtherPassword
    VaultSpec
