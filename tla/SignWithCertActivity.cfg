SPECIFICATION Spec
CONSTANTS
    Keys <- MCKeys
    AlgOf <- MCAlgOf
    PqcAlgs <- MCPqcAlgs
    SignatureAlgs <- MCSignatureAlgs
    Certs <- MCCerts
    MaxTime = 0
    a1 = a1
    a2 = a2
    p1 = p1
    Aliases = {a1, a2}
    NoEntry = NoEntry
    Files <- MCFiles
    Documents = {d1, d2}
    Data = {x1}
    Unreadable = Unreadable
    Nothing = Nothing
    Passwords = {p1, p2}
    Zeroed = Zeroed
    NoPassword = NoPassword
    Arrays = {r1, r2, r3}
    NoArray = NoArray
INVARIANTS
    TypeOK
    PasswordOfSession
    SignatureMatchesSelection
    SignReadyWhenEnabled
PROPERTIES
    EmptyFileExplained
