SPECIFICATION FairSpec
CONSTANTS
    Keys <- MCKeys
    AlgOf <- MCAlgOf
    PqcAlgs <- MCPqcAlgs
    SignatureAlgs <- MCSignatureAlgs
    Certs <- MCCerts
    MaxTime = 1
    Aliases = {a1, a2}
    NoEntry = NoEntry
    Nothing = Nothing
    Passwords = {p1, p2}
    Zeroed = Zeroed
    NoPassword = NoPassword
    Arrays = {r1, r2, r3}
    NoArray = NoArray
INVARIANTS
    TypeOK
    SessionAgrees
    PasswordOfSession
    PromptServesSession
    ImportOfOneFlow
    ListedIsReadable
PROPERTIES
    EnrolmentIsForGood
