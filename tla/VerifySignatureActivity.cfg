SPECIFICATION Spec
CONSTANTS
    Keys <- MCKeys
    AlgOf <- MCAlgOf
    PqcAlgs <- MCPqcAlgs
    SignatureAlgs <- MCSignatureAlgs
    Certs <- MCCerts
    MaxTime = 1
    Documents = {d1, d2}
    Contents = {x1, x2}
    SigFiles = {s1}
    Unreadable = Unreadable
    Nothing = Nothing
INVARIANTS
    TypeOK
    ButtonsMatchSelection
    VerdictMatchesSelection
    ValidIsSound
