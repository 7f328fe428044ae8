SPECIFICATION RandSpec
CONSTANTS
    Names = {"system", "NIST-KAT", "OpenSSL", "unknown"}
    Requests <- MCRequests
    Half = 4
    SeedLength = 2
    ArrayLengths = {0, 1, 2, 3}
    Null = Null
    MaxDrawn = 24
INVARIANTS
    ReturnedIsDrawn
PROPERTIES
    ThrowsUnchanged
