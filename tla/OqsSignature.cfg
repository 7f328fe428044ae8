SPECIFICATION Spec
CONSTANTS
    a1 = a1
    a2 = a2
    Algorithms = {a1}
    Lengths <- MCLengths
    Objects = {o1, o2}
    Addresses = {p1, p2}
    NULL = NULL
    Free = Free
    KeyLengths = {0, 2}
    Given = {k}
    Fresh = {k}
    Blank = Blank
    Junk = Junk
    NoObject = NoObject
    Data = {d}
    NoAnswer = NoAnswer
SYMMETRY MCSymmetry
INVARIANTS
    TypeOK
    HandleValid
    NoWildAccess
    SignedVerifies
PROPERTIES
    SecretsReleased
    ContractSpec
