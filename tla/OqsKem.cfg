SPECIFICATION Spec
CONSTANTS
    a1 = a1
    a2 = a2
    Algorithms = {a1, a2}
    Lengths <- MCLengths
    Objects = {o1}
    Addresses = {p1, p2}
    NULL = NULL
    Free = Free
    KeyLengths = {0, 2, 5}
    Given = {k}
    Fresh = {k, k2}
    Blank = Blank
    Junk = Junk
    NoObject = NoObject
    Secrets = {s}
    Rejected = Rejected
    NoAnswer = NoAnswer
SYMMETRY MCSymmetry
INVARIANTS
    NoWildAccess
    SecretsCoincide
PROPERTIES
    ContractSpec
