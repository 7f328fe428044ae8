SPECIFICATION Spec
CONSTANTS
    Keys = {k1, k2, k3, k4, k5}
    Blank = Blank
    Documents = {d1, d2}
    Data = {x1, x2}
    Unreadable = Unreadable
    Absent = Absent
    Torn = Torn
    Nothing = Nothing
SYMMETRY MCSymmetry
INVARIANTS
    TypeOK
    KeysBelongTogether
    GeneratedIsSaved
    SignedVerifies
    ValidIsSound
