SPECIFICATION MechSpec
CONSTANTS
    SigNames <- MCSigNames
    KemNames <- MCKemNames
    OtherNames <- MCOtherNames
INVARIANTS
    ListsComplete
    ListsTellOutcome
    GuardsTellFamilies
