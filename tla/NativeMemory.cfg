SPECIFICATION MCSpec
CONSTANTS
    MaxBytes = 8
    MaxStrays = 2
    Natives = {n1, n2}
    Objects = {o1, o2}
    Tags = {"T", "U"}
    Nothing = Nothing
SYMMETRY Symmetry
INVARIANTS
    TypeOK
    FreedOnceUnused
    FreedInTheEnd
    AttachmentsAreFreed
