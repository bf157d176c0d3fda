\* Two objects: one to take the address of the other, and to be made inside
\* the construction of the other.  CHECK_DEADLOCK FALSE: after the environment
\* has ended and all objects are finalized the thread is done.
SPECIFICATION MCSpec
CONSTANTS
    o1 = o1
    o2 = o2
    Objects = {o1, o2}
    MaxHolders = 2
    MaxShares = 1
    MaxItems = 3
    MaxCalls = 4
SYMMETRY Symmetry
INVARIANTS
    TypeOK
    InUseIsAlive
    LetGoIsFreed
    FailuresAreKnown
    GeneratorsKeepProtocol
CHECK_DEADLOCK FALSE
