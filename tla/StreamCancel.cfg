SPECIFICATION Spec
CONSTANTS
    MaxChunks = 2
    MaxSpurious = 1
INVARIANTS
    CancelFreesStream
