SPECIFICATION PassingSpec
CONSTANTS
    MaxDepth = 2
    MaxErrors = 2
    MaxCauses = 2
    Refs = {1, 2, 3}
    Thrown = {"caused", "oddcause", "hostile", "symbol", "object"}
    Names <- MCNames
    Indices <- MCIndices
    Empty = "empty"
    Injected = Injected
    TinyBits = 1
    SmallBits = 2
    SafeBits = 3
    WordBits = 5
INVARIANTS
    CallTypeOK RefsAreHeld ErrorsAreTold
    DataComesBack TypesAreTrue
