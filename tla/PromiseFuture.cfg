SPECIFICATION AwaitSpec
CONSTANTS
    j1 = j1
    NoJob = NoJob
    Jobs = {j1}
    MaxShutdowns = 1
INVARIANTS
    AwaitTypeOK
    AnswersAreSingle
PROPERTIES
    SettlesOnce
    FutureSettles
