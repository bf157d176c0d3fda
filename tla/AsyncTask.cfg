SPECIFICATION FairSpec
CONSTANTS
    t1 = t1
    t2 = t2
    s1 = s1
    None = None
    Tasks = {t1, t2}
    Signals = {s1}
INVARIANTS
    TypeOK
    OutcomeIsRight
PROPERTIES
    SettlesOnce
    RunSettles
