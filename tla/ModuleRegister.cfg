SPECIFICATION BufSpec
CONSTANTS
    b1 = b1
    Buffers = {b1}
    e1 = e1
    e2 = e2
    e3 = e3
    th1 = th1
    th2 = th2
    None = None
    Envs = {e1, e2, e3}
    Threads = {th1, th2}
INVARIANTS
    BufTypeOK
    RegisteredIsReady
PROPERTIES
    RegistrationEnds
    BuffersAreDeleted
