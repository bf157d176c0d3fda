SPECIFICATION FairSpec
CONSTANTS
    t1 = t1
    t2 = t2
    js = js
    Threads = {t1, t2}
    Js = js
    Callers = {t1, t2}
    Aborters = {t1, js}
    Variants = {"direct", "async"}
    Modes = {"blocking", "nonblocking"}
    MaxQueueSize = 1
    CalleeHandled = TRUE
    WriterPreferring = TRUE
    MaxCalls = 1
PROPERTIES
    CallsReturn
    AsyncSettles
    DroppedIsFreed
