SPECIFICATION Spec
CONSTANTS
    t1 = t1
    js = js
    Threads = {t1}
    Js = js
    Callers = {t1, js}
    Aborters = {}
    Variants = {"direct"}
    Modes = {"nonblocking"}
    MaxQueueSize = 0
    CalleeHandled = FALSE
    WriterPreferring = FALSE
    MaxCalls = 1
INVARIANT
    ReleaseSucceeds
