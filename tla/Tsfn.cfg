SPECIFICATION Spec
CONSTANTS
    t1 = t1
    t2 = t2
    js = js
    Threads = {t1, t2}
    Js = js
    Callers = {t1}
    Aborters = {t1, js}
    Variants = {"direct", "callback", "async"}
    Modes = {"blocking", "nonblocking"}
    MaxQueueSize = 2
    CalleeHandled = FALSE
    WriterPreferring = FALSE
    MaxCalls = 3
INVARIANTS
    IndInv
    NoCallAfterFinalize
    ReleaseSucceedsInLiveEnv
    CallersAreTold
