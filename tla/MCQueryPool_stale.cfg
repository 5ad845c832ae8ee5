CONSTANTS
    Threads = {t1, t2}
    NoThread = NoThread
    MaxContexts = 1
    Modes = {"slipstream"}
    Usage = "stale"

SPECIFICATION Spec

INVARIANTS
    DestroyedHandleRefused
