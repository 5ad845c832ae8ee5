CONSTANTS
    Threads = {t1, t2}
    NoThread = NoThread
    MaxContexts = 1
    Modes = {"ultimate_type_safe"}
    Usage = "any"

SPECIFICATION FairSharedSpec

INVARIANTS
    MutexHeldByScanner
    NothingUnearned

PROPERTIES
    MutexReleased
    PointerCallReturns
    IntactImplementsPipeline

VIEW View
