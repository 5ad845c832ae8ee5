CONSTANTS
    Threads = {t1}
    NoThread = NoThread
    MaxContexts = 2
    Modes = {"slipstream", "dependent_types", "ultimate_type_safe"}
    Usage = "any"

SPECIFICATION Spec

INVARIANTS
    DestroyedHandleRefused
    CallerKnowsHandle

PROPERTIES
    ImplementsPipeline
