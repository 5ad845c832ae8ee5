CONSTANTS
    Threads = {t1}
    NoThread = NoThread
    MaxContexts = 1
    Modes = {"slipstream", "dependent_types", "ultimate_type_safe"}
    Usage = "owned"

SPECIFICATION Spec

PROPERTIES
    LevelNeverDecreases
