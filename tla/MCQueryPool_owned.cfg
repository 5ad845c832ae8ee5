CONSTANTS
    Threads = {t1, t2}
    NoThread = NoThread
    MaxContexts = 2
    Modes = {"ultimate_type_safe"}
    Usage = "owned"

SPECIFICATION Spec
SYMMETRY Symmetry

INVARIANTS
    TypeOK
    HandlesDisjoint
    ActiveIffHeld
    LevelMatchesStage
    ScanCurrent
    OwnedInv

PROPERTIES
    StageNeverRegresses
    ImplementsPipeline
