CONSTANTS
    Agents = {a1, a2, a3}
    Statements <- MCStatements
    Schemas <- MCSchemas
    LevelOf <- MCLevelOf
    LevelPass <- CheckLevel
    Parts <- Subtrees
    RecordFree <- NoRecord
SPECIFICATION Spec
CHECK_DEADLOCK FALSE
INVARIANT ConformsToCorpus
