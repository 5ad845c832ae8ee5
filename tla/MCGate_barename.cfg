CONSTANTS
    Statements <- MCStatements
    Schemas <- MCSchemas
    Transitions <- MCTransitions
    Requests <- MCRequests
    EmptySchema <- MCEmptySchema
    LevelOf <- InferRequestedLevel
    LevelPass <- CheckLevel
    Parts <- Subtrees
    TransitionPass <- TransitionAdmissible
CHECK_DEADLOCK FALSE
SPECIFICATION Spec
INVARIANT BareNameFailsSchemaBound
