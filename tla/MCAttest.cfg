CONSTANTS
    Statements <- MCStatements
    Schemas <- MCSchemas
    LevelOf <- MCLevelOf
    LevelPass <- CheckLevel
    Parts <- Subtrees
    StmtWires <- MCStmtWires
    SchemaWires <- MCSchemaWires
    StmtOf <- MCStmtOf
    SchemaOf <- MCSchemaOf
    Keys = {"k1", "k2"}
    Calls <- MCCalls
    ClaimedLevels <- MCClaimedLevels

SPECIFICATION FairSpec

INVARIANTS
    AttestTypeOK
    ChannelsAgree
    AcceptedIsCertified

PROPERTIES
    CallReturns
