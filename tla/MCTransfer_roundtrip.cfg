CONSTANTS
    MaxDepth = 3
    MaxExprDepth = 4
    LenWidth = 2
    WordWidth = 2
    UsizeMax = 65535
    TextLength = 1
    Text <- MCText
    Texts <- MCTexts
    Trees <- MCTrees
    Damaged <- MCDamaged
    Answer <- ParseOp
    Encoded <- Put
    Received <- Forget
    Nesting <- Deepest
    Within <- Inside

SPECIFICATION TransferSpec

CHECK_DEADLOCK FALSE

INVARIANTS
    RoundTrip
