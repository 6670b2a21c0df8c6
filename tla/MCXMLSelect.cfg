SPECIFICATION Spec

CONSTANTS
    Document <- MCDocument
    Path <- MCPath
    Masks <- MCMasks
    OutSize = 16
    MaxScopes = 3
    MaxFollows = 16
    MaxTriggers = 8
    MaxTokens = 24

INVARIANTS
    ItemsAsWritten
    SelectionIsRight

CHECK_DEADLOCK FALSE
