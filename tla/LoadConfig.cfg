SPECIFICATION Spec
CONSTANTS
    cw = cw
    tp = tp
    NoObject = NoObject
    Kinds <- MCKinds
    Docs <- MCDocs
INVARIANTS TypeOK ParsedIsComplete OwnObjects WritesAccepted MappingAsDocumented FailedStartUndone
