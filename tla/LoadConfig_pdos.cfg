SPECIFICATION Spec
CONSTANTS
    cw = cw
    tp = tp
    NoObject = NoObject
    Kinds <- MCKinds
    Docs <- MCManyPdos
INVARIANTS WritesAcceptedOfMany
