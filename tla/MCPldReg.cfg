CONSTANTS
    W = 8
    Ops <- PldRegOps
    Instrs <- InstrWord
    Contexts <- MiscContexts
    Admits <- AnyContext
    Garbage = {0}
SPECIFICATION MCSpec
PROPERTY ImplementsNextPC
