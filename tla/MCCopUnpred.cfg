CONSTANTS
    W = 8
    Ops <- CopUnpredOps
    Instrs <- InstrWord
    Contexts <- CopContexts
    Admits <- AnyContext
    Garbage = {0}
SPECIFICATION MCSpec
PROPERTY ImplementsNextPC
