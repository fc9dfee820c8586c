CONSTANTS
    W = 8
    Ops <- DPLinearOps
    Instrs <- InstrWord
    Contexts <- DPLinearContexts
    Admits <- AnyContext
    Garbage = {0}
SPECIFICATION MCSpec
PROPERTY ImplementsNextPC
