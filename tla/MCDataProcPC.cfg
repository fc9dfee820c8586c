CONSTANTS
    W = 8
    Ops <- DPPCOps
    Instrs <- InstrWord
    Contexts <- DPContexts
    Admits <- AnyContext
    Garbage = {0}
SPECIFICATION MCSpec
PROPERTY ImplementsNextPCSafety
