CONSTANTS
    W = 8
    Ops <- BranchOps
    Instrs <- InstrWord
    Contexts <- BranchContexts
    Admits <- AnyContext
    Garbage = {0}
SPECIFICATION MCSpec
INVARIANT TypeOK
PROPERTY ImplementsNextPC
