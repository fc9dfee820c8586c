CONSTANTS
    W = 8
    Ops <- CondDirectOps
    Instrs <- InstrWord
    Contexts <- FewContexts
    Admits <- AnyContext
    Garbage = {0}
SPECIFICATION MCSpec
PROPERTY ImplementsNextPC
