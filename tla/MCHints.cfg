CONSTANTS
    W = 8
    Ops <- HintOps
    Instrs <- InstrWord
    Contexts <- FewContexts
    Admits <- AnyContext
    Garbage = {0}
SPECIFICATION MCSpec
PROPERTY ImplementsNextPC
