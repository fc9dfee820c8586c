CONSTANTS
    W = 8
    Ops <- SystemOps
    Instrs <- InstrWord
    Contexts <- SystemContexts
    Admits <- SystemAdmits
    Garbage = {0, 1}
SPECIFICATION MCSpec
PROPERTY ImplementsNextPCSafety
