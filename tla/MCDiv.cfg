CONSTANTS
    W = 8
    Ops <- DivOps
    Instrs <- InstrWord
    Contexts <- DivContexts
    Admits <- AnyContext
    Garbage = {0}
SPECIFICATION MCSpec
INVARIANT ComputedValue
