CONSTANTS
    W = 8
    Ops <- UDivZeroOps
    Instrs <- InstrWord
    Contexts <- DivEdgeContexts
    Admits <- AnyContext
    Garbage = {0}
SPECIFICATION MCSpec
INVARIANT ComputedValue
