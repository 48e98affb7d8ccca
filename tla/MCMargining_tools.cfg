SPECIFICATION Spec
CONSTANTS
    Tools = {a, b}
    Ports <- MCPorts
INVARIANT TypeOK
INVARIANT NeverDestructive
INVARIANT NoPanic
INVARIANT ShownIsMeasured
INVARIANT EveryMarginMeasured
CHECK_DEADLOCK FALSE
SYMMETRY Symmetry
