SPECIFICATION Spec
CONSTANTS
    Tools = {a}
    Ports <- MCPorts
INVARIANT MarginsOfTheirLane
CHECK_DEADLOCK FALSE
