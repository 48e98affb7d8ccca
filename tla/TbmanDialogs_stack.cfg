SPECIFICATION Spec
CONSTANTS
    Routers = {1, 2, 3}
    Changing = {1, 3}
    Flawed = {2}
    MaxLayers = 3
INVARIANT TypeOK
INVARIANT DialogFollowsCalmly
INVARIANT NoPanicCalmly
CHECK_DEADLOCK FALSE
