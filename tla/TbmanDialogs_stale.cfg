SPECIFICATION Spec
CONSTANTS
    Routers = {1, 2}
    Changing = {1, 2}
    Flawed = {}
    MaxLayers = 3
INVARIANT DialogFollowsSelection
CHECK_DEADLOCK FALSE
