SPECIFICATION FairSpec
CONSTANTS
    Routers = {1, 2}
    MaxHotplug = 2
    MaxAuth = 1
    MaxRefresh = 1
    PollMayFail = TRUE
INVARIANT TypeOK
INVARIANT NoRouterLost
INVARIANT ListSorted
INVARIANT DetailsFollowSelection
INVARIANT ListExact
PROPERTY ListFollowsBus
PROPERTY SelectionSticky
PROPERTY MembershipSettles
\* The environment is bounded: it may have nothing left to do.
CHECK_DEADLOCK FALSE
