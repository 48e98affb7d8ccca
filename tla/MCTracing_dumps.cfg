SPECIFICATION FairSpec
CONSTANTS
    p0 = p0
    p1 = p1
    Tools = {t1}
    Tbman = Tbman
    Places <- MCPlaces
    Domains <- MCDomains
    All = All
    DomainOf <- MCDomainOf
    RouteOf <- MCRouteOf
    Sent <- MCSent
    Lane1 <- MCLane1
    MaxBuffer = 2
    MaxRouters = 2
    MaxEvents = 3
    MaxCommands = 3
INVARIANT TypeOK
INVARIANT OnlyAskedDomain
INVARIANT ShownInOrder
INVARIANT NamesOfRouter
PROPERTY NothingMissed
PROPERTY DumpEnds
\* Commands and packets are bounded: there may be nothing left to do.
CHECK_DEADLOCK FALSE
