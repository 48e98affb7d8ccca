------------------------------ MODULE MCTracing ------------------------------
(***************************************************************************)
(* Two domains with a router behind the same adapter of each host, so that *)
(* they have the same route; the second one is of USB4 v2, whose lane 1    *)
(* adapters have no path config space.                                     *)
(***************************************************************************)
EXTENDS Tracing

CONSTANTS p0, p1

MCPlaces == {p0, p1}
MCDomains == {0, 1}
MCDomainOf == [p \in MCPlaces |-> IF p = p0 THEN 0 ELSE 1]
MCRouteOf == [p \in MCPlaces |-> 1]
MCSent == {[kind |-> "config", part |-> "paths"]}
          \union [kind : {"plug", "xdomain", "unknown"}, part : {"regs"}]
MCLane1 == {p1}
=============================================================================
