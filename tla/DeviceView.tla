----------------------------- MODULE DeviceView -----------------------------
(***************************************************************************)
(* What a live view of the bus promises, however it gets its information:  *)
(* a connected router is on the screen or announced; it comes onto the     *)
(* screen because it was announced, and leaves because it was unplugged or *)
(* because the whole view is being built anew. Announcements are delivered *)
(* in any order and in any number of steps.                                *)
(***************************************************************************)

CONSTANT Routers

VARIABLES
    present,  \* the routers that are connected
    shown,    \* the routers on the screen
    coming,   \* the routers that are announced
    going     \* the routers whose removal is announced

vars == <<present, shown, coming, going>>

Init ==
    /\ present \in SUBSET Routers
    /\ shown = {}
    /\ present \subseteq coming
    /\ going = {}

Plug(r) ==
    /\ r \notin present
    /\ present' = present \union {r}
    /\ coming' = coming \union {r}
    /\ UNCHANGED <<shown, going>>

Unplug(r) ==
    /\ r \in present
    /\ present' = present \ {r}
    /\ going' = going \union {r}
    /\ UNCHANGED <<shown, coming>>

\* Announcements are acted upon, or turn out to be void. None of a connected
\* router is dropped unless the router is on the screen.
Deliver ==
    /\ shown' \ shown \subseteq coming
    /\ shown \ shown' \subseteq going
    /\ coming' \subseteq coming /\ present \ shown' \subseteq coming'
    /\ going' \subseteq going
    /\ UNCHANGED present

\* The view is built anew: it is empty first, and what is connected announced.
Refresh ==
    /\ shown' = {}
    /\ present \subseteq coming' /\ coming' \subseteq coming \union present
    /\ UNCHANGED <<present, going>>

Next ==
    \/ \E r \in Routers : Plug(r) \/ Unplug(r)
    \/ Deliver \/ Refresh

Spec == Init /\ [][Next]_vars
=============================================================================
