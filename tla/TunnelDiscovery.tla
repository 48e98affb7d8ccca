--------------------------- MODULE TunnelDiscovery ---------------------------
(***************************************************************************)
(* The discovery of tunnels by tbtunnels.                                  *)
(*                                                                         *)
(* tbtunnels reads the state and the path config spaces of all adapters,   *)
(* one file after the other, while the kernel may be setting tunnels up or *)
(* tearing them down. From what it has read it then follows the paths: a   *)
(* path entry leads from an adapter and a HopID to another adapter of the  *)
(* router and the HopID of the link behind it. The walk goes on at the     *)
(* other end of the link and has no bound of its own.                      *)
(*                                                                         *)
(* A route is the sequence of the downstream adapters from the host on. A  *)
(* path is the sequence of its entries, a tunnel has a kind and the paths  *)
(* in the order in which they are looked for.                              *)
(***************************************************************************)
EXTENDS Integers, SequencesExt

CONSTANTS
    Order,      \* the routers and XDomains, as find_devices() sorts them
    XDomains,   \* those that are XDomains
    Kind,       \* the adapters of each router: a function from number to kind
    Upstream,   \* the number of the upstream adapter of each router
    MaxRing,    \* the maximum input HopID of host interfaces
    MaxHop,     \* the maximum input HopID of lanes
    Tunnels,    \* the tunnels the kernel may set up
    MaxDepth,   \* bound on the length of routes
    MaxChanges  \* bound on the steps of the kernel while tbtunnels reads

Routers == Range(Order) \ XDomains

Kinds == {"lane", "nhi", "usb3_down", "usb3_up", "dp_in", "dp_out",
          "pcie_down", "pcie_up"}

Sources == {"usb3_down", "dp_in", "pcie_down", "nhi"}

Adapters(r) == DOMAIN Kind[r]

Child(r, a) == Append(r, a)

\* Devices hang below adapters, and no adapter is both a router's way up and a
\* way down.
ASSUME OrderAssumption ==
    /\ Order \in Seq(Seq(Nat)) /\ Order # <<>>
    /\ \A i \in DOMAIN Order : Len(Order[i]) <= MaxDepth
    /\ \A d \in XDomains : d # <<>>
    /\ \A d \in Range(Order) :
           d # <<>> /\ Front(d) \in Routers => Last(d) \in Adapters(Front(d))
ASSUME BoundsAssumption == {MaxRing, MaxHop, MaxDepth, MaxChanges} \subseteq Nat
ASSUME AdaptersAssumption ==
    \A r \in Routers :
        /\ Adapters(r) \subseteq Nat
        /\ \A a \in Adapters(r) : Kind[r][a] \in Kinds
        /\ Upstream[r] \in Adapters(r)
        /\ Kind[r][Upstream[r]] = "lane" => r # <<>> /\ Front(r) \in Routers
        /\ \A c \in Routers : c # <<>> /\ Front(c) = r => Last(c) # Upstream[r]

Entries == [route : Routers, in : Nat, inHop : Nat, out : Nat, outHop : Nat]

\* What an entry is found by.
Key(e) == <<e.route, e.in, e.inHop>>

\* No path leaves a router where it has come in.
ASSUME TunnelsAssumption ==
    \A T \in Tunnels :
        /\ T.kind \in {"usb3", "dp", "pcie", "dma"}
        /\ T.paths \in Seq(Seq(Entries))
        /\ \A i \in DOMAIN T.paths : \A j \in DOMAIN T.paths[i] :
               LET e == T.paths[i][j]
               IN  e.in # e.out /\ {e.in, e.out} \subseteq Adapters(e.route)

VARIABLES
    up,       \* how far each tunnel is set up: its paths, enabled after them
    changes,  \* the steps the kernel has done
    stable,   \* the tunnels that have been up all the time
    pc,       \* what tbtunnels does
    pos,      \* the device it is at
    rest,     \* the adapters of this device still to be looked at
    enabled,  \* the sources it has seen enabled
    seen,     \* the path entries it has read
    walk,     \* discover_path(): where it is and what it has found
    search,   \* the tunnel looked for: kind and source, ring, XDomain and HopID
    paths,    \* its paths so far
    found     \* the tunnels discovered

kernelVars == <<up, changes, stable>>
snapshotVars == <<enabled, seen>>
tunnelVars == <<search, paths, found>>
vars == <<kernelVars, pc, pos, rest, snapshotVars, walk, tunnelVars>>

-----------------------------------------------------------------------------
(***************************************************************************)
(* The kernel. A tunnel is set up path by path, then its source is         *)
(* enabled; it is torn down the other way round. An entry of a path config *)
(* space belongs to one tunnel at a time.                                  *)
(***************************************************************************)
Enabled(T) == Len(T.paths) + 1

PathEntries(T, n) == UNION {Range(T.paths[i]) : i \in DOMAIN T.paths \cap 1..n}

Valid == UNION {PathEntries(T, up[T]) : T \in Tunnels}

Source(T) == <<T.paths[1][1].route, T.paths[1][1].in>>

EntriesOf(T) == PathEntries(T, Enabled(T))

Conflict(T, U) == \E e \in EntriesOf(T), f \in EntriesOf(U) : Key(e) = Key(f)

Reading == pc \in {"adapters", "paths"}

SetUp(T) ==
    /\ Reading /\ changes < MaxChanges
    /\ up[T] < Enabled(T)
    /\ \A U \in Tunnels \ {T} : up[U] > 0 => ~Conflict(T, U)
    /\ up' = [up EXCEPT ![T] = @ + 1]
    /\ changes' = changes + 1
    /\ UNCHANGED <<stable, pc, pos, rest, snapshotVars, walk, tunnelVars>>

TearDown(T) ==
    /\ Reading /\ changes < MaxChanges
    /\ up[T] > 0
    /\ up' = [up EXCEPT ![T] = @ - 1]
    /\ changes' = changes + 1
    /\ stable' = stable \ {T}
    /\ UNCHANGED <<pc, pos, rest, snapshotVars, walk, tunnelVars>>

IsEnabled(r, a) ==
    \/ Kind[r][a] = "nhi"
    \/ \E T \in Tunnels : up[T] = Enabled(T) /\ Source(T) = <<r, a>>

-----------------------------------------------------------------------------
(***************************************************************************)
(* tbtunnels reads the devices in order: the registers of each adapter, of *)
(* which the state of the sources matters, then the paths of each adapter. *)
(***************************************************************************)
AdaptersOf(d) == IF d \in XDomains THEN {} ELSE Adapters(d)

First(a) == a \in rest /\ \A b \in rest : a <= b

ReadAdapter(a) ==
    /\ pc = "adapters" /\ First(a)
    /\ LET r == Order[pos]
       IN  enabled' = IF Kind[r][a] \in Sources /\ IsEnabled(r, a)
                      THEN enabled \union {<<r, a>>} ELSE enabled
    /\ rest' = rest \ {a}
    /\ UNCHANGED <<kernelVars, pc, pos, seen, walk, tunnelVars>>

AdaptersRead ==
    /\ pc = "adapters" /\ rest = {}
    /\ pc' = "paths" /\ rest' = AdaptersOf(Order[pos])
    /\ UNCHANGED <<kernelVars, pos, snapshotVars, walk, tunnelVars>>

\* Mutant: the rings of the host interface begin where the HopIDs of links do.
MinHopOfLanes(kind) == 8

MinHop(kind) == IF kind = "nhi" THEN 1 ELSE 8

\* read_paths(): the valid entries from the minimum HopID on.
ReadPaths(a) ==
    /\ pc = "paths" /\ First(a)
    /\ seen' = seen \union
           {e \in Valid : /\ e.route = Order[pos] /\ e.in = a
                          /\ e.inHop >= MinHop(Kind[Order[pos]][a])}
    /\ rest' = rest \ {a}
    /\ UNCHANGED <<kernelVars, pc, pos, enabled, walk, tunnelVars>>

\* On to the next device, or to what comes after the last one.
NextDevice(next, end) ==
    \/ pos < Len(Order) /\ pos' = pos + 1 /\ pc' = next
    \/ pos = Len(Order) /\ pos' = 1 /\ pc' = end

\* Mutant: the adapters are still those of the device before.
DeviceReadStale ==
    /\ pc = "paths" /\ rest = {}
    /\ NextDevice("adapters", "pick")
    /\ rest' = AdaptersOf(Order[pos])
    /\ UNCHANGED <<kernelVars, snapshotVars, walk, tunnelVars>>

DeviceRead ==
    /\ pc = "paths" /\ rest = {}
    /\ NextDevice("adapters", "pick")
    /\ rest' = AdaptersOf(Order[pos'])
    /\ UNCHANGED <<kernelVars, snapshotVars, walk, tunnelVars>>

\* An error of a read ends tbtunnels.
ReadFails ==
    /\ Reading
    /\ pc' = "failed"
    /\ UNCHANGED <<kernelVars, pos, rest, snapshotVars, walk, tunnelVars>>

-----------------------------------------------------------------------------
(***************************************************************************)
(* discover_path(): the loop goes from entry to entry.                     *)
(***************************************************************************)
Walk(r, a, hop) ==
    [start |-> r, device |-> r, adapter |-> a, hop |-> hop, hops |-> <<>>]

StartWalk(r, a, hop) == walk' = Walk(r, a, hop) /\ pc' = "walk"

\* The router and the adapter at the other end of the link of a lane adapter.
\* An XDomain is not a router, and the upstream adapter of a host is no lane.
Beyond(r, a) ==
    CASE Kind[r][a] # "lane" -> {}
      [] Kind[r][a] = "lane" /\ a = Upstream[r] -> {<<Front(r), Last(r)>>}
      [] OTHER -> {<<c, Upstream[c]>> : c \in {Child(r, a)} \cap Routers}

Entry(e) == e \in seen /\ Key(e) = <<walk.device, walk.adapter, walk.hop>>

\* Mutant: the adapter stays the same.
OnwardStays(e, end) == [walk EXCEPT !.hops = Append(@, e), !.hop = e.outHop]

Onward(e, end) ==
    [walk EXCEPT !.hops = Append(@, e), !.hop = e.outHop,
                 !.device = end[1], !.adapter = end[2]]

Follow(e) ==
    /\ pc = "walk" /\ Entry(e)
    /\ \/ /\ \E end \in Beyond(e.route, e.out) : walk' = Onward(e, end)
          /\ UNCHANGED pc
       \/ /\ Beyond(e.route, e.out) = {}
          /\ walk' = [walk EXCEPT !.hops = Append(@, e)]
          /\ pc' = "walked"
    /\ UNCHANGED <<kernelVars, pos, rest, snapshotVars, tunnelVars>>

NoEntry ==
    /\ pc = "walk" /\ ~\E e \in seen : Entry(e)
    /\ pc' = "walked"
    /\ UNCHANGED <<kernelVars, pos, rest, snapshotVars, walk, tunnelVars>>

-----------------------------------------------------------------------------
(***************************************************************************)
(* Tunnel::discover() for each source in turn.                             *)
(***************************************************************************)
TunnelKind == [usb3_down |-> "usb3", dp_in |-> "dp", pcie_down |-> "pcie",
               nhi |-> "dma"]

\* The HopID the first path starts with.
FirstHop == [usb3 |-> 8, dp |-> 9, pcie |-> 8, dma |-> 1]

Pick(a) ==
    /\ pc = "pick" /\ First(a)
    /\ rest' = rest \ {a}
    /\ LET r == Order[pos]
       IN  \/ /\ <<r, a>> \in enabled
              /\ LET kind == TunnelKind[Kind[r][a]]
                 IN  /\ search' = [kind |-> kind, route |-> r, in |-> a,
                                   ring |-> 1, xdomain |-> 0, hop |-> 0]
                     /\ StartWalk(r, a, FirstHop[kind])
              /\ paths' = <<>>
           \/ <<r, a>> \notin enabled /\ UNCHANGED <<pc, walk, search, paths>>
    /\ UNCHANGED <<kernelVars, pos, snapshotVars, found>>

DevicePicked ==
    /\ pc = "pick" /\ rest = {}
    /\ NextDevice("pick", "done")
    /\ rest' = IF pc' = "done" THEN {} ELSE AdaptersOf(Order[pos'])
    /\ UNCHANGED <<kernelVars, snapshotVars, walk, tunnelVars>>

Tunnel(ps) == [kind |-> search.kind, paths |-> ps]

PathCount == [usb3 |-> 2, dp |-> 3, pcie |-> 2]

\* discover_usb3(), discover_dp() and discover_pcie(): the last path starts
\* where the one before has ended, and without any of them there is no tunnel.
TakePath ==
    /\ pc = "walked" /\ search.kind # "dma"
    /\ LET ps   == Append(paths, walk.hops)
           last == Last(walk.hops)
       IN  \/ /\ walk.hops = <<>>
              /\ pc' = "pick"
              /\ UNCHANGED <<walk, paths, found>>
           \/ /\ walk.hops # <<>> /\ Len(ps) = PathCount[search.kind]
              /\ found' = found \union {Tunnel(ps)}
              /\ pc' = "pick"
              /\ UNCHANGED <<walk, paths>>
           \/ /\ walk.hops # <<>> /\ Len(ps) < PathCount[search.kind]
              /\ paths' = ps
              /\ IF Len(ps) + 1 = PathCount[search.kind]
                 THEN StartWalk(last.route, last.out, 8)
                 ELSE StartWalk(search.route, search.in, 8)
              /\ UNCHANGED found
    /\ UNCHANGED <<kernelVars, pos, rest, snapshotVars, search>>

-----------------------------------------------------------------------------
(***************************************************************************)
(* discover_dma(): for each ring the path that starts there, and the first *)
(* path from behind an XDomain that ends with the number of the ring.      *)
(***************************************************************************)
IsTx == search.xdomain = 0

\* discover_one_dma() is over, with the paths ps.
RingDone(ps) ==
    /\ found' = IF ps = <<>> THEN found ELSE found \union {Tunnel(ps)}
    /\ paths' = <<>>
    /\ \/ /\ search.ring < MaxRing
          /\ search' = [search EXCEPT !.ring = @ + 1, !.xdomain = 0]
          /\ StartWalk(search.route, search.in, search.ring + 1)
       \/ /\ search.ring >= MaxRing
          /\ pc' = "pick" /\ UNCHANGED <<walk, search>>

TakeTx ==
    /\ pc = "walked" /\ search.kind = "dma" /\ IsTx
    /\ paths' = IF walk.hops = <<>> THEN <<>> ELSE <<walk.hops>>
    /\ search' = [search EXCEPT !.xdomain = 1]
    /\ pc' = "xdomain"
    /\ UNCHANGED <<kernelVars, pos, rest, snapshotVars, walk, found>>

\* The lane adapter of the router in front of the XDomain, from its minimum
\* HopID on.
NextXDomain ==
    /\ pc = "xdomain"
    /\ \/ /\ search.xdomain > Len(Order)
          /\ RingDone(paths)
       \/ /\ search.xdomain <= Len(Order)
          /\ LET d == Order[search.xdomain]
             IN  \/ /\ d \in XDomains /\ Front(d) \in Routers /\ 8 <= MaxHop
                    /\ search' = [search EXCEPT !.hop = 8]
                    /\ StartWalk(Front(d), Last(d), 8)
                 \/ /\ \/ d \notin XDomains \/ Front(d) \notin Routers
                       \/ 8 > MaxHop
                    /\ search' = [search EXCEPT !.xdomain = @ + 1]
                    /\ UNCHANGED <<pc, walk>>
          /\ UNCHANGED <<paths, found>>
    /\ UNCHANGED <<kernelVars, pos, rest, snapshotVars>>

Hit == walk.hops # <<>> /\ Last(walk.hops).outHop = search.ring

TakeRx ==
    /\ pc = "walked" /\ search.kind = "dma" /\ ~IsTx
    /\ \/ Hit /\ RingDone(Append(paths, walk.hops))
       \/ /\ ~Hit /\ search.hop < MaxHop
          /\ search' = [search EXCEPT !.hop = @ + 1]
          /\ StartWalk(walk.start, Last(Order[search.xdomain]), search.hop + 1)
          /\ UNCHANGED <<paths, found>>
       \/ /\ ~Hit /\ search.hop >= MaxHop
          /\ search' = [search EXCEPT !.xdomain = @ + 1]
          /\ pc' = "xdomain"
          /\ UNCHANGED <<walk, paths, found>>
    /\ UNCHANGED <<kernelVars, pos, rest, snapshotVars>>

-----------------------------------------------------------------------------
(***************************************************************************)
(* The tunnels the kernel sets up, as the discovery takes them to be: a    *)
(* path goes on at the other end of each link it leaves by and ends where  *)
(* there is none; paths start at the source, with the HopIDs that are      *)
(* looked for, or where the one before has ended, and the receiving path   *)
(* of a ring behind an XDomain.                                            *)
(***************************************************************************)
IsComplete(p) ==
    /\ p # <<>>
    /\ \A j \in 1..(Len(p) - 1) :
           /\ Beyond(p[j].route, p[j].out) = {<<p[j + 1].route, p[j + 1].in>>}
           /\ p[j].outHop = p[j + 1].inHop
    /\ Beyond(Last(p).route, Last(p).out) = {}

\* The paths of a tunnel for USB 3, DisplayPort or PCIe.
StartsAtSource(T) ==
    LET n == PathCount[T.kind]
        s == Source(T)
        l == Last(T.paths[n - 1])
    IN  /\ Len(T.paths) = n
        /\ Kind[s[1]][s[2]] \in Sources /\ TunnelKind[Kind[s[1]][s[2]]] = T.kind
        /\ Key(T.paths[1][1]) = <<s[1], s[2], FirstHop[T.kind]>>
        /\ \A i \in 2..(n - 1) : Key(T.paths[i][1]) = <<s[1], s[2], 8>>
        /\ Key(T.paths[n][1]) = <<l.route, l.out, 8>>

FacesXDomain(r, a) ==
    r \in Routers /\ \E d \in XDomains \cap Range(Order) : r = Front(d) /\ a = Last(d)

Ring(T) == T.paths[1][1].inHop

\* The transmitting and the receiving path of a ring.
StartsAtRing(T) ==
    LET s  == Source(T)
        rx == T.paths[2][1]
    IN  /\ Len(T.paths) = 2
        /\ Kind[s[1]][s[2]] = "nhi" /\ Ring(T) \in 1..MaxRing
        /\ FacesXDomain(rx.route, rx.in) /\ rx.inHop \in 8..MaxHop
        /\ Last(T.paths[2]).outHop = Ring(T)

\* Only rings use the host interface and reach other hosts, and the number of
\* a ring that is in use is no HopID elsewhere.
ASSUME KernelAssumption ==
    \A T \in Tunnels :
        /\ IF T.kind = "dma" THEN StartsAtRing(T) ELSE StartsAtSource(T)
        /\ \A i \in DOMAIN T.paths : IsComplete(T.paths[i])
        /\ \A e, f \in EntriesOf(T) : Key(e) = Key(f) => e = f
        /\ \A e \in EntriesOf(T) :
               /\ IF Kind[e.route][e.in] = "nhi"
                  THEN T.kind = "dma" /\ e = T.paths[1][1]
                  ELSE e.inHop >= 8
               /\ FacesXDomain(e.route, e.in) => T.kind = "dma" /\ e = T.paths[2][1]
               /\ \A U \in Tunnels : U.kind = "dma" /\ e.outHop = Ring(U) =>
                      T.kind = "dma" /\ e = Last(T.paths[2])

\* There is one host interface, and it has a ring.
ASSUME HostAssumption ==
    /\ MaxRing >= 1
    /\ \A r, q \in Routers : \A a \in Adapters(r), b \in Adapters(q) :
           Kind[r][a] = "nhi" /\ Kind[q][b] = "nhi" => <<r, a>> = <<q, b>>

-----------------------------------------------------------------------------
\* tbtunnels starts when the kernel is done with the tunnels there are.
Init ==
    /\ \E Us \in SUBSET Tunnels :
         /\ \A T, U \in Us : T # U => ~Conflict(T, U)
         /\ up = [T \in Tunnels |-> IF T \in Us THEN Enabled(T) ELSE 0]
         /\ stable = Us
    /\ changes = 0
    /\ pc = "adapters" /\ pos = 1 /\ rest = AdaptersOf(Order[1])
    /\ enabled = {} /\ seen = {}
    /\ walk = Walk(<<>>, 0, 0)
    /\ search = [kind |-> "dma", route |-> <<>>, in |-> 0, ring |-> 1,
                 xdomain |-> 0, hop |-> 0]
    /\ paths = <<>> /\ found = {}

Kernel == \E T \in Tunnels : SetUp(T) \/ TearDown(T)

Read ==
    \/ \E a \in rest : ReadAdapter(a) \/ ReadPaths(a)
    \/ AdaptersRead \/ DeviceRead \/ ReadFails

DiscoverPath == (\E e \in seen : Follow(e)) \/ NoEntry

Discover ==
    \/ (\E a \in rest : Pick(a)) \/ DevicePicked
    \/ TakePath \/ TakeTx \/ NextXDomain \/ TakeRx

Next == Kernel \/ Read \/ DiscoverPath \/ Discover

Spec == Init /\ [][Next]_vars

-----------------------------------------------------------------------------
(***************************************************************************)
(* Properties.                                                             *)
(***************************************************************************)
TunnelKinds == {"usb3", "dp", "pcie", "dma"}

PCs == {"adapters", "paths", "pick", "walk", "walked", "xdomain", "done", "failed"}

Walks == [start : Seq(Nat), device : Seq(Nat), adapter : Nat, hop : Nat,
          hops : Seq(Entries)]

\* Every variable has its type.
TypeOK ==
    /\ up \in [Tunnels -> Nat] /\ changes \in Nat /\ stable \subseteq Tunnels
    /\ pc \in PCs /\ pos \in DOMAIN Order /\ rest \subseteq AdaptersOf(Order[pos])
    /\ enabled \subseteq Routers \X Nat
    /\ seen \subseteq Entries
    /\ walk \in Walks
    /\ search \in [kind : TunnelKinds, route : Seq(Nat), in : Nat, ring : Nat,
                   xdomain : Nat, hop : Nat]
    /\ paths \in Seq(Seq(Entries))
    /\ found \subseteq [kind : TunnelKinds, paths : Seq(Seq(Entries))]

\* discover_path() comes to an end although its loop has no bound: whatever mix
\* of old and new entries has been read, it goes up the tree at most once and
\* then down at most once.
WalkEnds == Len(walk.hops) <= 2 * MaxDepth + 1

AsFound(T) == [kind |-> T.kind, paths |-> T.paths]

\* A tunnel that is up all the time is found, with the entries of its paths and
\* no other, whatever the kernel does to other tunnels while tbtunnels reads;
\* when it does nothing, these are all the tunnels that are found.
StableFound ==
    pc = "done" =>
        /\ \A T \in stable : AsFound(T) \in found
        /\ changes = 0 => found = {AsFound(T) : T \in stable}

\* The hops of each path follow each other: one leads out at one end of a link
\* with the HopID the next one comes in with at the other end.
PathsAreConnected ==
    \A t \in found : \A i \in DOMAIN t.paths :
        \A j \in 1..(Len(t.paths[i]) - 1) :
            LET e == t.paths[i][j]
                f == t.paths[i][j + 1]
            IN  /\ e.outHop = f.inHop
                /\ \/ f.route = Child(e.route, e.out) /\ f.in = Upstream[f.route]
                   \/ e.route = Child(f.route, f.in) /\ e.out = Upstream[e.route]
=============================================================================
