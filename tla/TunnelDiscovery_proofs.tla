----------------------- MODULE TunnelDiscovery_proofs -----------------------
(***************************************************************************)
(* Proofs about TunnelDiscovery, for any topology and any tunnels.         *)
(***************************************************************************)
EXTENDS TunnelDiscovery, SequenceTheorems, TLAPS

\* What has been read: enabled sources, and entries that lead through a router
\* from one adapter to another.
Grounded ==
    /\ \A s \in enabled : s[2] \in Adapters(s[1]) /\ Kind[s[1]][s[2]] \in Sources
    /\ \A e \in seen : e.in # e.out /\ {e.in, e.out} \subseteq Adapters(e.route)

\* The XDomain whose paths are followed is one.
AtXDomain ==
    /\ pc = "xdomain" => search.xdomain # 0
    /\ pc \in {"walk", "walked"} /\ search.kind = "dma" /\ search.xdomain # 0 =>
           search.xdomain \in DOMAIN Order /\ Order[search.xdomain] \in XDomains

\* A walk goes up first, which takes it a hop for each router it has left, and
\* down only once it has come in at an upstream adapter.
Bounded ==
    /\ Len(walk.start) <= MaxDepth /\ Len(search.route) <= MaxDepth
    /\ pc = "walk" =>
           /\ Len(walk.device) <= MaxDepth
           /\ Len(walk.hops) <= Len(walk.start) + Len(walk.device)
           /\ walk.adapter # Upstream[walk.device] =>
                  Len(walk.hops) = Len(walk.start) - Len(walk.device)

IInv == TypeOK /\ Grounded /\ AtXDomain /\ Bounded /\ WalkEnds

\* The hop e leads to the adapter a of the router r, with the HopID hop.
LeadsTo(e, r, a, hop) ==
    /\ e.outHop = hop
    /\ \/ r = Child(e.route, e.out) /\ a = Upstream[r]
       \/ e.route = Child(r, a) /\ e.out = Upstream[e.route]

IsPath(hops) ==
    \A j \in 1..(Len(hops) - 1) :
        LeadsTo(hops[j], hops[j + 1].route, hops[j + 1].in, hops[j + 1].inHop)

\* The walk is where its last hop leads to.
ConnectInv ==
    /\ IsPath(walk.hops)
    /\ pc = "walk" /\ walk.hops # <<>> =>
           LeadsTo(Last(walk.hops), walk.device, walk.adapter, walk.hop)
    /\ \A i \in DOMAIN paths : IsPath(paths[i])
    /\ \A t \in found : \A i \in DOMAIN t.paths : IsPath(t.paths[i])

-----------------------------------------------------------------------------
(***************************************************************************)
(* What is up all the time is found. The kernel keeps the tunnels that are *)
(* up apart, so that no entry read leads from another tunnel into one that *)
(* is up all the time, and a walk that starts on a path of it follows it   *)
(* to its end. Each such tunnel has been found, is being looked for, or    *)
(* its source is still ahead.                                              *)
(***************************************************************************)
\* tbtunnels has read everything.
Later == {"pick", "walk", "walked", "xdomain", "done"}
Searching == pc \in {"walk", "walked", "xdomain"}

KernelOK ==
    /\ \A T \in stable : up[T] = Enabled(T)
    /\ \A T, U \in Tunnels : T # U /\ up[T] > 0 /\ up[U] > 0 => ~Conflict(T, U)
    /\ changes = 0 => \A T \in Tunnels : up[T] > 0 => T \in stable

\* U has been up together with all tunnels that still are.
Beside(U) ==
    /\ \A T \in stable : T = U \/ ~Conflict(T, U)
    /\ changes = 0 => U \in stable

\* The adapters whose state, and whose paths, have been read.
DeviceBefore(r) == \E i \in DOMAIN Order : Order[i] = r /\ i < pos
StateRead(r, a) ==
    \/ pc \in Later \/ DeviceBefore(r)
    \/ Order[pos] = r /\ (pc = "paths" \/ (pc = "adapters" /\ a \notin rest))
PathsRead(r, a) ==
    \/ pc \in Later \/ DeviceBefore(r)
    \/ Order[pos] = r /\ pc = "paths" /\ a \notin rest

ReadOK ==
    /\ \A e \in seen : \E U \in Tunnels : e \in EntriesOf(U) /\ Beside(U)
    /\ \A T \in stable : \A e \in EntriesOf(T) :
           PathsRead(e.route, e.in) => e \in seen
    /\ \A T \in stable : StateRead(Source(T)[1], Source(T)[2]) => Source(T) \in enabled
    /\ changes = 0 => \A s \in enabled :
           Kind[s[1]][s[2]] = "nhi" \/ \E T \in stable : T.kind # "dma" /\ Source(T) = s

Position == <<walk.device, walk.adapter, walk.hop>>

\* The walk follows the path p, or none of the tunnel T.
OnPath(p) ==
    /\ pc = "walk" => /\ Len(walk.hops) < Len(p)
                      /\ \A j \in 1..Len(walk.hops) : walk.hops[j] = p[j]
                      /\ Position = Key(p[Len(walk.hops) + 1])
    /\ pc # "walk" => walk.hops = p

OffPath(T) ==
    /\ pc = "walk" => \A e \in EntriesOf(T) : Key(e) # Position
    /\ \A j \in DOMAIN walk.hops : walk.hops[j] \notin EntriesOf(T)

WalkOK == \A j \in DOMAIN walk.hops : walk.hops[j] \in seen

SearchSource == <<search.route, search.in>>

\* The search for a tunnel T of its source, while it lasts.
FollowsPaths(T) ==
    /\ search.kind = T.kind /\ pc # "xdomain"
    /\ Len(paths) + 1 \in DOMAIN T.paths
    /\ \A i \in 1..Len(paths) : paths[i] = T.paths[i]
    /\ OnPath(T.paths[Len(paths) + 1])

\* The path from behind the XDomain that is being followed is that of T.
AtStart(T) ==
    /\ T.kind = "dma"
    /\ Key(T.paths[2][1]) =
           <<Front(Order[search.xdomain]), Last(Order[search.xdomain]), search.hop>>

StartAhead(T) ==
    \E i \in DOMAIN Order :
        /\ Order[i] \in XDomains
        /\ <<T.paths[2][1].route, T.paths[2][1].in>> = <<Front(Order[i]), Last(Order[i])>>
        /\ \/ search.xdomain < i
           \/ search.xdomain = i /\ (pc = "xdomain" \/ search.hop <= T.paths[2][1].inHop)

FollowsRing(T) ==
    /\ search.kind = "dma"
    /\ IsTx => pc # "xdomain" /\ OnPath(T.paths[1])
    /\ ~IsTx => paths = <<T.paths[1]>> /\ StartAhead(T)

RxWalk == pc \in {"walk", "walked"} /\ search.kind = "dma" /\ ~IsTx

SearchTyped ==
    Searching => /\ SearchSource \in enabled
                 /\ search.kind = TunnelKind[Kind[search.route][search.in]]
                 /\ search.ring \in 1..MaxRing
                 /\ pc = "xdomain" => search.kind = "dma"

SearchFollows ==
    Searching => \A T \in stable : Source(T) = SearchSource =>
        /\ T.kind # "dma" => FollowsPaths(T)
        /\ T.kind = "dma" /\ Ring(T) = search.ring => FollowsRing(T)

RxFollows ==
    RxWalk => /\ walk.start = Front(Order[search.xdomain]) /\ walk.start \in Routers
              /\ \A T \in stable : IF AtStart(T) THEN OnPath(T.paths[2]) ELSE OffPath(T)

SourceAhead(s) ==
    /\ pc \in {"pick", "walk", "walked", "xdomain"}
    /\ \E i \in DOMAIN Order : Order[i] = s[1] /\ (i > pos \/ (i = pos /\ s[2] \in rest))

FoundOK ==
    \A T \in stable :
        \/ pc \in {"adapters", "paths", "failed"}
        \/ AsFound(T) \in found
        \/ SourceAhead(Source(T))
        \/ Searching /\ Source(T) = SearchSource /\ (T.kind = "dma" => search.ring <= Ring(T))

\* The kernel has done nothing: what is found is up.
NoRing == \A T \in stable : T.kind = "dma" => Ring(T) # search.ring

ExactOK ==
    changes = 0 =>
        /\ \A t \in found : \E T \in stable : t = AsFound(T)
        /\ Searching /\ search.kind = "dma" /\ NoRing =>
               /\ IsTx => /\ walk.hops = <<>>
                          /\ pc = "walk" => Position = <<search.route, search.in, search.ring>>
               /\ ~IsTx => paths = <<>>

StableInv ==
    /\ KernelOK /\ ReadOK /\ WalkOK
    /\ SearchTyped /\ SearchFollows /\ RxFollows /\ FoundOK /\ ExactOK

-----------------------------------------------------------------------------
(***************************************************************************)
(* Tunnels and their entries.                                              *)
(***************************************************************************)
LEMMA OrderType ==
    ASSUME NEW i \in DOMAIN Order
    PROVE  /\ i \in Nat /\ Order[i] \in Seq(Nat) /\ Len(Order[i]) <= MaxDepth
           /\ Order[i] \in XDomains => Order[i] # <<>>
           /\ Order[i] \notin XDomains => Order[i] \in Routers
BY OrderAssumption DEF Routers, Range

LEMMA PathCounts ==
    /\ \A k \in {"usb3", "dp", "pcie"} : PathCount[k] \in {2, 3}
    /\ \A k \in Sources : TunnelKind[k] \in TunnelKinds /\ (TunnelKind[k] = "dma" <=> k = "nhi")
    /\ FirstHop["dma"] = 1
BY DEF PathCount, Sources, TunnelKind, TunnelKinds, FirstHop

LEMMA TunnelShape ==
    ASSUME NEW T \in Tunnels
    PROVE  /\ T.kind \in {"usb3", "dp", "pcie", "dma"}
           /\ T.paths \in Seq(Seq(Entries))
           /\ Len(T.paths) \in {2, 3} /\ DOMAIN T.paths = 1..Len(T.paths)
           /\ T.kind # "dma" => Len(T.paths) = PathCount[T.kind]
           /\ T.kind = "dma" => Len(T.paths) = 2
<1>1. T.kind \in {"usb3", "dp", "pcie", "dma"} /\ T.paths \in Seq(Seq(Entries))
    BY TunnelsAssumption
<1>2. /\ T.kind = "dma" => StartsAtRing(T)
      /\ T.kind # "dma" => StartsAtSource(T)
    BY KernelAssumption
<1>3. /\ T.kind = "dma" => Len(T.paths) = 2
      /\ T.kind # "dma" => Len(T.paths) = PathCount[T.kind]
    BY <1>2 DEF StartsAtRing, StartsAtSource
<1>4. Len(T.paths) \in {2, 3}
    BY <1>1, <1>3, PathCounts
<1>5. QED
    BY <1>1, <1>3, <1>4

LEMMA PathShape ==
    ASSUME NEW T \in Tunnels, NEW i \in DOMAIN T.paths
    PROVE  /\ T.paths[i] \in Seq(Entries)
           /\ Len(T.paths[i]) \in Nat /\ Len(T.paths[i]) >= 1
           /\ DOMAIN T.paths[i] = 1..Len(T.paths[i])
           /\ T.paths[i] # <<>>
           /\ Last(T.paths[i]) = T.paths[i][Len(T.paths[i])]
           /\ \A j \in 1..(Len(T.paths[i]) - 1) :
                 /\ Beyond(T.paths[i][j].route, T.paths[i][j].out)
                        = {<<T.paths[i][j + 1].route, T.paths[i][j + 1].in>>}
                 /\ T.paths[i][j].outHop = T.paths[i][j + 1].inHop
           /\ Beyond(T.paths[i][Len(T.paths[i])].route, T.paths[i][Len(T.paths[i])].out) = {}
<1>1. T.paths[i] \in Seq(Entries)
    BY TunnelShape, ElementOfSeq
<1>2. IsComplete(T.paths[i])
    BY KernelAssumption
<1>3. T.paths[i] # <<>> /\ Len(T.paths[i]) \in Nat /\ Len(T.paths[i]) # 0
    BY <1>1, <1>2, EmptySeq DEF IsComplete
<1> DEFINE p == T.paths[i]
<1>4. Last(p) = p[Len(p)]
    BY DEF Last
<1>5. /\ \A j \in 1..(Len(p) - 1) :
             /\ Beyond(p[j].route, p[j].out) = {<<p[j + 1].route, p[j + 1].in>>}
             /\ p[j].outHop = p[j + 1].inHop
      /\ Beyond(p[Len(p)].route, p[Len(p)].out) = {}
    BY <1>2, <1>4, Zenon DEF IsComplete
<1>6. Len(p) >= 1 /\ DOMAIN p = 1..Len(p)
    BY <1>1, <1>3
<1> HIDE DEF p
<1>7. QED
    BY <1>1, <1>3, <1>4, <1>5, <1>6, Zenon DEF p

\* Every entry of a tunnel is in one of its paths.
LEMMA EntryOf ==
    ASSUME NEW T \in Tunnels, NEW e
    PROVE  e \in EntriesOf(T) <=>
               \E i \in DOMAIN T.paths : \E j \in DOMAIN T.paths[i] : e = T.paths[i][j]
<1>1. DOMAIN T.paths \cap 1..Enabled(T) = DOMAIN T.paths
    BY TunnelShape DEF Enabled
<1>2. EntriesOf(T) = UNION {Range(T.paths[i]) : i \in DOMAIN T.paths}
    BY <1>1 DEF EntriesOf, PathEntries
<1>3. QED
    BY <1>2 DEF Range

\* What is assumed of the entries of a tunnel, wherever they are.
LEMMA EntryFacts ==
    ASSUME NEW T \in Tunnels, NEW e \in EntriesOf(T)
    PROVE  /\ e \in Entries /\ e.route \in Routers
           /\ e.in \in Adapters(e.route) /\ e.out \in Adapters(e.route)
           /\ e.in \in Nat /\ e.inHop \in Nat /\ e.outHop \in Nat
           /\ e.inHop >= MinHop(Kind[e.route][e.in])
           /\ Kind[e.route][e.in] = "nhi" => T.kind = "dma" /\ e = T.paths[1][1]
           /\ FacesXDomain(e.route, e.in) => T.kind = "dma" /\ e = T.paths[2][1]
           /\ \A U \in Tunnels : U.kind = "dma" /\ e.outHop = Ring(U) =>
                  T.kind = "dma" /\ e = Last(T.paths[2])
<1>1. PICK i \in DOMAIN T.paths : \E j \in DOMAIN T.paths[i] : e = T.paths[i][j]
    BY EntryOf
<1>2. PICK j \in DOMAIN T.paths[i] : e = T.paths[i][j]
    BY <1>1
<1>3. e \in Entries
    BY <1>2, PathShape, ElementOfSeq
<1>4. {e.in, e.out} \subseteq Adapters(e.route)
    BY <1>2, TunnelsAssumption
<1>5. /\ IF Kind[e.route][e.in] = "nhi"
         THEN T.kind = "dma" /\ e = T.paths[1][1]
         ELSE e.inHop >= 8
      /\ FacesXDomain(e.route, e.in) => T.kind = "dma" /\ e = T.paths[2][1]
      /\ \A U \in Tunnels : U.kind = "dma" /\ e.outHop = Ring(U) =>
             T.kind = "dma" /\ e = Last(T.paths[2])
    BY KernelAssumption
<1>6. e.inHop >= MinHop(Kind[e.route][e.in])
  <2>1. CASE Kind[e.route][e.in] = "nhi"
    <3>1. StartsAtRing(T) /\ e.inHop = Ring(T)
        BY <1>5, <2>1, KernelAssumption DEF Ring
    <3>2. QED
        BY <2>1, <3>1, BoundsAssumption DEF StartsAtRing, MinHop
  <2>2. CASE Kind[e.route][e.in] # "nhi"
    BY <1>5, <2>2 DEF MinHop
  <2>3. QED
    BY <2>1, <2>2
<1>7. QED
    BY <1>3, <1>4, <1>5, <1>6 DEF Entries

\* Two tunnels with entries for the same adapter and HopID are never up at the
\* same time.
LEMMA ConflictKey ==
    ASSUME NEW T \in Tunnels, NEW U \in Tunnels, NEW e \in EntriesOf(T),
           NEW f \in EntriesOf(U), Key(e) = Key(f)
    PROVE  Conflict(T, U) /\ Conflict(U, T)
BY DEF Conflict

LEMMA SameKey ==
    ASSUME NEW T \in stable, stable \subseteq Tunnels, NEW U \in Tunnels, Beside(U),
           NEW e \in EntriesOf(T), NEW f \in EntriesOf(U), Key(e) = Key(f)
    PROVE  U = T /\ e = f
<1>1. U = T
    BY ConflictKey DEF Beside
<1>2. QED
    BY <1>1, KernelAssumption

LEMMA FirstEntry == ASSUME NEW T \in Tunnels PROVE T.paths[1][1] \in EntriesOf(T)
<1>1. 1 \in DOMAIN T.paths
    BY TunnelShape
<1>2. 1 \in DOMAIN T.paths[1]
    BY <1>1, PathShape
<1>3. QED
    BY <1>1, <1>2, EntryOf

LEMMA SourceFacts ==
    ASSUME NEW T \in Tunnels
    PROVE  /\ Source(T) = <<Source(T)[1], Source(T)[2]>>
           /\ Source(T)[1] \in Routers /\ Source(T)[2] \in Adapters(Source(T)[1])
           /\ Source(T)[2] \in Nat
           /\ Kind[Source(T)[1]][Source(T)[2]] \in Sources
           /\ TunnelKind[Kind[Source(T)[1]][Source(T)[2]]] = T.kind
           /\ T.kind = "dma" <=> Kind[Source(T)[1]][Source(T)[2]] = "nhi"
<1> DEFINE k == Kind[Source(T)[1]][Source(T)[2]]
<1>1. T.paths[1][1] \in EntriesOf(T)
    BY FirstEntry
<1>2. /\ T.paths[1][1].route \in Routers
      /\ T.paths[1][1].in \in Adapters(T.paths[1][1].route) /\ T.paths[1][1].in \in Nat
    BY <1>1, EntryFacts
<1>3. /\ Source(T) = <<Source(T)[1], Source(T)[2]>>
      /\ Source(T)[1] \in Routers /\ Source(T)[2] \in Adapters(Source(T)[1])
      /\ Source(T)[2] \in Nat
    BY <1>2 DEF Source
<1>4. T.kind = "dma" => k = "nhi"
    BY KernelAssumption DEF StartsAtRing
<1>5. T.kind # "dma" => k \in Sources /\ TunnelKind[k] = T.kind
    BY KernelAssumption DEF StartsAtSource
<1> HIDE DEF k
<1>6. "nhi" \in Sources /\ TunnelKind["nhi"] = "dma"
    BY DEF Sources, TunnelKind
<1>7. k \in Sources /\ TunnelKind[k] = T.kind
    BY <1>4, <1>5, <1>6
<1>8. T.kind = "dma" <=> k = "nhi"
    BY <1>7, PathCounts
<1>9. QED
    BY <1>3, <1>7, <1>8 DEF k

\* The paths of a tunnel start where they are looked for.
LEMMA PathStarts ==
    ASSUME NEW T \in Tunnels
    PROVE  /\ Key(T.paths[1][1]) =
                  <<Source(T)[1], Source(T)[2], IF T.kind = "dma" THEN Ring(T)
                                                ELSE FirstHop[T.kind]>>
           /\ T.kind # "dma" =>
                  /\ \A i \in 2..(Len(T.paths) - 1) :
                        Key(T.paths[i][1]) = <<Source(T)[1], Source(T)[2], 8>>
                  /\ LET l == Last(T.paths[Len(T.paths) - 1])
                     IN  Key(T.paths[Len(T.paths)][1]) = <<l.route, l.out, 8>>
<1>1. CASE T.kind = "dma"
    BY <1>1 DEF Key, Source, Ring
<1>2. CASE T.kind # "dma"
  <2>1. StartsAtSource(T)
    BY <1>2, KernelAssumption
  <2>2. QED
    BY <1>2, <2>1 DEF StartsAtSource
<1>3. QED
    BY <1>1, <1>2

LEMMA RingFacts ==
    ASSUME NEW T \in Tunnels, T.kind = "dma"
    PROVE  /\ Ring(T) \in 1..MaxRing
           /\ Last(T.paths[2]).outHop = Ring(T)
           /\ FacesXDomain(T.paths[2][1].route, T.paths[2][1].in)
           /\ T.paths[2][1].inHop \in 8..MaxHop
           /\ 1 \in DOMAIN T.paths /\ 2 \in DOMAIN T.paths
<1>1. StartsAtRing(T)
    BY KernelAssumption
<1>2. 1 \in DOMAIN T.paths /\ 2 \in DOMAIN T.paths
  <2>1. Len(T.paths) = 2 /\ DOMAIN T.paths = 1..Len(T.paths)
    BY TunnelShape
  <2>2. QED
    BY <2>1
<1>3. QED
    BY <1>1, <1>2, Zenon DEF StartsAtRing

\* There is one host interface: a ring has one tunnel at a time.
LEMMA OneHost ==
    ASSUME NEW T \in Tunnels, T.kind = "dma", NEW r \in Routers, NEW a \in Adapters(r),
           Kind[r][a] = "nhi"
    PROVE  Source(T) = <<r, a>>
<1>1. PICK q \in Routers :
          \E b \in Adapters(q) : Source(T) = <<q, b>> /\ Kind[q][b] = "nhi"
    BY SourceFacts
<1>2. PICK b \in Adapters(q) : Source(T) = <<q, b>> /\ Kind[q][b] = "nhi"
    BY <1>1
<1>3. <<q, b>> = <<r, a>>
    BY <1>2, HostAssumption
<1>4. QED
    BY <1>2, <1>3

LEMMA OneRing ==
    ASSUME NEW T \in stable, stable \subseteq Tunnels, NEW U \in Tunnels, Beside(U),
           T.kind = "dma", U.kind = "dma", Ring(T) = Ring(U)
    PROVE  U = T
<1>1. Source(T) = Source(U)
    BY OneHost, SourceFacts
<1>2. Key(T.paths[1][1]) = Key(U.paths[1][1])
    BY <1>1, PathStarts
<1>3. T.paths[1][1] \in EntriesOf(T) /\ U.paths[1][1] \in EntriesOf(U)
    BY FirstEntry
<1>4. QED
    BY <1>2, <1>3, SameKey

-----------------------------------------------------------------------------
(***************************************************************************)
(* The kernel and what is read.                                            *)
(***************************************************************************)
\* As long as tbtunnels reads, nothing is looked for.
LEMMA WhileReading ==
    ASSUME StableInv, pc' \in {"adapters", "paths", "failed"}, UNCHANGED <<walk, found>>,
           seen \subseteq seen', changes' = 0 => changes = 0 /\ UNCHANGED stable,
           KernelOK', ReadOK'
    PROVE  StableInv'
<1>1. ~Searching' /\ ~RxWalk'
    BY DEF Searching, RxWalk
<1>2. WalkOK'
    BY DEF StableInv, WalkOK
<1>3. SearchTyped' /\ SearchFollows' /\ RxFollows' /\ FoundOK'
    BY <1>1 DEF SearchTyped, SearchFollows, RxFollows, FoundOK
<1>4. ExactOK'
    BY <1>1 DEF StableInv, ExactOK
<1>5. QED
    BY <1>2, <1>3, <1>4 DEF StableInv

LEMMA EnabledUp == ASSUME NEW T \in Tunnels PROVE Enabled(T) \in Nat /\ Enabled(T) > 0
BY TunnelShape DEF Enabled

LEMMA KernelStable == IInv /\ StableInv /\ Kernel => StableInv'
<1> SUFFICES ASSUME IInv, StableInv, NEW T \in Tunnels, SetUp(T) \/ TearDown(T)
             PROVE  StableInv'
    BY DEF Kernel
<1>1. /\ up \in [Tunnels -> Nat] /\ changes \in Nat /\ stable \subseteq Tunnels
      /\ KernelOK /\ ReadOK
    BY DEF IInv, TypeOK, StableInv
<1>2. /\ UNCHANGED <<pc, pos, rest, enabled, seen, walk, found>>
      /\ changes' = changes + 1 /\ stable' \subseteq stable
      /\ pc \in {"adapters", "paths"}
    BY DEF SetUp, TearDown, snapshotVars, tunnelVars, Reading
<1>3. changes' # 0
    BY <1>1, <1>2
<1>4. KernelOK'
  <2>1. CASE SetUp(T)
    <3>1. /\ up' = [up EXCEPT ![T] = @ + 1] /\ UNCHANGED stable
          /\ up[T] < Enabled(T)
          /\ \A U \in Tunnels \ {T} : up[U] > 0 => ~Conflict(T, U)
        BY <2>1 DEF SetUp
    <3>2. T \notin stable
        BY <1>1, <3>1, EnabledUp DEF KernelOK
    <3>3. \A U \in Tunnels \ {T} : up[U] > 0 => ~Conflict(U, T)
        BY <3>1 DEF Conflict
    <3>4. \A U \in Tunnels \ {T} : up'[U] = up[U]
        BY <1>1, <3>1
    <3>5. \A U, V \in Tunnels : U # V /\ up'[U] > 0 /\ up'[V] > 0 => ~Conflict(U, V)
        BY <1>1, <3>1, <3>3, <3>4 DEF KernelOK
    <3>6. \A U \in stable' : up'[U] = Enabled(U)
        BY <1>1, <3>1, <3>2, <3>4 DEF KernelOK
    <3>7. QED
        BY <1>3, <3>5, <3>6 DEF KernelOK, Conflict, EntriesOf, Enabled, PathEntries
  <2>2. CASE TearDown(T)
    <3>1. up' = [up EXCEPT ![T] = @ - 1] /\ stable' = stable \ {T} /\ up[T] > 0
        BY <2>2 DEF TearDown
    <3>2. \A U \in Tunnels : up'[U] > 0 => up[U] > 0
        BY <1>1, <3>1
    <3>3. \A U \in stable' : up'[U] = Enabled(U)
        BY <1>1, <3>1 DEF KernelOK
    <3>4. QED
        BY <1>1, <1>3, <3>2, <3>3 DEF KernelOK, Conflict, EntriesOf, Enabled, PathEntries
  <2>3. QED
    BY <2>1, <2>2
<1>5. ReadOK'
  <2>1. \A U \in Tunnels : Beside(U) => Beside(U)'
    BY <1>2, <1>3 DEF Beside, Conflict, EntriesOf, Enabled, PathEntries
  <2>2. \A e \in seen : \E U \in Tunnels : e \in EntriesOf(U) /\ Beside(U)
    BY <1>1 DEF ReadOK
  <2>3. \A e \in seen' : \E U \in Tunnels : e \in EntriesOf(U) /\ Beside(U)'
    BY <1>2, <2>1, <2>2
  <2>4. \A r, a : (StateRead(r, a)' => StateRead(r, a)) /\ (PathsRead(r, a)' => PathsRead(r, a))
    BY <1>2 DEF StateRead, PathsRead, DeviceBefore
  <2>5. \A U \in stable' : \A e \in EntriesOf(U) : PathsRead(e.route, e.in)' => e \in seen'
    BY <1>1, <1>2, <2>4 DEF ReadOK
  <2>6. \A U \in stable' : StateRead(Source(U)[1], Source(U)[2])' => Source(U) \in enabled'
    BY <1>1, <1>2, <2>4 DEF ReadOK
  <2>7. QED
    BY <1>3, <2>3, <2>5, <2>6 DEF ReadOK, EntriesOf, PathEntries, Enabled, Source
<1>6. QED
    BY <1>2, <1>3, <1>4, <1>5, WhileReading

\* Entries that are valid are of tunnels that are up, and those of a tunnel
\* that is up all the time are.
LEMMA ValidUp ==
    ASSUME IInv, KernelOK
    PROVE  /\ \A e \in Valid : \E U \in Tunnels : e \in EntriesOf(U) /\ Beside(U)
           /\ \A T \in stable : EntriesOf(T) \subseteq Valid
<1>1. up \in [Tunnels -> Nat] /\ stable \subseteq Tunnels
    BY DEF IInv, TypeOK
<1>2. ASSUME NEW e \in Valid PROVE \E U \in Tunnels : e \in EntriesOf(U) /\ Beside(U)
  <2>1. PICK U \in Tunnels : e \in PathEntries(U, up[U])
    BY DEF Valid
  <2>2. PICK i \in DOMAIN U.paths \cap 1..up[U] : e \in Range(U.paths[i])
    BY <2>1 DEF PathEntries
  <2>3. up[U] > 0
    BY <1>1, <2>2
  <2>4. e \in EntriesOf(U)
    BY <2>2, EntryOf DEF Range
  <2>5. Beside(U)
    BY <1>1, <2>3, EnabledUp DEF KernelOK, Beside
  <2>6. QED
    BY <2>4, <2>5
<1>3. ASSUME NEW T \in stable PROVE EntriesOf(T) \subseteq Valid
    BY <1>1, <1>3 DEF KernelOK, Valid, EntriesOf
<1>4. QED
    BY <1>2, <1>3

\* What a step of reading leaves alone.
LEMMA SeenBeside ==
    ASSUME ReadOK, UNCHANGED <<kernelVars>>
    PROVE  /\ \A U \in Tunnels : Beside(U) => Beside(U)'
           /\ \A e \in seen : \E U \in Tunnels : e \in EntriesOf(U) /\ Beside(U)'
           /\ KernelOK => KernelOK'
<1>1. \A U \in Tunnels : Beside(U) => Beside(U)'
    BY DEF Beside, kernelVars, Conflict, EntriesOf, Enabled, PathEntries
<1>2. \A e \in seen : \E U \in Tunnels : e \in EntriesOf(U) /\ Beside(U)
    BY DEF ReadOK
<1>3. QED
    BY <1>1, <1>2 DEF KernelOK, kernelVars, Conflict, EntriesOf, Enabled, PathEntries

LEMMA ReadAdapterStable ==
    ASSUME IInv, StableInv, NEW a \in rest, ReadAdapter(a) PROVE StableInv'
<1> DEFINE r == Order[pos]
<1>1. /\ pos \in DOMAIN Order /\ rest \subseteq AdaptersOf(r) /\ stable \subseteq Tunnels
      /\ up \in [Tunnels -> Nat]
      /\ KernelOK /\ ReadOK
    BY DEF IInv, TypeOK, StableInv
<1>2. r \in Routers /\ a \in Adapters(r)
    BY <1>1, OrderType DEF AdaptersOf
<1>3. /\ enabled' = IF Kind[r][a] \in Sources /\ IsEnabled(r, a)
                    THEN enabled \union {<<r, a>>} ELSE enabled
      /\ rest' = rest \ {a} /\ pc = "adapters" /\ UNCHANGED kernelVars
      /\ UNCHANGED <<up, changes, stable, pc, pos, seen, walk, found>>
    BY DEF ReadAdapter, kernelVars, tunnelVars
<1>4. enabled \subseteq enabled'
    BY <1>3
<1>5. \A T \in stable : StateRead(Source(T)[1], Source(T)[2])' => Source(T) \in enabled'
  <2> SUFFICES ASSUME NEW T \in stable, StateRead(Source(T)[1], Source(T)[2])'
               PROVE  Source(T) \in enabled'
    OBVIOUS
  <2>1. CASE StateRead(Source(T)[1], Source(T)[2])
    BY <1>1, <1>4, <2>1 DEF ReadOK
  <2>2. CASE ~StateRead(Source(T)[1], Source(T)[2])
    <3>1. Source(T)[1] = r /\ Source(T)[2] = a
        BY <1>3, <2>2 DEF StateRead, DeviceBefore, Later
    <3>2. Source(T) = <<r, a>> /\ Kind[r][a] \in Sources
        BY <1>1, <3>1, SourceFacts
    <3>3. IsEnabled(r, a)
        BY <1>1, <3>2 DEF IsEnabled, KernelOK
    <3>4. QED
        BY <1>3, <3>2, <3>3
  <2>3. QED
    BY <2>1, <2>2
<1>6. changes = 0 => \A s \in enabled' :
           Kind[s[1]][s[2]] = "nhi" \/ \E T \in stable : T.kind # "dma" /\ Source(T) = s
  <2> SUFFICES ASSUME changes = 0, NEW s \in enabled', Kind[s[1]][s[2]] # "nhi"
               PROVE  \E T \in stable : T.kind # "dma" /\ Source(T) = s
    OBVIOUS
  <2>1. CASE s \in enabled
    BY <1>1, <2>1 DEF ReadOK
  <2>2. CASE s \notin enabled
    <3>1. s = <<r, a>> /\ IsEnabled(r, a)
        BY <1>3, <2>2
    <3>2. PICK T \in Tunnels : up[T] = Enabled(T) /\ Source(T) = <<r, a>>
        BY <3>1 DEF IsEnabled
    <3>3. T \in stable
        BY <1>1, <3>2, EnabledUp DEF KernelOK
    <3>4. T.kind # "dma"
        BY <3>1, <3>2, SourceFacts
    <3>5. QED
        BY <3>1, <3>2, <3>3, <3>4
  <2>3. QED
    BY <2>1, <2>2
<1>7. \A s, b : PathsRead(s, b)' => PathsRead(s, b)
    BY <1>3 DEF PathsRead, DeviceBefore, Later
<1>8. ReadOK'
  <2>1. \A e \in seen' : \E U \in Tunnels : e \in EntriesOf(U) /\ Beside(U)'
    BY <1>1, <1>3, SeenBeside
  <2>2. \A T \in stable' : \A e \in EntriesOf(T) : PathsRead(e.route, e.in)' => e \in seen'
    BY <1>1, <1>3, <1>7 DEF ReadOK
  <2>3. QED
    BY <1>3, <1>5, <1>6, <2>1, <2>2 DEF ReadOK, EntriesOf, PathEntries, Enabled, Source
<1>9. KernelOK'
    BY <1>1, <1>3, SeenBeside
<1>10. QED
    BY <1>3, <1>8, <1>9, WhileReading

LEMMA ReadPathsStable ==
    ASSUME IInv, StableInv, NEW a \in rest, ReadPaths(a) PROVE StableInv'
<1> DEFINE r == Order[pos]
           new == {e \in Valid : /\ e.route = r /\ e.in = a
                                 /\ e.inHop >= MinHop(Kind[r][a])}
<1>1. stable \subseteq Tunnels /\ KernelOK /\ ReadOK
    BY DEF IInv, TypeOK, StableInv
<1>2. /\ seen' = seen \union new
      /\ rest' = rest \ {a} /\ pc = "paths" /\ UNCHANGED kernelVars
      /\ UNCHANGED <<up, changes, stable, pc, pos, enabled, walk, found>>
    BY DEF ReadPaths, kernelVars, tunnelVars
<1>3. \A e \in seen' : \E U \in Tunnels : e \in EntriesOf(U) /\ Beside(U)'
  <2>1. \A e \in new : \E U \in Tunnels : e \in EntriesOf(U) /\ Beside(U)
    BY <1>1, ValidUp
  <2>2. QED
    BY <1>1, <1>2, <2>1, SeenBeside
<1>4. \A T \in stable : \A e \in EntriesOf(T) : PathsRead(e.route, e.in)' => e \in seen'
  <2> SUFFICES ASSUME NEW T \in stable, NEW e \in EntriesOf(T),
                      PathsRead(e.route, e.in)'
               PROVE  e \in seen'
    OBVIOUS
  <2>1. CASE PathsRead(e.route, e.in)
    BY <1>1, <1>2, <2>1 DEF ReadOK
  <2>2. CASE ~PathsRead(e.route, e.in)
    <3>1. e.route = r /\ e.in = a
        BY <1>2, <2>2 DEF PathsRead, DeviceBefore, Later
    <3>2. e \in Valid
        BY <1>1, ValidUp
    <3>3. e.inHop >= MinHop(Kind[e.route][e.in])
        BY <1>1, EntryFacts
    <3>4. QED
        BY <1>2, <3>1, <3>2, <3>3
  <2>3. QED
    BY <2>1, <2>2
<1>5. \A s, b : StateRead(s, b)' => StateRead(s, b)
    BY <1>2 DEF StateRead, DeviceBefore, Later
<1>6. ReadOK'
  <2>1. \A T \in stable' : StateRead(Source(T)[1], Source(T)[2])' => Source(T) \in enabled'
    BY <1>1, <1>2, <1>5 DEF ReadOK
  <2>2. changes' = 0 => \A s \in enabled' :
           Kind[s[1]][s[2]] = "nhi" \/ \E T \in stable' : T.kind # "dma" /\ Source(T) = s
    BY <1>1, <1>2 DEF ReadOK
  <2>3. QED
    BY <1>2, <1>3, <1>4, <2>1, <2>2 DEF ReadOK, EntriesOf, PathEntries, Enabled, Source
<1>7. KernelOK'
    BY <1>1, <1>2, SeenBeside
<1>8. QED
    BY <1>2, <1>6, <1>7, WhileReading

\* A step that has read nothing: no adapter becomes one that has been read.
LEMMA NothingRead ==
    ASSUME IInv, StableInv, UNCHANGED <<kernelVars, enabled, seen>>,
           \A T \in stable : /\ StateRead(Source(T)[1], Source(T)[2])' =>
                                    StateRead(Source(T)[1], Source(T)[2])
                             /\ \A e \in EntriesOf(T) :
                                    PathsRead(e.route, e.in)' => PathsRead(e.route, e.in)
    PROVE  KernelOK' /\ ReadOK'
<1>1. /\ stable \subseteq Tunnels /\ KernelOK /\ ReadOK
      /\ UNCHANGED <<up, changes, stable, enabled, seen>>
    BY DEF IInv, TypeOK, StableInv, kernelVars
<1>2. KernelOK' /\ \A e \in seen' : \E U \in Tunnels : e \in EntriesOf(U) /\ Beside(U)'
    BY <1>1, SeenBeside
<1>3. \A T \in stable' : \A e \in EntriesOf(T) : PathsRead(e.route, e.in)' => e \in seen'
    BY <1>1 DEF ReadOK
<1>4. \A T \in stable' : StateRead(Source(T)[1], Source(T)[2])' => Source(T) \in enabled'
    BY <1>1 DEF ReadOK
<1>5. changes' = 0 => \A s \in enabled' :
           Kind[s[1]][s[2]] = "nhi" \/ \E T \in stable' : T.kind # "dma" /\ Source(T) = s
    BY <1>1 DEF ReadOK
<1>6. QED
    BY <1>2, <1>3, <1>4, <1>5 DEF ReadOK, EntriesOf, PathEntries, Enabled, Source

LEMMA EntryPlaces ==
    ASSUME NEW T \in Tunnels
    PROVE  /\ \A e \in EntriesOf(T) : e.route \in Routers /\ e.in \in AdaptersOf(e.route)
           /\ Source(T)[1] \in Routers /\ Source(T)[2] \in AdaptersOf(Source(T)[1])
<1>1. \A r \in Routers : AdaptersOf(r) = Adapters(r)
    BY DEF AdaptersOf, Routers
<1>2. QED
    BY <1>1, EntryFacts, SourceFacts

LEMMA AdaptersReadStable == IInv /\ StableInv /\ AdaptersRead => StableInv'
<1> SUFFICES ASSUME IInv, StableInv, AdaptersRead PROVE StableInv'
    OBVIOUS
<1>1. /\ pc = "adapters" /\ rest = {} /\ pc' = "paths" /\ rest' = AdaptersOf(Order[pos])
      /\ UNCHANGED <<kernelVars, up, changes, stable, pos, enabled, seen, walk, found>>
      /\ stable \subseteq Tunnels
    BY DEF AdaptersRead, kernelVars, snapshotVars, tunnelVars, IInv, TypeOK
<1>2. ASSUME NEW T \in stable
      PROVE  /\ StateRead(Source(T)[1], Source(T)[2])' => StateRead(Source(T)[1], Source(T)[2])
             /\ \A e \in EntriesOf(T) :
                    PathsRead(e.route, e.in)' => PathsRead(e.route, e.in)
  <2>1. \A e \in EntriesOf(T) : PathsRead(e.route, e.in)' => PathsRead(e.route, e.in)
    BY <1>1, EntryPlaces DEF PathsRead, DeviceBefore, Later
  <2>2. QED
    BY <1>1, <2>1 DEF StateRead, DeviceBefore, Later
<1>3. KernelOK' /\ ReadOK'
    BY <1>1, <1>2, NothingRead
<1>4. QED
    BY <1>1, <1>3, WhileReading

LEMMA ReadFailsStable == IInv /\ StableInv /\ ReadFails => StableInv'
<1> SUFFICES ASSUME IInv, StableInv, ReadFails PROVE StableInv'
    OBVIOUS
<1>1. /\ pc \in {"adapters", "paths"} /\ pc' = "failed"
      /\ UNCHANGED <<kernelVars, up, changes, stable, pos, rest, enabled, seen, walk, found>>
    BY DEF ReadFails, Reading, kernelVars, snapshotVars, tunnelVars
<1>2. \A r, a : (StateRead(r, a)' => StateRead(r, a)) /\ (PathsRead(r, a)' => PathsRead(r, a))
    BY <1>1 DEF StateRead, PathsRead, DeviceBefore, Later
<1>3. KernelOK' /\ ReadOK'
    BY <1>1, <1>2, NothingRead
<1>4. QED
    BY <1>1, <1>3, WhileReading

\* Behind the last device, everything has been read and all sources are ahead.
LEMMA DeviceReadStable == IInv /\ StableInv /\ DeviceRead => StableInv'
<1> SUFFICES ASSUME IInv, StableInv, DeviceRead PROVE StableInv'
    OBVIOUS
<1>1. /\ pc = "paths" /\ rest = {} /\ NextDevice("adapters", "pick")
      /\ rest' = AdaptersOf(Order[pos'])
      /\ UNCHANGED <<kernelVars, up, changes, stable, enabled, seen, walk, found>>
      /\ stable \subseteq Tunnels /\ pos \in DOMAIN Order
    BY DEF DeviceRead, kernelVars, snapshotVars, tunnelVars, IInv, TypeOK
<1>2. Order \in Seq(Seq(Nat)) /\ Len(Order) \in Nat /\ DOMAIN Order = 1..Len(Order)
    BY OrderAssumption, LenProperties
<1>3. pos \in Nat /\ pos >= 1 /\ pos <= Len(Order)
    BY <1>1, <1>2
<1>4. \A r \in Routers : \E i \in DOMAIN Order : Order[i] = r
    BY DEF Routers, Range
<1>5. ASSUME NEW r \in Routers, NEW a \in AdaptersOf(r)
      PROVE  (StateRead(r, a)' => StateRead(r, a)) /\ (PathsRead(r, a)' => PathsRead(r, a))
  <2>1. CASE pos < Len(Order) /\ pos' = pos + 1 /\ pc' = "adapters"
    <3>1. \A i \in DOMAIN Order : i < pos' => i < pos \/ i = pos
        BY <1>2, <1>3, <2>1
    <3>2. DeviceBefore(r)' => DeviceBefore(r) \/ Order[pos] = r
        BY <3>1 DEF DeviceBefore
    <3>3. QED
        BY <1>1, <1>5, <2>1, <3>2 DEF StateRead, PathsRead, Later
  <2>2. CASE pos = Len(Order)
    <3>1. PICK i \in DOMAIN Order : Order[i] = r
        BY <1>4
    <3>2. i < pos \/ i = pos
        BY <1>2, <2>2
    <3>3. QED
        BY <1>1, <3>1, <3>2 DEF StateRead, PathsRead, DeviceBefore
  <2>3. QED
    BY <1>1, <2>1, <2>2 DEF NextDevice
<1>6. KernelOK' /\ ReadOK'
    BY <1>1, <1>5, EntryPlaces, NothingRead
<1>7. CASE pc' = "adapters"
    BY <1>1, <1>6, <1>7, WhileReading
<1>8. CASE pc' = "pick" /\ pos' = 1
  <2>1. ~Searching' /\ ~RxWalk'
    BY <1>8 DEF Searching, RxWalk
  <2>2. WalkOK' /\ ExactOK'
    BY <1>1, <2>1 DEF StableInv, WalkOK, ExactOK
  <2>3. SearchTyped' /\ SearchFollows' /\ RxFollows'
    BY <2>1 DEF SearchTyped, SearchFollows, RxFollows
  <2>4. ASSUME NEW T \in stable' PROVE SourceAhead(Source(T))'
    <3>1. T \in Tunnels
        BY <1>1, <2>4
    <3>2. Source(T)[1] \in Routers /\ Source(T)[2] \in AdaptersOf(Source(T)[1])
        BY <3>1, EntryPlaces
    <3>3. PICK i \in DOMAIN Order : Order[i] = Source(T)[1]
        BY <1>4, <3>2
    <3>4. i > pos' \/ (i = pos' /\ Source(T)[2] \in rest')
        BY <1>1, <1>2, <1>8, <3>2, <3>3
    <3>5. \E j \in DOMAIN Order : Order[j] = Source(T)[1]
                 /\ (j > pos' \/ (j = pos' /\ Source(T)[2] \in rest'))
        BY <3>3, <3>4
    <3>6. QED
        BY <1>8, <3>5 DEF SourceAhead, Source
  <2>5. FoundOK'
    BY <2>4 DEF FoundOK, Source
  <2>6. QED
    BY <1>6, <2>2, <2>3, <2>5 DEF StableInv
<1>9. QED
    BY <1>1, <1>7, <1>8 DEF NextDevice

LEMMA InitStable == Init => StableInv
<1> SUFFICES ASSUME Init PROVE StableInv
    OBVIOUS
<1>1. PICK Us \in SUBSET Tunnels :
          /\ \A T, U \in Us : T # U => ~Conflict(T, U)
          /\ up = [T \in Tunnels |-> IF T \in Us THEN Enabled(T) ELSE 0]
          /\ stable = Us
    BY DEF Init
<1>2. /\ pc = "adapters" /\ pos = 1 /\ rest = AdaptersOf(Order[1])
      /\ enabled = {} /\ seen = {} /\ found = {} /\ walk.hops = <<>>
    BY DEF Init, Walk
<1>3. KernelOK
    BY <1>1 DEF KernelOK
<1>4. \A r : ~DeviceBefore(r)
    BY <1>2 DEF DeviceBefore
<1>5. ReadOK
  <2>1. \A T \in stable : ~StateRead(Source(T)[1], Source(T)[2])
    BY <1>1, <1>2, <1>4, EntryPlaces DEF StateRead, Later
  <2>2. \A T \in stable : \A e \in EntriesOf(T) : ~PathsRead(e.route, e.in)
    BY <1>1, <1>2, <1>4, EntryPlaces DEF PathsRead, Later
  <2>3. QED
    BY <1>2, <2>1, <2>2 DEF ReadOK
<1>6. ~Searching /\ ~RxWalk
    BY <1>2 DEF Searching, RxWalk
<1>7. WalkOK /\ ExactOK /\ FoundOK
    BY <1>2, <1>6 DEF WalkOK, ExactOK, FoundOK
<1>8. QED
    BY <1>3, <1>5, <1>6, <1>7
       DEF StableInv, SearchTyped, SearchFollows, RxFollows

-----------------------------------------------------------------------------
(***************************************************************************)
(* A walk on a path of a tunnel that is up all the time, and one beside.   *)
(***************************************************************************)
\* Everything has been read, and nothing of it changes any more.
LEMMA AllRead ==
    ASSUME IInv, StableInv, pc \in Later
    PROVE  /\ stable \subseteq Tunnels
           /\ \A e \in seen : \E U \in Tunnels : e \in EntriesOf(U) /\ Beside(U)
           /\ \A T \in stable : EntriesOf(T) \subseteq seen /\ Source(T) \in enabled
BY DEF IInv, TypeOK, StableInv, ReadOK, PathsRead, StateRead

LEMMA LaterKeeps ==
    ASSUME IInv, StableInv, pc \in Later, UNCHANGED <<kernelVars, enabled, seen>>
    PROVE  KernelOK' /\ ReadOK'
<1>1. \A r, a : StateRead(r, a) /\ PathsRead(r, a)
    BY DEF StateRead, PathsRead
<1>2. QED
    BY <1>1, NothingRead

\* Where an entry leads to, the next entry of its path is.
LEMMA Successor ==
    ASSUME NEW U \in Tunnels, NEW e \in EntriesOf(U), NEW end \in Beyond(e.route, e.out)
    PROVE  \E f \in EntriesOf(U) : Key(f) = <<end[1], end[2], e.outHop>>
<1>1. PICK i \in DOMAIN U.paths : \E j \in DOMAIN U.paths[i] : e = U.paths[i][j]
    BY EntryOf
<1>2. PICK j \in DOMAIN U.paths[i] : e = U.paths[i][j]
    BY <1>1
<1> DEFINE p == U.paths[i]
<1>3. j \in 1..Len(p) /\ j # Len(p) /\ Len(p) \in Nat
    BY <1>2, PathShape
<1>4. j \in 1..(Len(p) - 1) /\ j + 1 \in DOMAIN p
    BY <1>3, PathShape
<1>5. /\ Beyond(e.route, e.out) = {<<p[j + 1].route, p[j + 1].in>>}
      /\ e.outHop = p[j + 1].inHop
    BY <1>2, <1>4, PathShape
<1>6. p[j + 1] \in EntriesOf(U)
    BY <1>4, EntryOf
<1>7. Key(p[j + 1]) = <<end[1], end[2], e.outHop>>
    BY <1>5 DEF Key
<1>8. QED
    BY <1>6, <1>7

\* What a step of the loop does.
LEMMA FollowFacts ==
    ASSUME IInv, StableInv, NEW e \in seen, Follow(e)
    PROVE  /\ pc = "walk" /\ Key(e) = Position /\ walk.hops \in Seq(Entries)
           /\ e \in Entries /\ walk'.hops = Append(walk.hops, e)
           /\ walk'.start = walk.start
           /\ \/ /\ pc' = "walk"
                 /\ \E end \in Beyond(e.route, e.out) :
                        Position' = <<end[1], end[2], e.outHop>>
              \/ pc' = "walked" /\ Beyond(e.route, e.out) = {}
           /\ UNCHANGED <<kernelVars, pos, rest, enabled, seen, search, paths, found>>
           /\ stable' = stable /\ changes' = changes
<1>1. walk \in Walks /\ seen \subseteq Entries
    BY DEF IInv, TypeOK
<1>2. walk.hops \in Seq(Entries) /\ e \in Entries
    BY <1>1 DEF Walks
<1>3. pc = "walk" /\ Key(e) = Position
    BY DEF Follow, Entry, Key, Position
<1>4. UNCHANGED <<kernelVars, pos, rest, enabled, seen, search, paths, found>>
      /\ stable' = stable /\ changes' = changes
    BY DEF Follow, snapshotVars, tunnelVars, kernelVars
<1>5. CASE (\E end \in Beyond(e.route, e.out) : walk' = Onward(e, end)) /\ UNCHANGED pc
  <2>1. PICK end \in Beyond(e.route, e.out) : walk' = Onward(e, end)
    BY <1>5
  <2>2. /\ walk'.hops = Append(walk.hops, e) /\ walk'.start = walk.start
        /\ walk'.device = end[1] /\ walk'.adapter = end[2] /\ walk'.hop = e.outHop
    BY <1>1, <2>1 DEF Onward, Walks
  <2>3. Position' = <<end[1], end[2], e.outHop>>
    BY <2>2 DEF Position
  <2>4. QED
    BY <1>2, <1>3, <1>4, <1>5, <2>2, <2>3
<1>6. CASE /\ Beyond(e.route, e.out) = {}
           /\ walk' = [walk EXCEPT !.hops = Append(@, e)] /\ pc' = "walked"
  <2>1. walk'.hops = Append(walk.hops, e) /\ walk'.start = walk.start
    BY <1>1, <1>6 DEF Walks
  <2>2. QED
    BY <1>2, <1>3, <1>4, <1>6, <2>1
<1>7. QED
    BY <1>5, <1>6 DEF Follow

\* A walk on a path stays on it, to its end.
LEMMA FollowOn ==
    ASSUME IInv, StableInv, NEW e \in seen, Follow(e), NEW T \in stable,
           NEW i \in DOMAIN T.paths, OnPath(T.paths[i])
    PROVE  OnPath(T.paths[i])'
<1> DEFINE p == T.paths[i]
           n == Len(walk.hops)
<1>1. /\ pc = "walk" /\ Key(e) = Position /\ walk.hops \in Seq(Entries)
      /\ e \in Entries /\ walk'.hops = Append(walk.hops, e)
    BY FollowFacts
<1>2. /\ T \in Tunnels /\ stable \subseteq Tunnels
      /\ \E U \in Tunnels : e \in EntriesOf(U) /\ Beside(U)
    BY <1>1, AllRead DEF Later
<1>3. /\ n < Len(p) /\ \A j \in 1..n : walk.hops[j] = p[j]
      /\ Position = Key(p[n + 1])
    BY <1>1 DEF OnPath
<1>4. p \in Seq(Entries) /\ Len(p) \in Nat /\ DOMAIN p = 1..Len(p) /\ n \in Nat
    BY <1>1, <1>2, PathShape, LenProperties
<1>5. n + 1 \in DOMAIN p
    BY <1>3, <1>4
<1>6. p[n + 1] \in EntriesOf(T)
    BY <1>2, <1>5, EntryOf
<1>7. e = p[n + 1]
    BY <1>1, <1>2, <1>3, <1>6, SameKey
<1>8. /\ Len(walk'.hops) = n + 1
      /\ \A j \in 1..(n + 1) : walk'.hops[j] = p[j]
  <2> DEFINE hops == walk.hops
  <2>1. hops \in Seq(Entries) /\ Len(hops) = n /\ n \in Nat
    BY <1>1, <1>4
  <2> HIDE DEF hops
  <2>2. /\ Len(Append(hops, e)) = n + 1 /\ Append(hops, e)[n + 1] = e
        /\ \A j \in 1..n : Append(hops, e)[j] = hops[j]
    BY <1>1, <2>1, AppendProperties
  <2>3. \A j \in 1..(n + 1) : j \in 1..n \/ j = n + 1
    BY <1>4
  <2>4. QED
    BY <1>1, <1>3, <1>7, <2>2, <2>3 DEF hops
<1>9. n + 1 # Len(p) =>
          /\ Beyond(e.route, e.out) = {<<p[n + 2].route, p[n + 2].in>>}
          /\ e.outHop = p[n + 2].inHop
  <2>1. n + 1 # Len(p) => n + 1 \in 1..(Len(p) - 1) /\ (n + 1) + 1 = n + 2
    BY <1>3, <1>4
  <2>2. \A j \in 1..(Len(p) - 1) :
            /\ Beyond(p[j].route, p[j].out) = {<<p[j + 1].route, p[j + 1].in>>}
            /\ p[j].outHop = p[j + 1].inHop
    BY <1>2, PathShape
  <2> HIDE DEF p, n
  <2>3. QED
    BY <1>7, <2>1, <2>2
<1>10. n + 1 = Len(p) => Beyond(e.route, e.out) = {}
  <2>1. Beyond(p[Len(p)].route, p[Len(p)].out) = {}
    BY <1>2, PathShape
  <2>2. QED
    BY <1>7, <2>1, Zenon
<1>11. CASE pc' = "walk" /\ \E end \in Beyond(e.route, e.out) :
                               Position' = <<end[1], end[2], e.outHop>>
  <2>1. n + 1 # Len(p)
    BY <1>10, <1>11
  <2>2. Position' = Key(p[n + 2])
    BY <1>9, <1>11, <2>1 DEF Key
  <2>3. Len(walk'.hops) < Len(p) /\ Len(walk'.hops) + 1 = n + 2
    BY <1>3, <1>4, <1>8, <2>1
  <2>4. QED
    BY <1>8, <1>11, <2>2, <2>3 DEF OnPath
<1>12. CASE pc' = "walked" /\ Beyond(e.route, e.out) = {}
  <2>1. n + 1 = Len(p)
    BY <1>9, <1>12
  <2>2. walk'.hops \in Seq(Entries)
    BY <1>1, AppendProperties
  <2>3. walk'.hops = p
    BY <1>4, <1>8, <2>1, <2>2, SeqEqual
  <2>4. QED
    BY <1>12, <2>3 DEF OnPath
<1>13. QED
    BY <1>11, <1>12, FollowFacts

\* There is always a next entry on a path.
LEMMA NoEntryOn ==
    ASSUME IInv, StableInv, NoEntry, NEW T \in stable, NEW i \in DOMAIN T.paths,
           OnPath(T.paths[i])
    PROVE  FALSE
<1> DEFINE p == T.paths[i]
           n == Len(walk.hops)
<1>1. pc = "walk" /\ walk.hops \in Seq(Entries)
    BY DEF NoEntry, IInv, TypeOK, Walks
<1>2. T \in Tunnels /\ EntriesOf(T) \subseteq seen
    BY <1>1, AllRead DEF Later
<1>3. n < Len(p) /\ Position = Key(p[n + 1])
    BY <1>1 DEF OnPath
<1>4. n + 1 \in DOMAIN p
    BY <1>1, <1>2, <1>3, PathShape, LenProperties
<1>5. p[n + 1] \in seen
    BY <1>2, <1>4, EntryOf
<1>6. Entry(p[n + 1])
    BY <1>3, <1>5 DEF Entry, Key, Position
<1>7. QED
    BY <1>5, <1>6 DEF NoEntry

\* A walk beside a tunnel does not come into it.
LEMMA FollowOff ==
    ASSUME IInv, StableInv, NEW e \in seen, Follow(e), NEW T \in stable, OffPath(T)
    PROVE  OffPath(T)'
<1>1. /\ pc = "walk" /\ Key(e) = Position /\ walk.hops \in Seq(Entries)
      /\ e \in Entries /\ walk'.hops = Append(walk.hops, e)
    BY FollowFacts
<1>2. T \in Tunnels /\ stable \subseteq Tunnels
    BY <1>1, AllRead DEF Later
<1>3. PICK U \in Tunnels : e \in EntriesOf(U) /\ Beside(U)
    BY <1>1, AllRead DEF Later
<1>4. e \notin EntriesOf(T)
    BY <1>1 DEF OffPath
<1>5. \A j \in DOMAIN walk'.hops : walk'.hops[j] \notin EntriesOf(T)
  <2> DEFINE hops == walk.hops
  <2>1. hops \in Seq(Entries) /\ \A j \in DOMAIN hops : hops[j] \notin EntriesOf(T)
    BY <1>1 DEF OffPath
  <2> HIDE DEF hops
  <2>2. \A j \in DOMAIN Append(hops, e) :
            (j \in DOMAIN hops /\ Append(hops, e)[j] = hops[j]) \/ Append(hops, e)[j] = e
    BY <1>1, <2>1
  <2>3. QED
    BY <1>1, <1>4, <2>1, <2>2 DEF hops
<1>6. CASE pc' = "walk" /\ \E end \in Beyond(e.route, e.out) :
                              Position' = <<end[1], end[2], e.outHop>>
  <2>1. PICK f \in EntriesOf(U) : Key(f) = Position'
    BY <1>3, <1>6, Successor
  <2>2. ASSUME NEW g \in EntriesOf(T), Key(g) = Position' PROVE FALSE
    <3>1. U = T
        BY <1>2, <1>3, <2>1, <2>2, SameKey
    <3>2. QED
        BY <1>3, <1>4, <3>1
  <2>3. QED
    BY <1>5, <2>2 DEF OffPath, EntriesOf, PathEntries, Enabled
<1>7. CASE pc' = "walked"
    BY <1>5, <1>7 DEF OffPath, EntriesOf, PathEntries, Enabled
<1>8. QED
    BY <1>6, <1>7, FollowFacts

\* A step of the loop that keeps to the paths and apart from them.
LEMMA WalkStep ==
    ASSUME IInv, StableInv, pc = "walk", pc' \in {"walk", "walked"},
           UNCHANGED <<kernelVars, pos, rest, enabled, seen, search, paths, found>>,
           walk'.start = walk.start, WalkOK', ExactOK',
           \A T \in stable : \A i \in DOMAIN T.paths :
               OnPath(T.paths[i]) => OnPath(T.paths[i])',
           \A T \in stable : OffPath(T) => OffPath(T)'
    PROVE  StableInv'
<1>1. stable' = stable /\ stable \subseteq Tunnels
    BY DEF kernelVars, IInv, TypeOK
<1>2. KernelOK' /\ ReadOK'
    BY LaterKeeps DEF Later
<1>3. Searching /\ SearchSource' = SearchSource /\ IsTx' = IsTx
    BY DEF Searching, SearchSource, IsTx
<1>4. SearchTyped'
    BY <1>3 DEF StableInv, SearchTyped
<1>5. SearchFollows'
  <2> SUFFICES ASSUME NEW T \in stable, Source(T) = SearchSource
               PROVE  /\ T.kind # "dma" => FollowsPaths(T)'
                      /\ T.kind = "dma" /\ Ring(T) = search.ring => FollowsRing(T)'
    BY <1>1, <1>3 DEF SearchFollows, Source, Ring
  <2>1. /\ T.kind # "dma" => FollowsPaths(T)
        /\ T.kind = "dma" /\ Ring(T) = search.ring => FollowsRing(T)
    BY <1>3 DEF StableInv, SearchFollows
  <2>2. T.kind # "dma" => FollowsPaths(T)'
    BY <2>1 DEF FollowsPaths
  <2>3. StartAhead(T) => StartAhead(T)'
    BY DEF StartAhead
  <2>4. 1 \in DOMAIN T.paths
    BY <1>1, TunnelShape
  <2>5. T.kind = "dma" /\ Ring(T) = search.ring => FollowsRing(T)'
    BY <1>3, <2>1, <2>3, <2>4 DEF FollowsRing
  <2>6. QED
    BY <2>2, <2>5
<1>6. RxFollows'
  <2> SUFFICES ASSUME RxWalk'
               PROVE  /\ walk'.start = Front(Order[search.xdomain])
                      /\ walk'.start \in Routers
                      /\ \A T \in stable : IF AtStart(T) THEN OnPath(T.paths[2])'
                                           ELSE OffPath(T)'
    BY <1>1 DEF RxFollows, AtStart
  <2>1. RxWalk
    BY <1>3 DEF RxWalk
  <2>2. \A T \in stable : AtStart(T) => 2 \in DOMAIN T.paths
    BY <1>1, TunnelShape DEF AtStart
  <2>3. QED
    BY <2>1, <2>2 DEF StableInv, RxFollows
<1>7. FoundOK'
    BY <1>1, <1>3 DEF StableInv, FoundOK, Searching, SourceAhead, AsFound, Source, Ring
<1>8. QED
    BY <1>2, <1>4, <1>5, <1>6, <1>7 DEF StableInv

\* A ring of the host interface that no tunnel has been up for has no entry.
LEMMA RingUnused ==
    ASSUME IInv, StableInv, changes = 0, search.kind = "dma", Searching, NoRing,
           NEW e \in seen
    PROVE  Key(e) # <<search.route, search.in, search.ring>>
<1> SUFFICES ASSUME Key(e) = <<search.route, search.in, search.ring>> PROVE FALSE
    OBVIOUS
<1>1. pc \in Later
    BY DEF Searching, Later
<1>2. PICK U \in Tunnels : e \in EntriesOf(U) /\ Beside(U)
    BY <1>1, AllRead
<1>3. U \in stable
    BY <1>2 DEF Beside
<1>4. Kind[search.route][search.in] = "nhi"
  <2>1. SearchSource \in enabled /\ search.kind = TunnelKind[Kind[search.route][search.in]]
    BY DEF StableInv, SearchTyped
  <2>2. Kind[search.route][search.in] \in Sources
    BY <2>1 DEF IInv, Grounded, SearchSource
  <2>3. QED
    BY <2>1, <2>2, PathCounts
<1>5. Kind[e.route][e.in] = "nhi" /\ e.inHop = search.ring
    BY <1>4 DEF Key
<1>6. U.kind = "dma" /\ e = U.paths[1][1]
    BY <1>2, <1>5, EntryFacts
<1>7. QED
    BY <1>3, <1>5, <1>6 DEF NoRing, Ring

LEMMA FollowStable ==
    ASSUME IInv, StableInv, NEW e \in seen, Follow(e) PROVE StableInv'
<1>1. /\ pc = "walk" /\ pc' \in {"walk", "walked"}
      /\ walk.hops \in Seq(Entries) /\ e \in Entries /\ Key(e) = Position
      /\ walk'.hops = Append(walk.hops, e) /\ walk'.start = walk.start
      /\ UNCHANGED <<kernelVars, pos, rest, enabled, seen, search, paths, found>>
      /\ stable' = stable /\ changes' = changes
    BY FollowFacts
<1>2. WalkOK'
  <2> DEFINE hops == walk.hops
  <2>1. hops \in Seq(Entries) /\ \A j \in DOMAIN hops : hops[j] \in seen
    BY <1>1 DEF StableInv, WalkOK
  <2> HIDE DEF hops
  <2>2. \A j \in DOMAIN Append(hops, e) :
            (j \in DOMAIN hops /\ Append(hops, e)[j] = hops[j]) \/ Append(hops, e)[j] = e
    BY <1>1, <2>1
  <2>3. QED
    BY <1>1, <2>1, <2>2 DEF WalkOK, hops
<1>3. ExactOK'
  <2> SUFFICES ASSUME changes = 0
               PROVE  /\ \A t \in found : \E T \in stable : t = AsFound(T)
                      /\ search.kind = "dma" /\ NoRing => ~IsTx /\ paths = <<>>
    BY <1>1 DEF ExactOK, NoRing, IsTx, Ring, AsFound
  <2>1. \A t \in found : \E T \in stable : t = AsFound(T)
    BY DEF StableInv, ExactOK
  <2>2. ASSUME search.kind = "dma", NoRing PROVE ~IsTx /\ paths = <<>>
    <3>1. Searching
        BY <1>1 DEF Searching
    <3>2. Position # <<search.route, search.in, search.ring>>
        BY <1>1, <2>2, <3>1, RingUnused
    <3>3. QED
        BY <1>1, <2>2, <3>1, <3>2 DEF StableInv, ExactOK
  <2>3. QED
    BY <2>1, <2>2
<1>4. QED
    BY <1>1, <1>2, <1>3, FollowOn, FollowOff, WalkStep

LEMMA NoEntryStable == IInv /\ StableInv /\ NoEntry => StableInv'
<1> SUFFICES ASSUME IInv, StableInv, NoEntry PROVE StableInv'
    OBVIOUS
<1>1. /\ pc = "walk" /\ pc' = "walked"
      /\ UNCHANGED <<kernelVars, pos, rest, enabled, seen, walk, search, paths, found>>
      /\ stable' = stable /\ changes' = changes
    BY DEF NoEntry, snapshotVars, tunnelVars, kernelVars
<1>2. WalkOK'
    BY <1>1 DEF StableInv, WalkOK
<1>3. ExactOK'
    BY <1>1 DEF StableInv, ExactOK, Searching, NoRing, IsTx, Ring, AsFound
<1>4. \A T \in stable : OffPath(T) => OffPath(T)'
    BY <1>1 DEF OffPath, EntriesOf, PathEntries, Enabled
<1>5. QED
    BY <1>1, <1>2, <1>3, <1>4, NoEntryOn, WalkStep

-----------------------------------------------------------------------------
(***************************************************************************)
(* Tunnel::discover(), source by source.                                   *)
(***************************************************************************)
LEMMA StartOn ==
    ASSUME NEW T \in Tunnels, NEW i \in DOMAIN T.paths, NEW r, NEW a, NEW hop,
           StartWalk(r, a, hop), Key(T.paths[i][1]) = <<r, a, hop>>
    PROVE  OnPath(T.paths[i])'
<1>1. /\ pc' = "walk" /\ walk'.hops = <<>> /\ Len(walk'.hops) = 0
      /\ Position' = <<r, a, hop>>
    BY DEF StartWalk, Walk, Position
<1>2. Len(T.paths[i]) \in Nat /\ Len(T.paths[i]) >= 1
    BY PathShape
<1>3. QED
    BY <1>1, <1>2 DEF OnPath

LEMMA StartOff ==
    ASSUME NEW T \in Tunnels, NEW r, NEW a, NEW hop, StartWalk(r, a, hop),
           \A e \in EntriesOf(T) : Key(e) # <<r, a, hop>>
    PROVE  OffPath(T)'
<1>1. pc' = "walk" /\ walk'.hops = <<>> /\ Position' = <<r, a, hop>>
    BY DEF StartWalk, Walk, Position
<1>2. DOMAIN walk'.hops = {}
    BY <1>1
<1>3. QED
    BY <1>1, <1>2 DEF OffPath, EntriesOf, PathEntries, Enabled

\* What is looked for is what the source is for.
LEMMA SourceKind ==
    ASSUME IInv, StableInv, Searching, NEW T \in stable
    PROVE  /\ Source(T) = SearchSource => T.kind = search.kind
           /\ search.kind = "dma" /\ T.kind = "dma" => Source(T) = SearchSource
<1>1. /\ SearchSource \in enabled
      /\ search.kind = TunnelKind[Kind[search.route][search.in]]
    BY DEF StableInv, SearchTyped
<1>2. /\ search.route \in Routers /\ search.in \in Adapters(search.route)
      /\ Kind[search.route][search.in] \in Sources
      /\ T \in Tunnels
    BY <1>1 DEF IInv, TypeOK, Grounded, SearchSource
<1>3. Source(T) = SearchSource => T.kind = search.kind
    BY <1>1, <1>2, SourceFacts DEF SearchSource
<1>4. search.kind = "dma" /\ T.kind = "dma" => Source(T) = SearchSource
    BY <1>1, <1>2, OneHost, PathCounts DEF SearchSource
<1>5. QED
    BY <1>3, <1>4

\* A walk from behind an XDomain starts on the path of a tunnel or beside it.
LEMMA RxStart ==
    ASSUME IInv, StableInv, UNCHANGED stable, search.xdomain \in DOMAIN Order,
           Order[search.xdomain] \in XDomains, Front(Order[search.xdomain]) \in Routers,
           search'.xdomain = search.xdomain,
           StartWalk(Front(Order[search.xdomain]), Last(Order[search.xdomain]), search'.hop)
    PROVE  RxFollows'
<1> DEFINE d == Order[search.xdomain]
<1>1. walk'.start = Front(d)
    BY DEF StartWalk, Walk
<1>2. stable \subseteq Tunnels
    BY DEF IInv, TypeOK
<1>3. FacesXDomain(Front(d), Last(d))
    BY DEF FacesXDomain, Range
<1>4. ASSUME NEW T \in stable
      PROVE  IF AtStart(T)' THEN OnPath(T.paths[2])' ELSE OffPath(T)'
  <2>1. T \in Tunnels
    BY <1>2
  <2>2. CASE AtStart(T)'
    <3>1. /\ 2 \in DOMAIN T.paths
          /\ Key(T.paths[2][1]) = <<Front(d), Last(d), search'.hop>>
        BY <2>1, <2>2, TunnelShape DEF AtStart, Key
    <3>2. QED
        BY <2>1, <2>2, <3>1, StartOn
  <2>3. CASE ~AtStart(T)'
    <3>1. ASSUME NEW e \in EntriesOf(T), Key(e) = <<Front(d), Last(d), search'.hop>>
          PROVE  FALSE
      <4>1. FacesXDomain(e.route, e.in)
        BY <1>3, <3>1 DEF Key
      <4>2. T.kind = "dma" /\ e = T.paths[2][1]
        BY <2>1, <3>1, <4>1, EntryFacts
      <4>3. QED
        BY <2>3, <3>1, <4>2 DEF AtStart, Key
    <3>2. QED
        BY <2>1, <2>3, <3>1, StartOff
  <2>4. QED
    BY <2>2, <2>3
<1>5. QED
    BY <1>1, <1>4 DEF RxFollows

LEMMA PickStable ==
    ASSUME IInv, StableInv, NEW a \in rest, Pick(a) PROVE StableInv'
<1> DEFINE r == Order[pos]
<1>1. /\ pc = "pick" /\ rest' = rest \ {a}
      /\ UNCHANGED <<kernelVars, pos, enabled, seen, found>>
      /\ stable' = stable /\ changes' = changes
    BY DEF Pick, kernelVars, snapshotVars
<1>2. KernelOK' /\ ReadOK' /\ ~Searching
      /\ stable \subseteq Tunnels /\ \A T \in stable : Source(T) \in enabled
  <2>1. pc' \in Later
    BY <1>1 DEF Pick, StartWalk, Later
  <2>2. QED
    BY <1>1, <2>1, LaterKeeps, AllRead DEF Later, Searching
<1>3. \A T \in stable : SourceAhead(Source(T)) /\ Source(T) # <<r, a>> /\ pc' \in {"pick", "walk"}
           => SourceAhead(Source(T))'
  <2> SUFFICES ASSUME NEW T \in stable, SourceAhead(Source(T)), Source(T) # <<r, a>>,
                      pc' \in {"pick", "walk"}
               PROVE  SourceAhead(Source(T))'
    OBVIOUS
  <2>1. PICK i \in DOMAIN Order :
            Order[i] = Source(T)[1] /\ (i > pos \/ (i = pos /\ Source(T)[2] \in rest))
    BY DEF SourceAhead
  <2>2. T \in Tunnels
    BY <1>2
  <2>3. i > pos' \/ (i = pos' /\ Source(T)[2] \in rest')
    BY <1>1, <2>1, <2>2, SourceFacts
  <2>4. QED
    BY <2>1, <2>3 DEF SourceAhead, Source
<1>4. CASE <<r, a>> \in enabled
  <2> DEFINE kind == TunnelKind[Kind[r][a]]
  <2>1. /\ search' = [kind |-> kind, route |-> r, in |-> a,
                      ring |-> 1, xdomain |-> 0, hop |-> 0]
        /\ StartWalk(r, a, FirstHop[kind]) /\ paths' = <<>>
    BY <1>4 DEF Pick
  <2> HIDE DEF kind
  <2>2. /\ search'.kind = kind /\ search'.route = r /\ search'.in = a
        /\ search'.ring = 1 /\ search'.xdomain = 0
        /\ pc' = "walk" /\ walk'.hops = <<>>
        /\ Position' = <<r, a, FirstHop[kind]>> /\ Len(paths') = 0
    BY <2>1 DEF StartWalk, Walk, Position
  <2>3. IsTx' /\ Searching' /\ SearchSource' = <<r, a>> /\ ~RxWalk'
    BY <2>2 DEF IsTx, Searching, SearchSource, RxWalk
  <2>4. SearchTyped'
    BY <1>1, <1>4, <2>2, <2>3, BoundsAssumption, HostAssumption
       DEF SearchTyped, kind
  <2>5. ASSUME NEW T \in stable, Source(T) = <<r, a>>
        PROVE  /\ T.kind = kind
               /\ T.kind # "dma" => FollowsPaths(T)'
               /\ T.kind = "dma" /\ Ring(T) = 1 => FollowsRing(T)'
    <3>1. T \in Tunnels /\ 1 \in DOMAIN T.paths /\ T.kind = kind
        BY <1>2, <2>5, TunnelShape, SourceFacts DEF kind
    <3>2. CASE T.kind # "dma"
      <4>1. OnPath(T.paths[1])'
        BY <2>1, <2>5, <3>1, <3>2, PathStarts, StartOn
      <4>2. QED
        BY <2>2, <3>1, <3>2, <4>1 DEF FollowsPaths
    <3>3. CASE T.kind = "dma" /\ Ring(T) = 1
      <4>1. OnPath(T.paths[1])'
        BY <2>1, <2>5, <3>1, <3>3, PathStarts, PathCounts, StartOn
      <4>2. QED
        BY <2>2, <2>3, <3>1, <3>3, <4>1 DEF FollowsRing
    <3>4. QED
        BY <3>1, <3>2, <3>3
  <2>6. SearchFollows' /\ RxFollows'
    BY <1>1, <2>2, <2>3, <2>5 DEF SearchFollows, RxFollows, Source, Ring
  <2>7. FoundOK'
    <3> SUFFICES ASSUME NEW T \in stable, AsFound(T) \notin found, ~SourceAhead(Source(T))'
                 PROVE  Source(T) = <<r, a>> /\ (T.kind = "dma" => 1 <= Ring(T))
        BY <1>1, <2>2, <2>3 DEF FoundOK, Source, Ring, AsFound
    <3>1. SourceAhead(Source(T))
        BY <1>1, <1>2 DEF StableInv, FoundOK
    <3>2. Source(T) = <<r, a>>
        BY <1>3, <2>2, <3>1
    <3>3. QED
        BY <1>2, <3>2, RingFacts
  <2>8. ExactOK'
    <3>1. changes = 0 => \A t \in found : \E T \in stable : t = AsFound(T)
        BY DEF StableInv, ExactOK
    <3>2. search'.kind = "dma" => Position' = <<search'.route, search'.in, search'.ring>>
        BY <2>2, PathCounts
    <3>3. QED
        BY <1>1, <2>2, <2>3, <3>1, <3>2 DEF ExactOK, AsFound
  <2>9. WalkOK'
    BY <2>2 DEF WalkOK
  <2>10. QED
    BY <1>2, <2>4, <2>6, <2>7, <2>8, <2>9 DEF StableInv
<1>5. CASE <<r, a>> \notin enabled
  <2>1. UNCHANGED <<pc, walk, search, paths>>
    BY <1>5 DEF Pick
  <2>2. ~Searching' /\ ~RxWalk'
    BY <1>1, <2>1 DEF Searching, RxWalk
  <2>3. FoundOK'
    BY <1>1, <1>2, <1>3, <1>5, <2>1 DEF StableInv, FoundOK, Source, AsFound
  <2>4. WalkOK' /\ ExactOK'
    BY <1>1, <2>1, <2>2 DEF StableInv, WalkOK, ExactOK, AsFound
  <2>5. QED
    BY <1>2, <2>2, <2>3, <2>4 DEF StableInv, SearchTyped, SearchFollows, RxFollows
<1>6. QED
    BY <1>4, <1>5

LEMMA DevicePickedStable == IInv /\ StableInv /\ DevicePicked => StableInv'
<1> SUFFICES ASSUME IInv, StableInv, DevicePicked PROVE StableInv'
    OBVIOUS
<1>1. /\ pc = "pick" /\ rest = {} /\ NextDevice("pick", "done")
      /\ rest' = IF pc' = "done" THEN {} ELSE AdaptersOf(Order[pos'])
      /\ UNCHANGED <<kernelVars, enabled, seen, walk, search, paths, found>>
      /\ stable' = stable /\ changes' = changes
      /\ stable \subseteq Tunnels /\ pos \in DOMAIN Order
    BY DEF DevicePicked, kernelVars, snapshotVars, tunnelVars, IInv, TypeOK
<1>2. Order \in Seq(Seq(Nat)) /\ Len(Order) \in Nat /\ DOMAIN Order = 1..Len(Order)
    BY OrderAssumption, LenProperties
<1>3. KernelOK' /\ ReadOK' /\ ~Searching /\ ~Searching' /\ ~RxWalk'
    BY <1>1, LaterKeeps DEF NextDevice, Later, Searching, RxWalk
<1>4. ASSUME NEW T \in stable, SourceAhead(Source(T)) PROVE SourceAhead(Source(T))'
  <2>1. PICK i \in DOMAIN Order : Order[i] = Source(T)[1] /\ i > pos
    BY <1>1, <1>4 DEF SourceAhead
  <2>2. pos' = pos + 1 /\ pc' = "pick" /\ rest' = AdaptersOf(Order[pos'])
    BY <1>1, <1>2, <2>1 DEF NextDevice
  <2>3. Source(T)[2] \in AdaptersOf(Source(T)[1])
    BY <1>1, EntryPlaces
  <2>4. i > pos' \/ (i = pos' /\ Source(T)[2] \in rest')
    BY <1>1, <1>2, <2>1, <2>2, <2>3
  <2>5. QED
    BY <2>1, <2>2, <2>4 DEF SourceAhead, Source
<1>5. FoundOK'
    BY <1>1, <1>3, <1>4 DEF StableInv, FoundOK, Source, AsFound
<1>6. WalkOK' /\ ExactOK'
    BY <1>1, <1>3 DEF StableInv, WalkOK, ExactOK, AsFound
<1>7. QED
    BY <1>3, <1>5, <1>6 DEF StableInv, SearchTyped, SearchFollows, RxFollows

\* What no step of a search changes.
LEMMA SearchFacts ==
    ASSUME IInv, StableInv, Searching
    PROVE  /\ pc \in Later /\ pc \in {"walk", "walked", "xdomain"}
           /\ stable \subseteq Tunnels /\ SearchSource \in enabled
           /\ search.kind = TunnelKind[Kind[search.route][search.in]]
           /\ search.kind \in TunnelKinds /\ search.ring \in 1..MaxRing
           /\ search.xdomain \in Nat /\ search.hop \in Nat
           /\ walk.hops \in Seq(Entries) /\ paths \in Seq(Seq(Entries))
           /\ search = [kind |-> search.kind, route |-> search.route, in |-> search.in,
                        ring |-> search.ring, xdomain |-> search.xdomain,
                        hop |-> search.hop]
<1>1. SearchSource \in enabled /\ search.kind = TunnelKind[Kind[search.route][search.in]]
      /\ search.ring \in 1..MaxRing
    BY DEF StableInv, SearchTyped
<1>2. stable \subseteq Tunnels /\ walk \in Walks /\ paths \in Seq(Seq(Entries))
      /\ search \in [kind : TunnelKinds, route : Seq(Nat), in : Nat, ring : Nat,
                     xdomain : Nat, hop : Nat]
    BY DEF IInv, TypeOK
<1>3. walk.hops \in Seq(Entries)
    BY <1>2 DEF Walks
<1>4. QED
    BY <1>1, <1>2, <1>3 DEF Searching, Later

\* The walk over a path of the tunnel of the source has found that path.
LEMMA PathTaken ==
    ASSUME IInv, StableInv, pc = "walked", search.kind # "dma",
           NEW T \in stable, Source(T) = SearchSource
    PROVE  LET ps == Append(paths, walk.hops)
           IN  /\ T \in Tunnels /\ T.kind = search.kind
               /\ Len(T.paths) = PathCount[search.kind]
               /\ walk.hops # <<>> /\ walk.hops = T.paths[Len(ps)]
               /\ Len(ps) \in DOMAIN T.paths /\ Len(ps) = Len(paths) + 1
               /\ \A i \in 1..Len(ps) : ps[i] = T.paths[i]
               /\ ps \in Seq(Seq(Entries))
<1> DEFINE hops == walk.hops
           n == Len(paths)
<1>1. Searching
    BY DEF Searching
<1>2. hops \in Seq(Entries) /\ paths \in Seq(Seq(Entries)) /\ n \in Nat
      /\ T \in Tunnels /\ T.kind = search.kind
    BY <1>1, SearchFacts, SourceKind
<1>3. FollowsPaths(T)
    BY <1>1, <1>2 DEF StableInv, SearchFollows
<1>4. /\ n + 1 \in DOMAIN T.paths /\ hops = T.paths[n + 1]
      /\ \A i \in 1..n : paths[i] = T.paths[i]
    BY <1>3 DEF FollowsPaths, OnPath
<1>5. hops # <<>> /\ Len(T.paths) = PathCount[search.kind]
    BY <1>2, <1>4, PathShape, TunnelShape
<1> HIDE DEF hops
<1>6. /\ Append(paths, hops) \in Seq(Seq(Entries))
      /\ Len(Append(paths, hops)) = n + 1 /\ Append(paths, hops)[n + 1] = hops
      /\ \A i \in 1..n : Append(paths, hops)[i] = paths[i]
    BY <1>2, AppendProperties
<1>7. \A i \in 1..(n + 1) : Append(paths, hops)[i] = T.paths[i]
  <2>1. \A i \in 1..(n + 1) : i \in 1..n \/ i = n + 1
    BY <1>2
  <2>2. QED
    BY <1>4, <1>6, <2>1
<1>8. QED
    BY <1>2, <1>4, <1>5, <1>6, <1>7 DEF hops

LEMMA TakePathStable == IInv /\ StableInv /\ TakePath => StableInv'
<1> SUFFICES ASSUME IInv, StableInv, TakePath PROVE StableInv'
    OBVIOUS
<1> DEFINE ps == Append(paths, walk.hops)
           last == Last(walk.hops)
<1>1. /\ pc = "walked" /\ search.kind # "dma"
      /\ UNCHANGED <<kernelVars, pos, rest, enabled, seen, search>>
      /\ stable' = stable /\ changes' = changes
    BY DEF TakePath, kernelVars, snapshotVars
<1>2. Searching /\ SearchSource' = SearchSource
    BY <1>1 DEF Searching, SearchSource
<1>3. pc' \in {"pick", "walk"}
    BY DEF TakePath, StartWalk
<1>4. KernelOK' /\ ReadOK'
    BY <1>1, <1>3, LaterKeeps DEF Later
<1>5. ~RxWalk' /\ RxFollows'
    BY <1>1 DEF RxWalk, RxFollows
<1>6. SearchTyped'
    BY <1>1, <1>2, <1>3 DEF StableInv, SearchTyped, Searching
<1>7. \A T \in stable : SourceAhead(Source(T)) => SourceAhead(Source(T))'
    BY <1>1, <1>3 DEF SourceAhead, Source
<1>8. changes = 0 => \A t \in found : \E T \in stable : t = AsFound(T)
    BY DEF StableInv, ExactOK
<1>9. CASE walk.hops = <<>> /\ pc' = "pick" /\ UNCHANGED <<walk, paths, found>>
  <2>1. ~Searching'
    BY <1>9 DEF Searching
  <2>2. \A T \in stable : Source(T) # SearchSource
    BY <1>1, <1>9, PathTaken
  <2>3. FoundOK'
    BY <1>1, <1>7, <1>9, <2>2 DEF StableInv, FoundOK, Source, AsFound
  <2>4. WalkOK' /\ ExactOK'
    BY <1>1, <1>8, <1>9, <2>1 DEF StableInv, WalkOK, ExactOK, AsFound
  <2>5. QED
    BY <1>4, <1>5, <1>6, <2>1, <2>3, <2>4 DEF StableInv, SearchFollows
<1>10. CASE /\ walk.hops # <<>> /\ Len(ps) = PathCount[search.kind]
            /\ found' = found \union {Tunnel(ps)}
            /\ pc' = "pick" /\ UNCHANGED <<walk, paths>>
  <2>1. ~Searching'
    BY <1>10 DEF Searching
  <2>2. ASSUME NEW T \in stable, Source(T) = SearchSource
        PROVE  Tunnel(ps) = AsFound(T)
    <3>1. /\ ps \in Seq(Seq(Entries)) /\ T \in Tunnels /\ T.kind = search.kind
          /\ Len(T.paths) = Len(ps) /\ \A i \in 1..Len(ps) : ps[i] = T.paths[i]
        BY <1>1, <1>10, <2>2, PathTaken
    <3>2. T.paths \in Seq(Seq(Entries))
        BY <3>1, TunnelShape
    <3> HIDE DEF ps
    <3>3. ps = T.paths
        BY <3>1, <3>2, SeqEqual
    <3>4. QED
        BY <3>1, <3>3 DEF Tunnel, AsFound
  <2>3. FoundOK'
    BY <1>1, <1>7, <1>10, <2>2 DEF StableInv, FoundOK, Source, AsFound
  <2>4. changes = 0 => \E T \in stable : Source(T) = SearchSource
    <3>1. SearchSource \in enabled /\ search.kind = TunnelKind[Kind[search.route][search.in]]
        BY <1>2, SearchFacts
    <3>2. Kind[search.route][search.in] # "nhi"
        BY <1>1, <3>1 DEF TunnelKind
    <3>3. changes = 0 =>
              \/ Kind[SearchSource[1]][SearchSource[2]] = "nhi"
              \/ \E T \in stable : T.kind # "dma" /\ Source(T) = SearchSource
        BY <3>1 DEF StableInv, ReadOK
    <3>4. QED
        BY <3>2, <3>3 DEF SearchSource
  <2>5. ExactOK'
    BY <1>1, <1>8, <1>10, <2>1, <2>2, <2>4 DEF ExactOK, AsFound
  <2>6. WalkOK'
    BY <1>1, <1>10 DEF StableInv, WalkOK
  <2>7. QED
    BY <1>4, <1>5, <1>6, <2>1, <2>3, <2>5, <2>6 DEF StableInv, SearchFollows
<1>11. CASE /\ walk.hops # <<>> /\ Len(ps) < PathCount[search.kind] /\ paths' = ps
            /\ IF Len(ps) + 1 = PathCount[search.kind]
               THEN StartWalk(last.route, last.out, 8)
               ELSE StartWalk(search.route, search.in, 8)
            /\ UNCHANGED found
  <2>1. pc' = "walk" /\ walk'.hops = <<>> /\ Searching'
    BY <1>11 DEF StartWalk, Walk, Searching
  <2>2. ASSUME NEW T \in stable, Source(T) = SearchSource PROVE FollowsPaths(T)'
    <3> DEFINE n == Len(T.paths)
    <3>1. /\ T \in Tunnels /\ T.kind = search.kind /\ T.kind # "dma"
          /\ n = PathCount[search.kind] /\ n \in Nat /\ DOMAIN T.paths = 1..n
          /\ walk.hops = T.paths[Len(ps)]
          /\ Len(ps) \in Nat /\ Len(ps) >= 1 /\ Len(ps) < n
          /\ \A i \in 1..Len(ps) : ps[i] = T.paths[i]
      <4>1. /\ T \in Tunnels /\ T.kind = search.kind /\ T.kind # "dma"
            /\ n = PathCount[search.kind] /\ walk.hops = T.paths[Len(ps)]
            /\ Len(ps) \in DOMAIN T.paths /\ Len(ps) < n
            /\ \A i \in 1..Len(ps) : ps[i] = T.paths[i]
        BY <1>1, <1>11, <2>2, PathTaken
      <4>2. DOMAIN T.paths = 1..n /\ n \in Nat
        BY <4>1, TunnelShape
      <4> HIDE DEF ps
      <4>3. QED
        BY <4>1, <4>2
    <3>2. PICK m \in DOMAIN T.paths : m = Len(ps) + 1
        BY <3>1
    <3>3. OnPath(T.paths[m])'
      <4>1. CASE m = n
        <5>1. Key(T.paths[n][1]) = <<last.route, last.out, 8>>
            BY <3>1, <3>2, <4>1, PathStarts
        <5>2. StartWalk(last.route, last.out, 8)
            BY <1>11, <3>1, <3>2, <4>1
        <5>3. Key(T.paths[m][1]) = <<last.route, last.out, 8>>
            BY <4>1, <5>1
        <5> HIDE DEF last
        <5>4. QED
            BY <3>1, <3>2, <5>2, <5>3, StartOn
      <4>2. CASE m # n
        <5>1. m \in 2..(n - 1)
            BY <3>1, <3>2, <4>2
        <5>2. Source(T)[1] = search.route /\ Source(T)[2] = search.in
            BY <2>2 DEF SearchSource
        <5>3. \A i \in 2..(n - 1) :
                  Key(T.paths[i][1]) = <<Source(T)[1], Source(T)[2], 8>>
            BY <3>1, PathStarts
        <5>4. StartWalk(search.route, search.in, 8)
            BY <1>11, <3>1, <3>2, <4>2
        <5> HIDE DEF n
        <5>5. Key(T.paths[m][1]) = <<search.route, search.in, 8>>
            BY <5>1, <5>2, <5>3
        <5>6. QED
            BY <3>1, <3>2, <5>4, <5>5, StartOn
      <4>3. QED
        BY <4>1, <4>2
    <3>4. Len(paths') + 1 = m /\ \A i \in 1..Len(paths') : paths'[i] = T.paths[i]
        BY <1>11, <3>1, <3>2
    <3>5. search'.kind = T.kind /\ pc' # "xdomain"
        BY <1>1, <2>1, <3>1
    <3>6. QED
        BY <3>2, <3>3, <3>4, <3>5 DEF FollowsPaths
  <2>3. SearchFollows'
    <3>1. \A T \in stable : Source(T) = SearchSource => T.kind # "dma"
        BY <1>1, <1>2, SourceKind
    <3>2. QED
        BY <1>1, <1>2, <2>2, <3>1 DEF SearchFollows, Source
  <2>4. FoundOK'
    BY <1>1, <1>2, <1>7, <1>11, <2>1 DEF StableInv, FoundOK, Source, AsFound, Ring
  <2>5. WalkOK' /\ ExactOK'
    BY <1>1, <1>8, <1>11, <2>1 DEF WalkOK, ExactOK, AsFound
  <2>6. QED
    BY <1>4, <1>5, <1>6, <2>3, <2>4, <2>5 DEF StableInv
<1>12. QED
    BY <1>9, <1>10, <1>11 DEF TakePath

\* The receiving path of a ring starts behind an XDomain still to come.
LEMMA RxAhead ==
    ASSUME NEW T \in Tunnels, T.kind = "dma"
    PROVE  \E i \in DOMAIN Order :
               /\ Order[i] \in XDomains /\ Front(Order[i]) \in Routers
               /\ <<T.paths[2][1].route, T.paths[2][1].in>> = <<Front(Order[i]), Last(Order[i])>>
BY RingFacts DEF FacesXDomain, Range

LEMMA TakeTxStable == IInv /\ StableInv /\ TakeTx => StableInv'
<1> SUFFICES ASSUME IInv, StableInv, TakeTx PROVE StableInv'
    OBVIOUS
<1>1. /\ pc = "walked" /\ pc' = "xdomain" /\ search.kind = "dma" /\ IsTx
      /\ paths' = IF walk.hops = <<>> THEN <<>> ELSE <<walk.hops>>
      /\ search' = [search EXCEPT !.xdomain = 1]
      /\ UNCHANGED <<kernelVars, pos, rest, enabled, seen, walk, found>>
      /\ stable' = stable /\ changes' = changes
    BY DEF TakeTx, kernelVars, snapshotVars
<1>2. Searching /\ Searching' /\ ~RxWalk'
    BY <1>1 DEF Searching, RxWalk
<1>3. /\ search'.kind = "dma" /\ search'.route = search.route /\ search'.in = search.in
      /\ search'.ring = search.ring /\ search'.xdomain = 1
    BY <1>1, <1>2, SearchFacts
<1>4. SearchSource' = SearchSource /\ ~IsTx'
    BY <1>3 DEF SearchSource, IsTx
<1>5. KernelOK' /\ ReadOK'
    BY <1>1, LaterKeeps DEF Later
<1>6. SearchTyped'
    BY <1>1, <1>2, <1>3, <1>4 DEF StableInv, SearchTyped
<1>7. SearchFollows'
  <2> SUFFICES ASSUME NEW T \in stable, Source(T) = SearchSource
               PROVE  /\ T.kind = "dma"
                      /\ Ring(T) = search.ring => FollowsRing(T)'
    BY <1>1, <1>3, <1>4 DEF SearchFollows, Source, Ring
  <2>1. T \in Tunnels /\ T.kind = "dma"
    BY <1>1, <1>2, SearchFacts, SourceKind
  <2>2. ASSUME Ring(T) = search.ring PROVE FollowsRing(T)'
    <3>1. OnPath(T.paths[1])
        BY <1>1, <1>2, <2>1, <2>2 DEF StableInv, SearchFollows, FollowsRing
    <3>2. walk.hops = T.paths[1] /\ walk.hops # <<>>
        BY <1>1, <2>1, <3>1, RingFacts, PathShape DEF OnPath
    <3>3. StartAhead(T)'
      <4>1. PICK i \in DOMAIN Order :
                /\ Order[i] \in XDomains
                /\ <<T.paths[2][1].route, T.paths[2][1].in>>
                       = <<Front(Order[i]), Last(Order[i])>>
        BY <2>1, RxAhead
      <4>2. search'.xdomain < i \/ search'.xdomain = i
        BY <1>3, OrderAssumption
      <4>3. QED
        BY <1>1, <4>1, <4>2 DEF StartAhead
    <3>4. QED
        BY <1>1, <1>3, <1>4, <3>2, <3>3 DEF FollowsRing
  <2>3. QED
    BY <2>1, <2>2
<1>8. FoundOK'
    BY <1>1, <1>2, <1>3, <1>4
       DEF StableInv, FoundOK, SourceAhead, Source, AsFound, Ring
<1>9. WalkOK'
    BY <1>1 DEF StableInv, WalkOK
<1>10. ExactOK'
    BY <1>1, <1>2, <1>3, <1>4 DEF StableInv, ExactOK, NoRing, Ring, AsFound
<1>11. QED
    BY <1>2, <1>5, <1>6, <1>7, <1>8, <1>9, <1>10 DEF StableInv, RxFollows

\* discover_one_dma() has ended with the paths of the tunnel of the ring, if
\* there is one that is up all the time.
LEMMA RingDoneStable ==
    ASSUME IInv, StableInv, Searching, search.kind = "dma", NEW ps, RingDone(ps),
           UNCHANGED <<kernelVars, pos, rest, enabled, seen>>,
           \A T \in stable : T.kind = "dma" /\ Ring(T) = search.ring => ps = T.paths,
           changes = 0 => ps = <<>> \/ \E T \in stable : T.kind = "dma" /\ ps = T.paths
    PROVE  StableInv'
<1>1. /\ stable' = stable /\ changes' = changes /\ stable \subseteq Tunnels
      /\ MaxRing \in Nat /\ search.ring \in 1..MaxRing
    BY SearchFacts, BoundsAssumption DEF kernelVars
<1>2. /\ found' = IF ps = <<>> THEN found ELSE found \union {Tunnel(ps)}
      /\ paths' = <<>>
    BY DEF RingDone
<1>3. pc' \in {"pick", "walk"}
    BY DEF RingDone, StartWalk
<1>4. KernelOK' /\ ReadOK'
    BY <1>3, SearchFacts, LaterKeeps DEF Later
<1>5. \A T \in stable : SourceAhead(Source(T)) => SourceAhead(Source(T))'
    BY <1>3 DEF SourceAhead, Source
<1>6. ASSUME NEW T \in stable, T.kind = "dma", ps = T.paths
      PROVE  ps # <<>> /\ Tunnel(ps) = AsFound(T)
  <2>1. T \in Tunnels
    BY <1>1
  <2>2. T.paths \in Seq(Seq(Entries)) /\ Len(T.paths) = 2
    BY <1>6, <2>1, TunnelShape
  <2>3. Len(T.paths) # 0
    BY <2>2
  <2>4. T.paths # <<>>
    BY <2>2, <2>3, EmptySeq
  <2>5. QED
    BY <1>6, <2>4 DEF Tunnel, AsFound
<1>7. \A T \in stable : T.kind = "dma" /\ Ring(T) = search.ring => AsFound(T) \in found'
    BY <1>2, <1>6
<1>8. changes = 0 => \A t \in found' : \E T \in stable : t = AsFound(T)
  <2>1. changes = 0 => \A t \in found : \E T \in stable : t = AsFound(T)
    BY DEF StableInv, ExactOK
  <2>2. QED
    BY <1>2, <1>6, <2>1
\* A tunnel of the source that has not been found has a ring still ahead.
<1>9. ASSUME NEW T \in stable, AsFound(T) \notin found', ~SourceAhead(Source(T))'
      PROVE  /\ Source(T) = SearchSource /\ T.kind = "dma"
             /\ Ring(T) \in 1..MaxRing /\ search.ring < Ring(T)
  <2>1. Source(T) = SearchSource /\ (T.kind = "dma" => search.ring <= Ring(T))
    <3>1. AsFound(T) \notin found
        BY <1>2, <1>9
    <3>2. QED
        BY <1>5, <1>9, <3>1 DEF StableInv, FoundOK, Searching
  <2>2. T.kind = "dma"
    BY <2>1, SourceKind
  <2>3. Ring(T) \in 1..MaxRing /\ Ring(T) # search.ring
    BY <1>1, <1>7, <1>9, <2>2, RingFacts
  <2>4. QED
    BY <1>1, <2>1, <2>2, <2>3
<1>10. CASE /\ search.ring < MaxRing
            /\ search' = [search EXCEPT !.ring = @ + 1, !.xdomain = 0]
            /\ StartWalk(search.route, search.in, search.ring + 1)
  <2>1. /\ search'.kind = "dma" /\ search'.route = search.route /\ search'.in = search.in
        /\ search'.ring = search.ring + 1 /\ search'.xdomain = 0
    BY <1>10, SearchFacts
  <2>2. /\ pc' = "walk" /\ walk'.hops = <<>>
        /\ Position' = <<search.route, search.in, search.ring + 1>>
    BY <1>10 DEF StartWalk, Walk, Position
  <2>3. IsTx' /\ Searching' /\ SearchSource' = SearchSource /\ ~RxWalk'
    BY <2>1, <2>2 DEF IsTx, Searching, SearchSource, RxWalk
  <2>4. SearchTyped'
    BY <1>1, <1>10, <2>1, <2>2, <2>3, SearchFacts DEF SearchTyped
  <2>5. ASSUME NEW T \in stable, Source(T) = SearchSource
        PROVE  T.kind = "dma" /\ (Ring(T) = search.ring + 1 => FollowsRing(T)')
    <3>1. T \in Tunnels /\ T.kind = "dma"
        BY <1>1, <2>5, SourceKind
    <3>2. ASSUME Ring(T) = search.ring + 1 PROVE OnPath(T.paths[1])'
      <4>1. Key(T.paths[1][1]) = <<search.route, search.in, search.ring + 1>>
        BY <2>5, <3>1, <3>2, PathStarts DEF SearchSource
      <4>2. QED
        BY <1>10, <3>1, <4>1, RingFacts, StartOn
    <3>3. QED
        BY <2>1, <2>2, <2>3, <3>1, <3>2 DEF FollowsRing
  <2>6. SearchFollows'
    BY <1>1, <2>1, <2>3, <2>5 DEF SearchFollows, Source, Ring
  <2>7. FoundOK'
    <3>1. \A T \in stable : AsFound(T) \notin found' /\ ~SourceAhead(Source(T))'
              => Source(T) = SearchSource /\ search.ring + 1 <= Ring(T)
        BY <1>1, <1>9
    <3>2. QED
        BY <1>1, <2>1, <2>3, <3>1 DEF FoundOK, Source, AsFound, Ring
  <2>8. WalkOK' /\ ExactOK'
    BY <1>1, <1>8, <2>1, <2>2, <2>3 DEF WalkOK, ExactOK, AsFound
  <2>9. QED
    BY <1>4, <2>3, <2>4, <2>6, <2>7, <2>8 DEF StableInv, RxFollows
<1>11. CASE search.ring >= MaxRing /\ pc' = "pick" /\ UNCHANGED <<walk, search>>
  <2>1. ~Searching' /\ ~RxWalk'
    BY <1>11 DEF Searching, RxWalk
  <2>2. FoundOK'
    <3>1. \A T \in stable : AsFound(T) \in found' \/ SourceAhead(Source(T))'
        BY <1>1, <1>9, <1>11
    <3>2. QED
        BY <1>1, <3>1 DEF FoundOK, AsFound, Source
  <2>3. WalkOK' /\ ExactOK'
    BY <1>1, <1>8, <1>11, <2>1 DEF StableInv, WalkOK, ExactOK, AsFound
  <2>4. QED
    BY <1>4, <2>1, <2>2, <2>3 DEF StableInv, SearchTyped, SearchFollows, RxFollows
<1>12. QED
    BY <1>10, <1>11 DEF RingDone

\* A step of discover_dma() that goes on looking for the receiving path.
LEMMA GoOn ==
    ASSUME IInv, StableInv, Searching, search.kind = "dma", ~IsTx,
           UNCHANGED <<kernelVars, pos, rest, enabled, seen, paths, found>>,
           pc' \in {"walk", "xdomain"}, WalkOK', RxFollows',
           search'.kind = search.kind, search'.route = search.route,
           search'.in = search.in, search'.ring = search.ring, ~IsTx',
           \A T \in stable : T.kind = "dma" /\ Ring(T) = search.ring /\ StartAhead(T)
               => StartAhead(T)'
    PROVE  StableInv'
<1>1. stable' = stable /\ changes' = changes /\ stable \subseteq Tunnels
    BY SearchFacts DEF kernelVars
<1>2. Searching' /\ SearchSource' = SearchSource
    BY DEF Searching, SearchSource
<1>3. KernelOK' /\ ReadOK'
    BY <1>2, SearchFacts, LaterKeeps DEF Later
<1>4. SearchTyped'
    BY <1>2 DEF StableInv, SearchTyped
<1>5. ASSUME NEW T \in stable, Source(T) = SearchSource
      PROVE  T.kind = "dma" /\ (Ring(T) = search.ring => FollowsRing(T)')
  <2>1. T.kind = "dma"
    BY <1>5, SourceKind
  <2>2. Ring(T) = search.ring => FollowsRing(T)
    BY <1>5, <2>1 DEF StableInv, SearchFollows
  <2>3. QED
    BY <2>1, <2>2 DEF FollowsRing
<1>6. SearchFollows'
    BY <1>1, <1>2, <1>5 DEF SearchFollows, Source, Ring
<1>7. FoundOK'
    BY <1>1, <1>2 DEF StableInv, FoundOK, Searching, SourceAhead, Source, AsFound, Ring
<1>8. ExactOK'
    BY <1>1 DEF StableInv, ExactOK, NoRing, Ring, AsFound
<1>9. QED
    BY <1>3, <1>4, <1>6, <1>7, <1>8 DEF StableInv

LEMMA NextXDomainStable == IInv /\ StableInv /\ NextXDomain => StableInv'
<1> SUFFICES ASSUME IInv, StableInv, NextXDomain PROVE StableInv'
    OBVIOUS
<1> DEFINE d == Order[search.xdomain]
<1>1. pc = "xdomain" /\ UNCHANGED <<kernelVars, pos, rest, enabled, seen>>
      /\ stable' = stable
    BY DEF NextXDomain, kernelVars, snapshotVars
<1>2. Searching
    BY <1>1 DEF Searching
<1>3. search.kind = "dma" /\ search.xdomain # 0 /\ ~IsTx
    BY <1>1, <1>2 DEF StableInv, SearchTyped, IInv, AtXDomain, IsTx
<1>4. stable \subseteq Tunnels /\ search.xdomain \in Nat
    BY <1>2, SearchFacts
<1>5. Len(Order) \in Nat /\ DOMAIN Order = 1..Len(Order)
    BY OrderAssumption, LenProperties
<1>6. ASSUME NEW T \in stable, T.kind = "dma", Ring(T) = search.ring
      PROVE  StartAhead(T)
  <2>1. Source(T) = SearchSource
    BY <1>2, <1>3, <1>6, SourceKind
  <2>2. QED
    BY <1>2, <1>3, <1>6, <2>1 DEF StableInv, SearchFollows, FollowsRing
<1>7. CASE search.xdomain > Len(Order) /\ RingDone(paths)
  <2>1. \A T \in stable : ~(T.kind = "dma" /\ Ring(T) = search.ring)
    BY <1>4, <1>5, <1>6, <1>7 DEF StartAhead
  <2>2. changes = 0 => paths = <<>>
    BY <1>2, <1>3, <2>1 DEF StableInv, ExactOK, NoRing
  <2>3. QED
    BY <1>1, <1>2, <1>3, <1>7, <2>1, <2>2, RingDoneStable
<1>8. CASE /\ search.xdomain <= Len(Order)
           /\ d \in XDomains /\ Front(d) \in Routers /\ 8 <= MaxHop
           /\ search' = [search EXCEPT !.hop = 8]
           /\ StartWalk(Front(d), Last(d), 8)
           /\ UNCHANGED <<paths, found>>
  <2>1. /\ search'.kind = search.kind /\ search'.route = search.route
        /\ search'.in = search.in /\ search'.ring = search.ring
        /\ search'.xdomain = search.xdomain /\ search'.hop = 8
    BY <1>2, <1>8, SearchFacts
  <2>2. ~IsTx' /\ pc' = "walk" /\ walk'.hops = <<>>
    BY <1>3, <1>8, <2>1 DEF IsTx, StartWalk, Walk
  <2>3. WalkOK'
    BY <2>2 DEF WalkOK
  <2>4. search.xdomain \in DOMAIN Order
    BY <1>3, <1>4, <1>5, <1>8
  <2>5. RxFollows'
    BY <1>1, <1>8, <2>1, <2>4, RxStart
  <2>6. ASSUME NEW T \in stable, T.kind = "dma", StartAhead(T) PROVE StartAhead(T)'
    <3>1. 8 <= T.paths[2][1].inHop
        BY <1>4, <2>6, RingFacts, BoundsAssumption
    <3>2. QED
        BY <2>1, <2>6, <3>1 DEF StartAhead
  <2>7. QED
    BY <1>1, <1>2, <1>3, <1>8, <2>1, <2>2, <2>3, <2>5, <2>6, GoOn
<1>9. CASE /\ search.xdomain <= Len(Order)
           /\ d \notin XDomains \/ Front(d) \notin Routers \/ 8 > MaxHop
           /\ search' = [search EXCEPT !.xdomain = @ + 1]
           /\ UNCHANGED <<pc, walk>> /\ UNCHANGED <<paths, found>>
  <2>1. /\ search'.kind = search.kind /\ search'.route = search.route
        /\ search'.in = search.in /\ search'.ring = search.ring
        /\ search'.xdomain = search.xdomain + 1
    BY <1>2, <1>9, SearchFacts
  <2>2. ~IsTx' /\ pc' = "xdomain"
    BY <1>1, <1>4, <1>9, <2>1 DEF IsTx
  <2>3. WalkOK' /\ RxFollows'
    BY <1>1, <1>9, <2>2 DEF StableInv, WalkOK, RxFollows, RxWalk
  <2>4. ASSUME NEW T \in stable, T.kind = "dma", StartAhead(T) PROVE StartAhead(T)'
    <3>1. PICK i \in DOMAIN Order :
              /\ Order[i] \in XDomains
              /\ <<T.paths[2][1].route, T.paths[2][1].in>> = <<Front(Order[i]), Last(Order[i])>>
              /\ search.xdomain < i \/ search.xdomain = i
        BY <2>4 DEF StartAhead
    <3>2. T.paths[2][1].route \in Routers /\ MaxHop >= 8
        BY <1>4, <2>4, RingFacts, BoundsAssumption DEF FacesXDomain
    <3>3. search.xdomain # i
        BY <1>9, <3>1, <3>2, BoundsAssumption
    <3>4. search'.xdomain < i \/ search'.xdomain = i
        BY <1>4, <1>5, <2>1, <3>1, <3>3
    <3>5. QED
        BY <2>2, <3>1, <3>4 DEF StartAhead
  <2>5. QED
    BY <1>1, <1>2, <1>3, <1>9, <2>1, <2>2, <2>3, <2>4, GoOn
<1>10. QED
    BY <1>7, <1>8, <1>9 DEF NextXDomain

\* A path that ends with the number of the ring is the receiving path of the
\* tunnel that is up for it.
LEMMA HitFacts ==
    ASSUME IInv, StableInv, pc = "walked", search.kind = "dma", ~IsTx, Hit
    PROVE  LET e == Last(walk.hops)
           IN  /\ e.outHop = search.ring
               /\ \E U \in Tunnels : e \in EntriesOf(U) /\ Beside(U)
               /\ \A T \in stable : e \in EntriesOf(T) =>
                      T \in Tunnels /\ AtStart(T) /\ walk.hops = T.paths[2]
<1> DEFINE e == Last(walk.hops)
<1>1. Searching /\ RxWalk
    BY DEF Searching, RxWalk
<1>2. walk.hops \in Seq(Entries) /\ walk.hops # <<>> /\ stable \subseteq Tunnels
      /\ pc \in Later
    BY <1>1, SearchFacts DEF Hit
<1>3. Len(walk.hops) \in DOMAIN walk.hops /\ e = walk.hops[Len(walk.hops)]
  <2>1. Len(walk.hops) \in Nat /\ Len(walk.hops) # 0 /\ DOMAIN walk.hops = 1..Len(walk.hops)
    BY <1>2, EmptySeq, LenProperties
  <2>2. QED
    BY <2>1 DEF Last
<1>4. e \in seen
    BY <1>3 DEF StableInv, WalkOK
<1>5. \E U \in Tunnels : e \in EntriesOf(U) /\ Beside(U)
    BY <1>2, <1>4, AllRead
<1>6. ASSUME NEW T \in stable, e \in EntriesOf(T)
      PROVE  AtStart(T) /\ walk.hops = T.paths[2]
  <2>1. ~OffPath(T)
    BY <1>3, <1>6 DEF OffPath
  <2>2. AtStart(T) /\ OnPath(T.paths[2])
    BY <1>1, <2>1 DEF StableInv, RxFollows
  <2>3. QED
    BY <2>2 DEF OnPath
<1>7. QED
    BY <1>2, <1>5, <1>6 DEF Hit

LEMMA HitRing ==
    ASSUME IInv, StableInv, pc = "walked", search.kind = "dma", ~IsTx, Hit,
           NEW T \in stable, T.kind = "dma", Ring(T) = search.ring
    PROVE  walk.hops = T.paths[2]
<1> DEFINE e == Last(walk.hops)
<1>1. PICK U \in Tunnels : e \in EntriesOf(U) /\ Beside(U)
    BY HitFacts
<1>2. e.outHop = Ring(T) /\ stable \subseteq Tunnels
    BY HitFacts DEF IInv, TypeOK
<1>3. U.kind = "dma" /\ e = Last(U.paths[2])
    BY <1>1, <1>2, EntryFacts
<1>4. Ring(U) = Ring(T)
    BY <1>2, <1>3, RingFacts
<1>5. U = T
    BY <1>1, <1>2, <1>3, <1>4, OneRing
<1>6. QED
    BY <1>1, <1>5, HitFacts

\* When the kernel does nothing, there is such a tunnel.
LEMMA HitExact ==
    ASSUME IInv, StableInv, pc = "walked", search.kind = "dma", ~IsTx, Hit, changes = 0
    PROVE  \E T \in stable : T.kind = "dma" /\ Ring(T) = search.ring
<1> DEFINE e == Last(walk.hops)
<1>1. PICK U \in Tunnels : e \in EntriesOf(U) /\ Beside(U)
    BY HitFacts
<1>2. U \in stable
    BY <1>1 DEF Beside
<1>3. U.kind = "dma" /\ walk.hops = U.paths[2]
    BY <1>1, <1>2, HitFacts DEF AtStart
<1>4. e.outHop = search.ring
    BY HitFacts
<1>5. QED
    BY <1>1, <1>2, <1>3, <1>4, RingFacts

LEMMA TakeRxStable == IInv /\ StableInv /\ TakeRx => StableInv'
<1> SUFFICES ASSUME IInv, StableInv, TakeRx PROVE StableInv'
    OBVIOUS
<1> DEFINE d == Order[search.xdomain]
<1>1. /\ pc = "walked" /\ search.kind = "dma" /\ ~IsTx
      /\ UNCHANGED <<kernelVars, pos, rest, enabled, seen>> /\ stable' = stable
    BY DEF TakeRx, kernelVars, snapshotVars
<1>2. Searching /\ RxWalk /\ search.xdomain # 0
    BY <1>1 DEF Searching, RxWalk, IsTx
<1>3. /\ stable \subseteq Tunnels /\ search.xdomain \in Nat /\ search.hop \in Nat
      /\ walk.hops \in Seq(Entries)
      /\ search.xdomain \in DOMAIN Order /\ d \in XDomains
      /\ walk.start = Front(d) /\ Front(d) \in Routers
    BY <1>1, <1>2, SearchFacts DEF IInv, AtXDomain, StableInv, RxFollows
<1>4. Len(Order) \in Nat /\ DOMAIN Order = 1..Len(Order)
    BY OrderAssumption, LenProperties
<1>5. ASSUME NEW T \in stable, T.kind = "dma", Ring(T) = search.ring
      PROVE  StartAhead(T) /\ paths = <<T.paths[1]>>
  <2>1. Source(T) = SearchSource
    BY <1>1, <1>2, <1>5, SourceKind
  <2>2. QED
    BY <1>1, <1>2, <1>5, <2>1 DEF StableInv, SearchFollows, FollowsRing
\* The path of the tunnel of the ring has not been followed yet.
<1>6. ASSUME ~Hit, NEW T \in stable, T.kind = "dma", Ring(T) = search.ring
      PROVE  ~AtStart(T)
  <2>1. SUFFICES ASSUME AtStart(T) PROVE FALSE
    OBVIOUS
  <2>2. walk.hops = T.paths[2]
    BY <1>1, <1>2, <2>1 DEF StableInv, RxFollows, OnPath
  <2>3. T \in Tunnels
    BY <1>3
  <2>4. walk.hops # <<>> /\ Last(walk.hops).outHop = search.ring
    BY <1>6, <2>2, <2>3, RingFacts, PathShape
  <2>5. QED
    BY <1>6, <2>4 DEF Hit
<1>7. ASSUME ~Hit, NEW T \in stable, T.kind = "dma", Ring(T) = search.ring,
             NEW i \in DOMAIN Order,
             <<T.paths[2][1].route, T.paths[2][1].in>> = <<Front(Order[i]), Last(Order[i])>>,
             search.xdomain = i
      PROVE  search.hop # T.paths[2][1].inHop
    BY <1>6, <1>7 DEF AtStart, Key
<1>8. CASE Hit /\ RingDone(Append(paths, walk.hops))
  <2> DEFINE ps == Append(paths, walk.hops)
  <2>1. ASSUME NEW T \in stable, T.kind = "dma", Ring(T) = search.ring
        PROVE  ps = T.paths
    <3>1. paths = <<T.paths[1]>> /\ walk.hops = T.paths[2]
        BY <1>1, <1>5, <1>8, <2>1, HitRing
    <3>2. T.paths \in Seq(Seq(Entries)) /\ Len(T.paths) = 2
        BY <1>3, <2>1, TunnelShape
    <3> HIDE DEF ps
    <3>3. /\ ps \in Seq(Seq(Entries)) /\ Len(ps) = 2
          /\ ps[1] = T.paths[1] /\ ps[2] = T.paths[2]
      <4>1. <<T.paths[1]>> \in Seq(Seq(Entries)) /\ Len(<<T.paths[1]>>) = 1
        BY <3>2
      <4>2. ps = Append(<<T.paths[1]>>, T.paths[2]) /\ T.paths[2] \in Seq(Entries)
        BY <3>1, <3>2 DEF ps
      <4>3. QED
        BY <4>1, <4>2, AppendProperties
    <3>4. \A i \in 1..2 : ps[i] = T.paths[i]
        BY <3>3
    <3>5. QED
        BY <3>2, <3>3, <3>4, SeqEqual
  <2>2. changes = 0 => \E T \in stable : T.kind = "dma" /\ ps = T.paths
    <3>1. changes = 0 => \E T \in stable : T.kind = "dma" /\ Ring(T) = search.ring
        BY <1>1, <1>8, HitExact
    <3>2. QED
        BY <2>1, <3>1
  <2> HIDE DEF ps
  <2>3. RingDone(ps)
    BY <1>8 DEF ps
  <2>4. QED
    BY <1>1, <1>2, <2>1, <2>2, <2>3, RingDoneStable
<1>9. CASE /\ ~Hit /\ search.hop < MaxHop
           /\ search' = [search EXCEPT !.hop = @ + 1]
           /\ StartWalk(walk.start, Last(d), search.hop + 1)
           /\ UNCHANGED <<paths, found>>
  <2>1. /\ search'.kind = search.kind /\ search'.route = search.route
        /\ search'.in = search.in /\ search'.ring = search.ring
        /\ search'.xdomain = search.xdomain /\ search'.hop = search.hop + 1
    BY <1>2, <1>9, SearchFacts
  <2>2. ~IsTx' /\ pc' = "walk" /\ walk'.hops = <<>>
    BY <1>1, <1>9, <2>1 DEF IsTx, StartWalk, Walk
  <2>3. WalkOK'
    BY <2>2 DEF WalkOK
  <2>4. RxFollows'
    <3>1. StartWalk(Front(d), Last(d), search'.hop)
        BY <1>3, <1>9, <2>1
    <3>2. QED
        BY <1>1, <1>3, <2>1, <3>1, RxStart
  <2>5. ASSUME NEW T \in stable, T.kind = "dma", Ring(T) = search.ring, StartAhead(T)
        PROVE  StartAhead(T)'
    <3>1. PICK i \in DOMAIN Order :
              /\ Order[i] \in XDomains
              /\ <<T.paths[2][1].route, T.paths[2][1].in>> = <<Front(Order[i]), Last(Order[i])>>
              /\ search.xdomain < i \/ (search.xdomain = i /\ search.hop <= T.paths[2][1].inHop)
        BY <1>1, <2>5 DEF StartAhead
    <3>2. T.paths[2][1].inHop \in Nat
        BY <1>3, <2>5, RingFacts, BoundsAssumption
    <3>3. search.xdomain = i => search.hop # T.paths[2][1].inHop
        BY <1>7, <1>9, <2>5, <3>1
    <3>4. search'.xdomain < i \/ (search'.xdomain = i /\ search'.hop <= T.paths[2][1].inHop)
        BY <1>3, <2>1, <3>1, <3>2, <3>3
    <3>5. QED
        BY <3>1, <3>4 DEF StartAhead
  <2>6. QED
    BY <1>1, <1>2, <1>9, <2>1, <2>2, <2>3, <2>4, <2>5, GoOn
<1>10. CASE /\ ~Hit /\ search.hop >= MaxHop
            /\ search' = [search EXCEPT !.xdomain = @ + 1]
            /\ pc' = "xdomain" /\ UNCHANGED <<walk, paths, found>>
  <2>1. /\ search'.kind = search.kind /\ search'.route = search.route
        /\ search'.in = search.in /\ search'.ring = search.ring
        /\ search'.xdomain = search.xdomain + 1
    BY <1>2, <1>10, SearchFacts
  <2>2. ~IsTx' /\ WalkOK' /\ RxFollows'
    BY <1>1, <1>3, <1>10, <2>1 DEF IsTx, StableInv, WalkOK, RxFollows, RxWalk
  <2>3. ASSUME NEW T \in stable, T.kind = "dma", Ring(T) = search.ring, StartAhead(T)
        PROVE  StartAhead(T)'
    <3>1. PICK i \in DOMAIN Order :
              /\ Order[i] \in XDomains
              /\ <<T.paths[2][1].route, T.paths[2][1].in>> = <<Front(Order[i]), Last(Order[i])>>
              /\ search.xdomain < i \/ (search.xdomain = i /\ search.hop <= T.paths[2][1].inHop)
        BY <1>1, <2>3 DEF StartAhead
    <3>2. T.paths[2][1].inHop \in 8..MaxHop
        BY <1>3, <2>3, RingFacts
    <3>3. search.xdomain # i
      <4>1. search.xdomain = i => search.hop # T.paths[2][1].inHop
        BY <1>7, <1>10, <2>3, <3>1
      <4>2. MaxHop \in Nat
        BY BoundsAssumption
      <4> DEFINE h == T.paths[2][1].inHop
      <4>3. h \in 8..MaxHop /\ search.hop \in Nat /\ search.hop >= MaxHop
        BY <1>3, <1>10, <3>2
      <4>4. search.xdomain = i => search.hop # h /\ search.hop <= h
        BY <1>4, <3>1, <4>1
      <4> HIDE DEF h
      <4>5. QED
        BY ONLY <4>2, <4>3, <4>4
    <3>4. search'.xdomain < i \/ search'.xdomain = i
        BY <1>3, <1>4, <2>1, <3>1, <3>3
    <3>5. QED
        BY <1>10, <3>1, <3>4 DEF StartAhead
  <2>4. QED
    BY <1>1, <1>2, <1>10, <2>1, <2>2, <2>3, GoOn
<1>11. QED
    BY <1>8, <1>9, <1>10 DEF TakeRx

-----------------------------------------------------------------------------
LEMMA StableKeeps == IInv /\ StableInv /\ [Next]_vars => StableInv'
<1> SUFFICES ASSUME IInv, StableInv, [Next]_vars PROVE StableInv'
    OBVIOUS
<1>1. CASE Kernel
    BY <1>1, KernelStable
<1>2. CASE Read
    BY <1>2, ReadAdapterStable, ReadPathsStable, AdaptersReadStable, DeviceReadStable,
       ReadFailsStable DEF Read
<1>3. CASE DiscoverPath
    BY <1>3, FollowStable, NoEntryStable DEF DiscoverPath
<1>4. CASE Discover
    BY <1>4, PickStable, DevicePickedStable, TakePathStable, TakeTxStable,
       NextXDomainStable, TakeRxStable DEF Discover
<1>5. CASE UNCHANGED vars
  <2>1. UNCHANGED <<up, changes, stable, pc, pos, rest, enabled, seen, walk, search,
                    paths, found>>
    BY <1>5 DEF vars, kernelVars, snapshotVars, tunnelVars
  <2>2. KernelOK' /\ ReadOK'
    <3>1. \A r, a : (StateRead(r, a)' => StateRead(r, a)) /\ (PathsRead(r, a)' => PathsRead(r, a))
        BY <2>1 DEF StateRead, PathsRead, DeviceBefore, Later
    <3>2. QED
        BY <2>1, <3>1, NothingRead DEF kernelVars
  <2>3. WalkOK' /\ SearchTyped' /\ FoundOK' /\ ExactOK'
    BY <2>1 DEF StableInv, WalkOK, SearchTyped, FoundOK, ExactOK, Searching, SearchSource,
                SourceAhead, Source, AsFound, Ring, NoRing, IsTx, Position
  <2>4. SearchFollows' /\ RxFollows'
    <3>1. \A T \in stable : (AtStart(T)' <=> AtStart(T)) /\ (StartAhead(T) => StartAhead(T)')
        BY <2>1 DEF AtStart, StartAhead, Key
    <3>2. \A T \in stable : \A i \in Nat : OnPath(T.paths[i]) => OnPath(T.paths[i])'
        BY <2>1 DEF OnPath, Position, Key
    <3>3. \A T \in stable : OffPath(T) => OffPath(T)'
        BY <2>1 DEF OffPath, Position, Key, EntriesOf, PathEntries, Enabled
    <3>4. RxFollows'
        BY <2>1, <3>1, <3>2, <3>3 DEF StableInv, RxFollows, RxWalk, IsTx
    <3>5. ASSUME NEW T \in stable
          PROVE  /\ FollowsPaths(T) => FollowsPaths(T)'
                 /\ FollowsRing(T) => FollowsRing(T)'
      <4>1. paths \in Seq(Seq(Entries)) /\ Len(paths) + 1 \in Nat
        BY LenProperties DEF IInv, TypeOK
      <4>2. FollowsPaths(T) => FollowsPaths(T)'
        BY <2>1, <3>2, <4>1 DEF FollowsPaths
      <4>3. FollowsRing(T) => FollowsRing(T)'
        BY <2>1, <3>1, <3>2 DEF FollowsRing, IsTx
      <4>4. QED
        BY <4>2, <4>3
    <3>6. QED
        BY <2>1, <3>4, <3>5 DEF StableInv, SearchFollows, Searching, SearchSource, Source, Ring
  <2>5. QED
    BY <2>2, <2>3, <2>4 DEF StableInv
<1>6. QED
    BY <1>1, <1>2, <1>3, <1>4, <1>5 DEF Next

LEMMA StableWhenDone == IInv /\ StableInv => StableFound
<1> SUFFICES ASSUME IInv, StableInv, pc = "done"
             PROVE  /\ \A T \in stable : AsFound(T) \in found
                    /\ changes = 0 => found = {AsFound(T) : T \in stable}
    BY DEF StableFound
<1>1. \A T \in stable : AsFound(T) \in found
    BY DEF StableInv, FoundOK, SourceAhead, Searching
<1>2. changes = 0 => \A t \in found : \E T \in stable : t = AsFound(T)
    BY DEF StableInv, ExactOK
<1>3. QED
    BY <1>1, <1>2

-----------------------------------------------------------------------------
(***************************************************************************)
(* Routes and links. From here on the proofs use the assumptions on the    *)
(* topology throughout.                                                    *)
(***************************************************************************)
USE OrderAssumption, BoundsAssumption, AdaptersAssumption, TunnelsAssumption

LEMMA FrontLast ==
    ASSUME NEW S, NEW s \in Seq(S), s # <<>>
    PROVE  /\ Front(s) \in Seq(S) /\ Len(Front(s)) = Len(s) - 1
           /\ Last(s) \in S
           /\ s = Append(Front(s), Last(s))
<1>1. Len(s) \in Nat /\ Len(s) > 0
    BY EmptySeq
<1>2. /\ SubSeq(s, 1, Len(s) - 1) \in Seq(S)
      /\ Len(SubSeq(s, 1, Len(s) - 1)) = Len(s) - 1
      /\ \A i \in 1..(Len(s) - 1) : SubSeq(s, 1, Len(s) - 1)[i] = s[i]
  <2> DEFINE n == Len(s) - 1
  <2>1. n \in Nat /\ \A i \in 1..n : s[i] \in S
    BY <1>1
  <2> HIDE DEF n
  <2>2. /\ SubSeq(s, 1, n) \in Seq(S)
        /\ Len(SubSeq(s, 1, n)) = IF 1 <= n THEN n - 1 + 1 ELSE 0
        /\ \A i \in 1..(n - 1 + 1) : SubSeq(s, 1, n)[i] = s[1 + i - 1]
    BY ONLY <2>1, SubSeqProperties
  <2>3. Len(SubSeq(s, 1, n)) = n /\ n - 1 + 1 = n
    BY ONLY <2>1, <2>2
  <2>4. ASSUME NEW i \in 1..n PROVE SubSeq(s, 1, n)[i] = s[i]
    <3>1. 1 + i - 1 = i /\ i \in 1..(n - 1 + 1)
        BY <2>1
    <3>2. QED
        BY ONLY <2>2, <3>1
  <2>5. QED
    BY ONLY <2>2, <2>3, <2>4 DEF n
<1>3. QED
    BY <1>1, <1>2 DEF Front, Last

LEMMA RouterType ==
    ASSUME NEW r \in Routers
    PROVE  r \in Seq(Nat) /\ Len(r) <= MaxDepth /\ Upstream[r] \in Nat
<1>1. r \in Seq(Nat) /\ Len(r) <= MaxDepth
    BY DEF Routers, Range
<1>2. QED
    BY <1>1

\* A link leads up or down by one router, and down to an upstream adapter.
LEMMA LinkEnds ==
    ASSUME NEW r \in Routers, NEW a \in Adapters(r), NEW end \in Beyond(r, a)
    PROVE  /\ end[1] \in Routers /\ end[2] \in Nat
           /\ \/ /\ a = Upstream[r] /\ end[2] # Upstream[end[1]]
                 /\ r = Child(end[1], end[2]) /\ Len(r) = Len(end[1]) + 1
              \/ /\ a # Upstream[r] /\ end[2] = Upstream[end[1]]
                 /\ end[1] = Child(r, a) /\ Len(end[1]) = Len(r) + 1
<1> Kind[r][a] = "lane"
    BY DEF Beyond
<1>1. CASE a = Upstream[r]
  <2>1. end = <<Front(r), Last(r)>>
    BY <1>1, Zenon DEF Beyond
  <2>2. r # <<>> /\ Front(r) \in Routers
    BY <1>1
  <2>3. /\ r \in Seq(Nat) /\ Len(Front(r)) = Len(r) - 1 /\ Last(r) \in Nat
        /\ r = Append(Front(r), Last(r))
    BY <2>2, RouterType, FrontLast
  <2>4. Last(r) # Upstream[Front(r)]
    BY <2>2
  <2>5. QED
    BY <1>1, <2>1, <2>2, <2>3, <2>4 DEF Child
<1>2. CASE a # Upstream[r]
  <2>1. end \in {<<c, Upstream[c]>> : c \in {Child(r, a)} \cap Routers}
    BY <1>2, Zenon DEF Beyond
  <2>2. end = <<Child(r, a), Upstream[Child(r, a)]>> /\ Child(r, a) \in Routers
    BY <2>1
  <2>3. r \in Seq(Nat) /\ a \in Nat
    BY RouterType
  <2>4. Len(Child(r, a)) = Len(r) + 1
    BY <2>3 DEF Child
  <2>5. QED
    BY <1>2, <2>2, <2>4, RouterType
<1>3. QED
    BY <1>1, <1>2

\* Whatever is read is an entry of a tunnel.
LEMMA ValidEntries ==
    ASSUME NEW e \in Valid
    PROVE  e \in Entries /\ e.in # e.out /\ {e.in, e.out} \subseteq Adapters(e.route)
<1>1. PICK T \in Tunnels : e \in PathEntries(T, up[T])
    BY DEF Valid
<1>2. PICK i \in DOMAIN T.paths : e \in Range(T.paths[i])
    BY <1>1 DEF PathEntries
<1>3. PICK j \in DOMAIN T.paths[i] : e = T.paths[i][j]
    BY <1>2 DEF Range
<1>4. T.paths[i] \in Seq(Entries)
    BY ElementOfSeq
<1>5. QED
    BY <1>3, <1>4

-----------------------------------------------------------------------------
(***************************************************************************)
(* The steps before the walks: the kernel and what is read.                *)
(***************************************************************************)
LEMMA InitKeeps == Init => IInv
<1> SUFFICES ASSUME Init PROVE IInv
    OBVIOUS
<1>1. <<>> \in Seq(Nat) /\ <<>> \in Seq(Entries) /\ <<>> \in Seq(Seq(Entries))
      /\ Len(<<>>) = 0
    OBVIOUS
<1>2. walk = [start |-> <<>>, device |-> <<>>, adapter |-> 0, hop |-> 0,
              hops |-> <<>>]
    BY DEF Init, Walk
<1>3. PICK Us \in SUBSET Tunnels :
          /\ up = [T \in Tunnels |-> IF T \in Us THEN Enabled(T) ELSE 0]
          /\ stable = Us
    BY DEF Init
<1>4. \A T \in Tunnels : Enabled(T) \in Nat
  <2>1. ASSUME NEW T \in Tunnels PROVE Len(T.paths) \in Nat
        BY LenProperties
  <2>2. QED
    BY <2>1 DEF Enabled
<1>5. up \in [Tunnels -> Nat] /\ stable \subseteq Tunnels
    BY <1>3, <1>4
<1>6. 1 \in DOMAIN Order
    BY EmptySeq
<1>7. TypeOK
  <2>1. walk \in Walks
    BY <1>1, <1>2 DEF Walks
  <2>2. search \in [kind : TunnelKinds, route : Seq(Nat), in : Nat, ring : Nat,
                    xdomain : Nat, hop : Nat]
    BY <1>1 DEF Init, TunnelKinds
  <2>3. pc \in PCs /\ pos \in DOMAIN Order /\ pos = 1 /\ changes \in Nat
    BY <1>6 DEF Init, PCs
  <2>4. /\ rest = AdaptersOf(Order[1]) /\ enabled = {} /\ seen = {} /\ found = {}
        /\ paths \in Seq(Seq(Entries))
    BY <1>1 DEF Init
  <2>5. QED
    BY <1>5, <2>1, <2>2, <2>3, <2>4 DEF TypeOK
<1>8. Grounded /\ AtXDomain /\ Bounded /\ WalkEnds
    BY <1>1, <1>2 DEF Init, Grounded, AtXDomain, Bounded, WalkEnds
<1>9. QED
    BY <1>7, <1>8 DEF IInv

\* What the invariant says of walks and tunnels is not about the rest.
LEMMA OthersKeep ==
    ASSUME IInv, UNCHANGED <<walk, search, pc>>
    PROVE  AtXDomain' /\ Bounded' /\ WalkEnds'
BY DEF IInv, AtXDomain, Bounded, WalkEnds

LEMMA KernelKeeps == IInv /\ Kernel => IInv'
<1> SUFFICES ASSUME IInv, NEW T \in Tunnels, SetUp(T) \/ TearDown(T) PROVE IInv'
    BY DEF Kernel
<1>1. UNCHANGED <<pc, pos, rest, enabled, seen, walk, search, paths, found>>
    BY DEF SetUp, TearDown, snapshotVars, tunnelVars
<1>2. up \in [Tunnels -> Nat] /\ changes \in Nat /\ stable \subseteq Tunnels
    BY DEF IInv, TypeOK
<1>3. up' \in [Tunnels -> Nat] /\ changes' \in Nat /\ stable' \subseteq Tunnels
  <2>1. CASE SetUp(T)
    BY <2>1, <1>2 DEF SetUp
  <2>2. CASE TearDown(T)
    <3>1. up[T] - 1 \in Nat
        BY <2>2, <1>2 DEF TearDown
    <3>2. QED
        BY <2>2, <3>1, <1>2 DEF TearDown
  <2>3. QED
    BY <2>1, <2>2
<1>4. TypeOK'
    BY <1>1, <1>3 DEF IInv, TypeOK
<1>5. Grounded'
    BY <1>1 DEF IInv, Grounded
<1>6. QED
    BY <1>1, <1>4, <1>5, OthersKeep DEF IInv

LEMMA ReadAdapterKeeps ==
    ASSUME IInv, NEW a \in rest, ReadAdapter(a) PROVE IInv'
<1> DEFINE r == Order[pos]
<1>1. pos \in DOMAIN Order /\ rest \subseteq AdaptersOf(r)
    BY DEF IInv, TypeOK
<1>2. r \in Routers /\ a \in Adapters(r) /\ a \in Nat
    BY <1>1, OrderType DEF AdaptersOf
<1>3. /\ \A s \in enabled' :
             s \in enabled \/ (s = <<r, a>> /\ Kind[r][a] \in Sources)
      /\ rest' \subseteq rest /\ pc = "adapters"
      /\ UNCHANGED <<up, changes, stable, pc, pos, seen, walk, search, paths, found>>
    BY DEF ReadAdapter, kernelVars, tunnelVars
<1>4. TypeOK'
  <2>1. enabled' \subseteq Routers \X Nat
    BY <1>2, <1>3 DEF IInv, TypeOK
  <2>2. QED
    BY <2>1, <1>3 DEF IInv, TypeOK
<1>5. Grounded'
    BY <1>2, <1>3 DEF IInv, Grounded
<1>6. QED
    BY <1>3, <1>4, <1>5, OthersKeep DEF IInv

LEMMA AdaptersReadKeeps == IInv /\ AdaptersRead => IInv'
<1> SUFFICES ASSUME IInv, AdaptersRead PROVE IInv'
    OBVIOUS
<1>1. /\ rest' = AdaptersOf(Order[pos]) /\ pc = "adapters" /\ pc' = "paths"
      /\ UNCHANGED <<up, changes, stable, pos, enabled, seen, walk, search, paths,
                     found>>
    BY DEF AdaptersRead, kernelVars, snapshotVars, tunnelVars
<1>2. TypeOK'
    BY <1>1 DEF IInv, TypeOK, PCs
<1>3. Grounded' /\ AtXDomain' /\ Bounded' /\ WalkEnds'
    BY <1>1 DEF IInv, Grounded, AtXDomain, Bounded, WalkEnds
<1>4. QED
    BY <1>2, <1>3 DEF IInv

LEMMA ReadPathsKeeps ==
    ASSUME IInv, NEW a \in rest, ReadPaths(a) PROVE IInv'
<1>1. /\ \A e \in seen' : e \in seen \/ e \in Valid
      /\ rest' \subseteq rest /\ pc = "paths"
      /\ UNCHANGED <<up, changes, stable, pc, pos, enabled, walk, search, paths,
                     found>>
    BY DEF ReadPaths, kernelVars, tunnelVars
<1>2. TypeOK'
    BY <1>1, ValidEntries DEF IInv, TypeOK
<1>3. Grounded'
    BY <1>1, ValidEntries DEF IInv, Grounded
<1>4. QED
    BY <1>1, <1>2, <1>3, OthersKeep DEF IInv

\* The next device is one, or it begins with the first one again.
LEMMA NextDeviceType ==
    ASSUME IInv, NEW next, NEW end, NextDevice(next, end)
    PROVE  pos' \in DOMAIN Order /\ pc' \in {next, end}
<1>1. Order \in Seq(Seq(Nat)) /\ Len(Order) \in Nat /\ Len(Order) # 0
    BY EmptySeq
<1>2. QED
    BY <1>1 DEF IInv, TypeOK, NextDevice

LEMMA DeviceReadKeeps == IInv /\ DeviceRead => IInv'
<1> SUFFICES ASSUME IInv, DeviceRead PROVE IInv'
    OBVIOUS
<1>1. /\ NextDevice("adapters", "pick") /\ rest' = AdaptersOf(Order[pos'])
      /\ UNCHANGED <<up, changes, stable, enabled, seen, walk, search, paths, found>>
    BY DEF DeviceRead, kernelVars, snapshotVars, tunnelVars
<1>2. pos' \in DOMAIN Order /\ pc' \in {"adapters", "pick"}
    BY <1>1, NextDeviceType
<1>3. TypeOK'
    BY <1>1, <1>2 DEF IInv, TypeOK, PCs
<1>4. Grounded' /\ AtXDomain' /\ Bounded' /\ WalkEnds'
    BY <1>1, <1>2 DEF IInv, Grounded, AtXDomain, Bounded, WalkEnds
<1>5. QED
    BY <1>3, <1>4 DEF IInv

LEMMA ReadFailsKeeps == IInv /\ ReadFails => IInv'
BY DEF IInv, ReadFails, Grounded, AtXDomain, Bounded, WalkEnds, TypeOK, PCs,
       kernelVars, snapshotVars, tunnelVars

-----------------------------------------------------------------------------
(***************************************************************************)
(* The steps of a walk.                                                    *)
(***************************************************************************)
LEMMA LongestWalk ==
    ASSUME NEW n \in Nat, NEW m \in Nat, NEW k \in Nat,
           m <= MaxDepth, k <= MaxDepth, n <= m + k
    PROVE  n <= 2 * MaxDepth + 1 /\ n + 1 <= 2 * MaxDepth + 1
<1>1. MaxDepth \in Nat
    OBVIOUS
<1>2. QED
    BY ONLY <1>1, n \in Nat, m \in Nat, k \in Nat, m <= MaxDepth, k <= MaxDepth,
            n <= m + k

LEMMA FollowKeeps ==
    ASSUME IInv, NEW e \in seen, Follow(e) PROVE IInv'
<1>1. /\ e \in Entries /\ e.in # e.out /\ e.route \in Routers
      /\ e.out \in Adapters(e.route) /\ e.outHop \in Nat
    BY DEF IInv, TypeOK, Grounded, Entries
<1>2. pc = "walk" /\ e.route = walk.device /\ e.in = walk.adapter
    BY DEF Follow, Entry, Key
<1>3. /\ walk \in Walks /\ walk.hops \in Seq(Entries)
      /\ Len(walk.start) \in Nat /\ Len(walk.device) \in Nat
      /\ Len(walk.start) <= MaxDepth /\ Len(walk.device) <= MaxDepth
    BY <1>2, LenProperties DEF IInv, TypeOK, Walks, Bounded
<1>4. /\ Append(walk.hops, e) \in Seq(Entries)
      /\ Len(Append(walk.hops, e)) = Len(walk.hops) + 1
      /\ Len(walk.hops) \in Nat
    BY <1>1, <1>3
<1>5. /\ Len(walk.hops) <= Len(walk.start) + Len(walk.device)
      /\ walk.adapter # Upstream[walk.device] =>
             Len(walk.hops) = Len(walk.start) - Len(walk.device)
    BY <1>2 DEF IInv, Bounded
<1>6. UNCHANGED <<up, changes, stable, pos, rest, enabled, seen, search, paths, found>>
    BY DEF Follow, kernelVars, snapshotVars, tunnelVars
<1>7. Grounded'
    BY <1>6 DEF IInv, Grounded
<1>8. CASE \E end \in Beyond(e.route, e.out) : walk' = Onward(e, end) /\ pc' = pc
  <2>1. PICK end \in Beyond(e.route, e.out) : walk' = Onward(e, end) /\ pc' = pc
    BY <1>8
  <2>2. /\ walk' = [start |-> walk.start, device |-> end[1], adapter |-> end[2],
                    hop |-> e.outHop, hops |-> Append(walk.hops, e)]
    BY <2>1, <1>3 DEF Onward, Walks
  <2>3. /\ end[1] \in Routers /\ end[2] \in Nat
        /\ \/ /\ e.out = Upstream[e.route] /\ end[2] # Upstream[end[1]]
              /\ Len(e.route) = Len(end[1]) + 1
           \/ /\ e.out # Upstream[e.route] /\ end[2] = Upstream[end[1]]
              /\ Len(end[1]) = Len(e.route) + 1
    BY <1>1, LinkEnds
  <2>4. end[1] \in Seq(Nat) /\ Len(end[1]) <= MaxDepth /\ Len(end[1]) \in Nat
    BY <2>3, RouterType, LenProperties
  <2>5. walk' \in Walks
    BY <2>2, <2>3, <2>4, <1>1, <1>3, <1>4 DEF Walks
  <2>6. TypeOK'
    BY <2>1, <2>5, <1>6 DEF IInv, TypeOK
  <2>7. AtXDomain'
    BY <2>1, <1>6 DEF IInv, AtXDomain
  <2>8. /\ Len(walk'.hops) <= Len(walk'.start) + Len(walk'.device)
        /\ walk'.adapter # Upstream[walk'.device] =>
               Len(walk'.hops) = Len(walk'.start) - Len(walk'.device)
    <3> DEFINE n == Len(walk.hops)
               m == Len(walk.start)
               k == Len(walk.device)
               l == Len(end[1])
    <3>1. /\ Len(walk'.hops) = n + 1 /\ Len(walk'.start) = m
          /\ Len(walk'.device) = l
          /\ walk'.adapter = end[2] /\ Upstream[walk'.device] = Upstream[end[1]]
        BY <2>2, <1>4
    <3>2. n \in Nat /\ m \in Nat /\ k \in Nat /\ l \in Nat /\ n <= m + k
        BY <1>3, <1>4, <1>5, <2>4
    <3> HIDE DEF n, m, k, l
    <3>3. CASE e.out = Upstream[e.route]
      <4>1. n = m - k /\ k = l + 1
        BY <3>3, <2>3, <1>1, <1>2, <1>5 DEF n, m, k, l
      <4>2. n + 1 <= m + l /\ n + 1 = m - l
        BY ONLY <4>1, <3>2
      <4>3. QED
        BY ONLY <4>2, <3>1, <3>2
    <3>4. CASE e.out # Upstream[e.route]
      <4>1. l = k + 1 /\ end[2] = Upstream[end[1]]
        BY <3>4, <2>3, <1>2 DEF k, l
      <4>2. n + 1 <= m + l
        BY ONLY <4>1, <3>2
      <4>3. QED
        BY ONLY <4>1, <4>2, <3>1, <3>2
    <3>5. QED
        BY <3>3, <3>4
  <2>9. Len(walk'.start) <= MaxDepth /\ Len(walk'.device) <= MaxDepth
    BY <2>2, <2>4, <1>3
  <2>10. Bounded'
    BY <2>8, <2>9, <1>6 DEF IInv, Bounded
  <2>11. Len(walk'.hops) \in Nat /\ Len(walk'.start) \in Nat /\ Len(walk'.device) \in Nat
    BY <2>2, <2>4, <1>3, <1>4
  <2>12. WalkEnds'
    BY <2>8, <2>9, <2>11, LongestWalk DEF WalkEnds
  <2>13. QED
    BY <2>6, <2>7, <2>10, <2>12, <1>7 DEF IInv
<1>9. CASE walk' = [walk EXCEPT !.hops = Append(@, e)] /\ pc' = "walked"
  <2>1. walk' = [start |-> walk.start, device |-> walk.device,
                 adapter |-> walk.adapter, hop |-> walk.hop,
                 hops |-> Append(walk.hops, e)]
    BY <1>9, <1>3 DEF Walks
  <2>2. walk' \in Walks
    BY <2>1, <1>3, <1>4 DEF Walks
  <2>3. TypeOK'
    BY <2>2, <1>9, <1>6 DEF IInv, TypeOK, PCs
  <2>4. AtXDomain'
    BY <1>2, <1>9, <1>6 DEF IInv, AtXDomain
  <2>5. Bounded'
    BY <2>1, <1>9, <1>3, <1>6 DEF IInv, Bounded
  <2>6. Len(walk'.hops) = Len(walk.hops) + 1
    BY <2>1, <1>4
  <2>7. WalkEnds'
    BY <2>6, <1>3, <1>4, <1>5, LongestWalk DEF WalkEnds
  <2>8. QED
    BY <2>3, <2>4, <2>5, <2>7, <1>7 DEF IInv
<1>10. QED
    BY <1>8, <1>9 DEF Follow

LEMMA NoEntryKeeps == IInv /\ NoEntry => IInv'
<1> SUFFICES ASSUME IInv, NoEntry PROVE IInv'
    OBVIOUS
<1>1. /\ pc = "walk" /\ pc' = "walked"
      /\ UNCHANGED <<up, changes, stable, pos, rest, enabled, seen, walk, search,
                     paths, found>>
    BY DEF NoEntry, kernelVars, snapshotVars, tunnelVars
<1>2. TypeOK'
    BY <1>1 DEF IInv, TypeOK, PCs
<1>3. Grounded' /\ AtXDomain' /\ Bounded' /\ WalkEnds'
    BY <1>1 DEF IInv, Grounded, AtXDomain, Bounded, WalkEnds
<1>4. QED
    BY <1>2, <1>3 DEF IInv

-----------------------------------------------------------------------------
(***************************************************************************)
(* The steps between the walks.                                            *)
(***************************************************************************)
Search == [kind : TunnelKinds, route : Seq(Nat), in : Nat, ring : Nat,
           xdomain : Nat, hop : Nat]

\* A walk starts with no hop, where nothing is left behind yet.
LEMMA StartWalkType ==
    ASSUME NEW r \in Seq(Nat), Len(r) <= MaxDepth, NEW a \in Nat, NEW hop \in Nat,
           StartWalk(r, a, hop)
    PROVE  /\ walk' \in Walks /\ pc' = "walk" /\ walk'.hops = <<>>
           /\ Len(walk'.hops) <= 2 * MaxDepth + 1
           /\ Len(walk'.start) <= MaxDepth /\ Len(walk'.device) <= MaxDepth
           /\ Len(walk'.hops) <= Len(walk'.start) + Len(walk'.device)
           /\ Len(walk'.hops) = Len(walk'.start) - Len(walk'.device)
<1>1. walk' = [start |-> r, device |-> r, adapter |-> a, hop |-> hop,
               hops |-> <<>>] /\ pc' = "walk"
    BY DEF StartWalk, Walk
<1>2. <<>> \in Seq(Entries) /\ Len(<<>>) = 0 /\ Len(r) \in Nat /\ MaxDepth \in Nat
    BY LenProperties
<1>3. walk' \in Walks
    BY <1>1, <1>2 DEF Walks
<1>4. 0 <= Len(r) + Len(r) /\ 0 = Len(r) - Len(r) /\ 0 <= 2 * MaxDepth + 1
    BY ONLY <1>2
<1>5. QED
    BY <1>1, <1>2, <1>3, <1>4

\* What is to be shown of a step between the walks: a walk that starts, or none
\* at all, and the search it is for.
Starts ==
    \E r \in Seq(Nat), a \in Nat, hop \in Nat :
        Len(r) <= MaxDepth /\ StartWalk(r, a, hop)

Stays ==
    /\ UNCHANGED walk /\ pc' \in PCs \ {"walk", "walked"}
    /\ pc' = "xdomain" => search'.xdomain # 0

LEMMA SearchKeeps ==
    ASSUME IInv, Starts \/ Stays,
           search' \in Search, Len(search'.route) <= MaxDepth,
           pc' = "walk" /\ search'.kind = "dma" /\ search'.xdomain # 0 =>
               /\ search'.xdomain \in DOMAIN Order
               /\ Order[search'.xdomain] \in XDomains,
           paths' \in Seq(Seq(Entries)),
           found' \subseteq [kind : TunnelKinds, paths : Seq(Seq(Entries))],
           pos' \in DOMAIN Order, rest' \subseteq AdaptersOf(Order[pos']),
           UNCHANGED <<up, changes, stable, enabled, seen>>
    PROVE  IInv'
<1>1. CASE Starts
  <2>1. PICK r \in Seq(Nat), a \in Nat, hop \in Nat :
            Len(r) <= MaxDepth /\ StartWalk(r, a, hop)
    BY <1>1 DEF Starts
  <2>2. /\ walk' \in Walks /\ pc' = "walk" /\ Len(walk'.hops) <= 2 * MaxDepth + 1
        /\ Len(walk'.start) <= MaxDepth /\ Len(walk'.device) <= MaxDepth
        /\ Len(walk'.hops) <= Len(walk'.start) + Len(walk'.device)
        /\ Len(walk'.hops) = Len(walk'.start) - Len(walk'.device)
    BY <2>1, StartWalkType
  <2>3. TypeOK'
    BY <2>2 DEF IInv, TypeOK, Search, PCs
  <2>4. Bounded' /\ WalkEnds'
    BY <2>2 DEF Bounded, WalkEnds
  <2>5. Grounded' /\ AtXDomain'
    BY <2>2 DEF IInv, Grounded, AtXDomain
  <2>6. QED
    BY <2>3, <2>4, <2>5 DEF IInv
<1>2. CASE Stays
  <2>1. TypeOK'
    BY <1>2 DEF Stays, IInv, TypeOK, Search
  <2>2. Grounded' /\ AtXDomain' /\ Bounded' /\ WalkEnds'
    BY <1>2 DEF Stays, IInv, Grounded, AtXDomain, Bounded, WalkEnds
  <2>3. QED
    BY <2>1, <2>2 DEF IInv
<1>3. QED
    BY <1>1, <1>2

LEMMA PickKeeps ==
    ASSUME IInv, NEW a \in rest, Pick(a) PROVE IInv'
<1> DEFINE r == Order[pos]
<1>1. /\ pos \in DOMAIN Order /\ a \in AdaptersOf(r) /\ search \in Search
      /\ rest \subseteq AdaptersOf(Order[pos]) /\ Len(search.route) <= MaxDepth
      /\ paths \in Seq(Seq(Entries))
      /\ found \subseteq [kind : TunnelKinds, paths : Seq(Seq(Entries))]
    BY DEF IInv, TypeOK, Search, Bounded
<1>2. /\ r \in Routers /\ a \in Adapters(r) /\ a \in Nat
      /\ r \in Seq(Nat) /\ Len(r) <= MaxDepth
    BY <1>1, OrderType DEF AdaptersOf
<1>3. /\ pc = "pick" /\ rest' \subseteq rest
      /\ UNCHANGED <<up, changes, stable, pos, enabled, seen, found>>
    BY DEF Pick, kernelVars, snapshotVars
<1>4. CASE <<r, a>> \in enabled
  <2> DEFINE kind == TunnelKind[Kind[r][a]]
  <2>1. Kind[r][a] \in Sources
    BY <1>4 DEF IInv, Grounded
  <2>2. kind \in TunnelKinds /\ FirstHop[kind] \in Nat
    <3>1. kind \in TunnelKinds
        BY <2>1 DEF Sources, TunnelKind, TunnelKinds
    <3>2. \A k \in TunnelKinds : FirstHop[k] \in Nat
        BY DEF TunnelKinds, FirstHop
    <3>3. QED
        BY <3>1, <3>2
  <2>3. /\ search' = [kind |-> kind, route |-> r, in |-> a, ring |-> 1,
                      xdomain |-> 0, hop |-> 0]
        /\ StartWalk(r, a, FirstHop[kind]) /\ paths' = <<>>
    BY <1>4 DEF Pick
  <2> HIDE DEF kind
  <2>4. /\ search' \in Search /\ Len(search'.route) <= MaxDepth
        /\ search'.xdomain = 0
    BY <2>2, <2>3, <1>2 DEF Search
  <2>5. Starts
    BY <2>2, <2>3, <1>2 DEF Starts
  <2>6. paths' \in Seq(Seq(Entries))
    BY <2>3
  <2>7. QED
    BY <2>4, <2>5, <2>6, <1>1, <1>3, SearchKeeps
<1>5. CASE <<r, a>> \notin enabled
  <2>1. UNCHANGED <<pc, walk, search, paths>>
    BY <1>5 DEF Pick
  <2>2. Stays
    BY <2>1, <1>3 DEF Stays, PCs
  <2>3. QED
    BY <2>1, <2>2, <1>1, <1>3, SearchKeeps
<1>6. QED
    BY <1>4, <1>5

LEMMA DevicePickedKeeps == IInv /\ DevicePicked => IInv'
<1> SUFFICES ASSUME IInv, DevicePicked PROVE IInv'
    OBVIOUS
<1>1. /\ NextDevice("pick", "done")
      /\ rest' = IF pc' = "done" THEN {} ELSE AdaptersOf(Order[pos'])
      /\ UNCHANGED <<up, changes, stable, enabled, seen, walk, search, paths, found>>
    BY DEF DevicePicked, kernelVars, snapshotVars, tunnelVars
<1>2. pos' \in DOMAIN Order /\ pc' \in {"pick", "done"}
    BY <1>1, NextDeviceType
<1>3. Stays
    BY <1>1, <1>2 DEF Stays, PCs
<1>4. /\ search' \in Search /\ Len(search'.route) <= MaxDepth
      /\ paths' \in Seq(Seq(Entries))
      /\ found' \subseteq [kind : TunnelKinds, paths : Seq(Seq(Entries))]
    BY <1>1 DEF IInv, TypeOK, Search, Bounded
<1>5. QED
    BY <1>1, <1>2, <1>3, <1>4, SearchKeeps

\* What the invariant says where a walk has been taken.
LEMMA WhatIsKnown ==
    ASSUME IInv
    PROVE  /\ search \in Search /\ Len(search.route) <= MaxDepth
           /\ walk.hops \in Seq(Entries)
           /\ walk.start \in Seq(Nat) /\ Len(walk.start) <= MaxDepth
           /\ paths \in Seq(Seq(Entries))
           /\ found \subseteq [kind : TunnelKinds, paths : Seq(Seq(Entries))]
           /\ pos \in DOMAIN Order /\ rest \subseteq AdaptersOf(Order[pos])
           /\ MaxRing \in Nat /\ MaxHop \in Nat
BY DEF IInv, TypeOK, Search, Bounded, Walks

LEMMA SearchParts ==
    ASSUME search \in Search
    PROVE  /\ search.route \in Seq(Nat) /\ search.in \in Nat /\ search.ring \in Nat
           /\ search.xdomain \in Nat /\ search.hop \in Nat
           /\ search.ring + 1 \in Nat /\ search.hop + 1 \in Nat
           /\ search.xdomain + 1 \in Nat /\ search.xdomain + 1 # 0
BY DEF Search

LEMMA SearchChanges ==
    ASSUME search \in Search, NEW n \in Nat
    PROVE  /\ [search EXCEPT !.hop = n] \in Search
           /\ [search EXCEPT !.hop = n].route = search.route
           /\ [search EXCEPT !.hop = n].xdomain = search.xdomain
           /\ [search EXCEPT !.xdomain = n] \in Search
           /\ [search EXCEPT !.xdomain = n].route = search.route
           /\ [search EXCEPT !.xdomain = n].xdomain = n
           /\ [search EXCEPT !.ring = n, !.xdomain = 0] \in Search
           /\ [search EXCEPT !.ring = n, !.xdomain = 0].route = search.route
           /\ [search EXCEPT !.ring = n, !.xdomain = 0].xdomain = 0
BY ONLY search \in Search, n \in Nat DEF Search

LEMMA TunnelType ==
    ASSUME search \in Search, NEW ps \in Seq(Seq(Entries)),
           found \subseteq [kind : TunnelKinds, paths : Seq(Seq(Entries))]
    PROVE  found \union {Tunnel(ps)} \subseteq
               [kind : TunnelKinds, paths : Seq(Seq(Entries))]
BY DEF Search, Tunnel

LEMMA TakePathKeeps == IInv /\ TakePath => IInv'
<1> SUFFICES ASSUME IInv, TakePath PROVE IInv'
    OBVIOUS
<1> DEFINE ps   == Append(paths, walk.hops)
           last == Last(walk.hops)
<1>1. /\ search \in Search /\ Len(search.route) <= MaxDepth
      /\ walk.hops \in Seq(Entries) /\ paths \in Seq(Seq(Entries))
      /\ found \subseteq [kind : TunnelKinds, paths : Seq(Seq(Entries))]
      /\ pos \in DOMAIN Order /\ rest \subseteq AdaptersOf(Order[pos])
    BY WhatIsKnown
<1>2. ps \in Seq(Seq(Entries))
    BY <1>1
<1>3. /\ search.kind # "dma"
      /\ UNCHANGED <<up, changes, stable, pos, rest, enabled, seen, search>>
    BY DEF TakePath, kernelVars, snapshotVars
<1>4. CASE walk.hops = <<>> /\ pc' = "pick" /\ UNCHANGED <<walk, paths, found>>
  <2>1. Stays
    BY <1>4 DEF Stays, PCs
  <2>2. QED
    BY <2>1, <1>1, <1>3, <1>4, SearchKeeps
<1>5. CASE /\ walk.hops # <<>> /\ found' = found \union {Tunnel(ps)} /\ pc' = "pick"
           /\ UNCHANGED <<walk, paths>>
  <2>1. Stays
    BY <1>5 DEF Stays, PCs
  <2>2. found' \subseteq [kind : TunnelKinds, paths : Seq(Seq(Entries))]
    BY <1>1, <1>2, <1>5, TunnelType
  <2>3. QED
    BY <2>1, <2>2, <1>1, <1>3, <1>5, SearchKeeps
<1>6. CASE /\ walk.hops # <<>> /\ paths' = ps /\ UNCHANGED found
           /\ StartWalk(last.route, last.out, 8) \/ StartWalk(search.route, search.in, 8)
  <2>1. last \in Entries
    BY <1>1, <1>6, FrontLast
  <2>2. last.route \in Seq(Nat) /\ Len(last.route) <= MaxDepth /\ last.out \in Nat
    BY <2>1, RouterType DEF Entries
  <2>3. Starts
    BY <2>2, <1>1, <1>6 DEF Starts, Search
  <2>4. QED
    BY <2>3, <1>1, <1>2, <1>3, <1>6, SearchKeeps
<1>7. QED
    BY <1>4, <1>5, <1>6 DEF TakePath

LEMMA TakeTxKeeps == IInv /\ TakeTx => IInv'
<1> SUFFICES ASSUME IInv, TakeTx PROVE IInv'
    OBVIOUS
<1>1. /\ search \in Search /\ Len(search.route) <= MaxDepth
      /\ walk.hops \in Seq(Entries)
      /\ found \subseteq [kind : TunnelKinds, paths : Seq(Seq(Entries))]
      /\ pos \in DOMAIN Order /\ rest \subseteq AdaptersOf(Order[pos])
    BY WhatIsKnown
<1>2. /\ paths' = (IF walk.hops = <<>> THEN <<>> ELSE <<walk.hops>>)
      /\ search' = [search EXCEPT !.xdomain = 1] /\ pc' = "xdomain"
      /\ UNCHANGED <<up, changes, stable, pos, rest, enabled, seen, walk, found>>
    BY DEF TakeTx, kernelVars, snapshotVars
<1>3. /\ search' \in Search /\ search'.route = search.route
      /\ search'.xdomain # 0
  <2>1. /\ [search EXCEPT !.xdomain = 1] \in Search
        /\ [search EXCEPT !.xdomain = 1].route = search.route
        /\ [search EXCEPT !.xdomain = 1].xdomain = 1
    BY ONLY <1>1 DEF Search
  <2>2. QED
    BY <1>2, <2>1
<1>4. paths' \in Seq(Seq(Entries))
    BY <1>1, <1>2
<1>5. Stays
    BY <1>2 DEF Stays, PCs
<1>6. QED
    BY <1>1, <1>2, <1>3, <1>4, <1>5, SearchKeeps

\* discover_one_dma() is over: the walk of the next ring, or none.
LEMMA RingDoneKeeps ==
    ASSUME IInv, NEW ps \in Seq(Seq(Entries)), RingDone(ps),
           UNCHANGED <<up, changes, stable, pos, rest, enabled, seen>>
    PROVE  IInv'
<1>1. /\ search \in Search /\ Len(search.route) <= MaxDepth
      /\ found \subseteq [kind : TunnelKinds, paths : Seq(Seq(Entries))]
      /\ pos \in DOMAIN Order /\ rest \subseteq AdaptersOf(Order[pos])
    BY WhatIsKnown
<1>2. /\ found' = (IF ps = <<>> THEN found ELSE found \union {Tunnel(ps)})
      /\ paths' = <<>>
    BY Zenon DEF RingDone
<1>3. /\ found' \subseteq [kind : TunnelKinds, paths : Seq(Seq(Entries))]
      /\ paths' \in Seq(Seq(Entries))
  <2>1. found \union {Tunnel(ps)} \subseteq
            [kind : TunnelKinds, paths : Seq(Seq(Entries))]
    BY <1>1, TunnelType
  <2>2. QED
    BY <2>1, <1>1, <1>2
<1>4. CASE /\ search' = [search EXCEPT !.ring = @ + 1, !.xdomain = 0]
           /\ StartWalk(search.route, search.in, search.ring + 1)
  <2>1. /\ search' \in Search /\ search'.route = search.route
        /\ search'.xdomain = 0
    BY <1>1, <1>4, SearchParts, SearchChanges
  <2>2. Starts
    BY <1>1, <1>4, SearchParts DEF Starts
  <2>3. QED
    BY <2>1, <2>2, <1>1, <1>2, <1>3, SearchKeeps
<1>5. CASE pc' = "pick" /\ UNCHANGED <<walk, search>>
  <2>1. Stays
    BY <1>5 DEF Stays, PCs
  <2>2. QED
    BY <2>1, <1>1, <1>2, <1>3, <1>5, SearchKeeps
<1>6. QED
    BY <1>4, <1>5 DEF RingDone

LEMMA NextXDomainKeeps == IInv /\ NextXDomain => IInv'
<1> SUFFICES ASSUME IInv, NextXDomain PROVE IInv'
    OBVIOUS
<1> DEFINE d == Order[search.xdomain]
<1>1. /\ search \in Search /\ Len(search.route) <= MaxDepth
      /\ paths \in Seq(Seq(Entries))
      /\ found \subseteq [kind : TunnelKinds, paths : Seq(Seq(Entries))]
      /\ pos \in DOMAIN Order /\ rest \subseteq AdaptersOf(Order[pos])
    BY WhatIsKnown
<1>2. /\ pc = "xdomain"
      /\ UNCHANGED <<up, changes, stable, pos, rest, enabled, seen>>
    BY DEF NextXDomain, kernelVars, snapshotVars
<1>3. CASE RingDone(paths)
    BY <1>1, <1>2, <1>3, RingDoneKeeps
<1>4. CASE /\ search.xdomain <= Len(Order) /\ UNCHANGED <<paths, found>>
           /\ d \in XDomains /\ Front(d) \in Routers
           /\ search' = [search EXCEPT !.hop = 8]
           /\ StartWalk(Front(d), Last(d), 8)
  <2>1. /\ search' \in Search /\ search'.route = search.route
        /\ search'.xdomain = search.xdomain
    BY <1>1, <1>4, SearchChanges
  <2>2. Order \in Seq(Seq(Nat)) /\ search.xdomain \in Nat /\ search.xdomain # 0
    BY <1>1, <1>2 DEF IInv, AtXDomain, Search
  <2>3. search.xdomain \in DOMAIN Order
    BY <2>2, <1>4, LenProperties
  <2>4. Front(d) \in Seq(Nat) /\ Len(Front(d)) <= MaxDepth
    BY <1>4, RouterType
  <2>5. Last(d) \in Nat
    BY <2>3, <1>4, OrderType, FrontLast
  <2>6. Starts
    BY <2>4, <2>5, <1>4 DEF Starts
  <2>7. QED
    BY <2>1, <2>3, <2>6, <1>1, <1>2, <1>4, SearchKeeps
<1>5. CASE /\ search' = [search EXCEPT !.xdomain = @ + 1]
           /\ UNCHANGED <<pc, walk, paths, found>>
  <2>1. /\ search' \in Search /\ search'.route = search.route
        /\ search'.xdomain # 0
    <3>1. search.xdomain + 1 \in Nat /\ search.xdomain + 1 # 0
        BY <1>1, SearchParts
    <3> DEFINE n == search.xdomain + 1
    <3> HIDE DEF n
    <3>2. n \in Nat /\ n # 0 /\ search' = [search EXCEPT !.xdomain = n]
        BY <1>5, <3>1 DEF n
    <3>3. QED
        BY <1>1, <3>2, SearchChanges
  <2>2. Stays
    BY <1>2, <1>5, <2>1 DEF Stays, PCs
  <2>3. QED
    BY <2>1, <2>2, <1>1, <1>2, <1>5, SearchKeeps
<1>6. QED
    BY <1>3, <1>4, <1>5 DEF NextXDomain

LEMMA TakeRxKeeps == IInv /\ TakeRx => IInv'
<1> SUFFICES ASSUME IInv, TakeRx PROVE IInv'
    OBVIOUS
<1> DEFINE d == Order[search.xdomain]
<1>1. /\ search \in Search /\ Len(search.route) <= MaxDepth
      /\ walk.hops \in Seq(Entries) /\ paths \in Seq(Seq(Entries))
      /\ walk.start \in Seq(Nat) /\ Len(walk.start) <= MaxDepth
      /\ found \subseteq [kind : TunnelKinds, paths : Seq(Seq(Entries))]
      /\ pos \in DOMAIN Order /\ rest \subseteq AdaptersOf(Order[pos])
    BY WhatIsKnown
<1>2. /\ pc = "walked" /\ search.kind = "dma" /\ search.xdomain # 0
      /\ UNCHANGED <<up, changes, stable, pos, rest, enabled, seen>>
    BY DEF TakeRx, IsTx, kernelVars, snapshotVars
<1>3. search.xdomain \in DOMAIN Order /\ d \in XDomains
    BY <1>2 DEF IInv, AtXDomain
<1>4. CASE RingDone(Append(paths, walk.hops))
  <2>1. Append(paths, walk.hops) \in Seq(Seq(Entries))
    BY <1>1
  <2>2. QED
    BY <2>1, <1>2, <1>4, RingDoneKeeps
<1>5. CASE /\ search' = [search EXCEPT !.hop = @ + 1]
           /\ StartWalk(walk.start, Last(d), search.hop + 1)
           /\ UNCHANGED <<paths, found>>
  <2>1. search.hop + 1 \in Nat
    BY <1>1, SearchParts
  <2>2. /\ search' \in Search /\ search'.route = search.route
        /\ search'.xdomain = search.xdomain
    <3> DEFINE n == search.hop + 1
    <3> HIDE DEF n
    <3>1. n \in Nat /\ search' = [search EXCEPT !.hop = n]
        BY <1>5, <2>1 DEF n
    <3>2. QED
        BY <1>1, <3>1, SearchChanges
  <2>3. Last(d) \in Nat
    BY <1>3, OrderType, FrontLast
  <2>4. Starts
    BY <2>1, <2>3, <1>1, <1>5 DEF Starts
  <2>5. QED
    BY <2>2, <2>4, <1>1, <1>2, <1>3, <1>5, SearchKeeps
<1>6. CASE /\ search' = [search EXCEPT !.xdomain = @ + 1] /\ pc' = "xdomain"
           /\ UNCHANGED <<walk, paths, found>>
  <2>1. /\ search' \in Search /\ search'.route = search.route
        /\ search'.xdomain # 0
    <3>1. search.xdomain + 1 \in Nat /\ search.xdomain + 1 # 0
        BY <1>1, SearchParts
    <3> DEFINE n == search.xdomain + 1
    <3> HIDE DEF n
    <3>2. n \in Nat /\ n # 0 /\ search' = [search EXCEPT !.xdomain = n]
        BY <1>6, <3>1 DEF n
    <3>3. QED
        BY <1>1, <3>2, SearchChanges
  <2>2. Stays
    BY <2>1, <1>6 DEF Stays, PCs
  <2>3. QED
    BY <2>1, <2>2, <1>1, <1>2, <1>6, SearchKeeps
<1>7. QED
    BY <1>4, <1>5, <1>6 DEF TakeRx

LEMMA StepKeeps == IInv /\ [Next]_vars => IInv'
<1> SUFFICES ASSUME IInv, [Next]_vars PROVE IInv'
    OBVIOUS
<1>1. CASE Kernel
    BY <1>1, KernelKeeps
<1>2. CASE Read
    BY <1>2, ReadAdapterKeeps, AdaptersReadKeeps, ReadPathsKeeps, DeviceReadKeeps,
       ReadFailsKeeps DEF Read
<1>3. CASE DiscoverPath
    BY <1>3, FollowKeeps, NoEntryKeeps DEF DiscoverPath
<1>4. CASE Discover
    BY <1>4, PickKeeps, DevicePickedKeeps, TakePathKeeps, TakeTxKeeps,
       NextXDomainKeeps, TakeRxKeeps DEF Discover
<1>5. CASE UNCHANGED vars
    BY <1>5 DEF vars, kernelVars, snapshotVars, tunnelVars, IInv, TypeOK, Grounded,
                AtXDomain, Bounded, WalkEnds
<1>6. QED
    BY <1>1, <1>2, <1>3, <1>4, <1>5 DEF Next

LEMMA Invariance == Spec => []IInv
BY InitKeeps, StepKeeps, PTL DEF Spec

\* Every reachable state of a run of tbtunnels has its type, for any topology,
\* any tunnels and whatever the kernel does.
THEOREM TypeCorrect == Spec => []TypeOK
<1>1. IInv => TypeOK
    BY DEF IInv
<1>2. QED
    BY <1>1, Invariance, PTL

\* discover_path() never has more hops than twice the depth of the tree and one,
\* whatever mix of old and new path entries it follows.
THEOREM WalksEnd == Spec => []WalkEnds
<1>1. IInv => WalkEnds
    BY DEF IInv
<1>2. QED
    BY <1>1, Invariance, PTL

-----------------------------------------------------------------------------
(***************************************************************************)
(* The hops of a path are connected.                                       *)
(***************************************************************************)
AllPaths(ps) == \A i \in DOMAIN ps : IsPath(ps[i])

LEMMA NoHops == IsPath(<<>>) /\ AllPaths(<<>>)
BY DEF IsPath, AllPaths

LEMMA AppendPath ==
    ASSUME NEW ps \in Seq(Seq(Entries)), AllPaths(ps),
           NEW hops \in Seq(Entries), IsPath(hops)
    PROVE  AllPaths(Append(ps, hops))
<1>1. /\ DOMAIN Append(ps, hops) = 1..(Len(ps) + 1) /\ DOMAIN ps = 1..Len(ps)
      /\ Len(ps) \in Nat
      /\ Append(ps, hops)[Len(ps) + 1] = hops
      /\ \A i \in 1..Len(ps) : Append(ps, hops)[i] = ps[i]
    BY AppendProperties
<1>2. \A i \in 1..Len(ps) : IsPath(ps[i])
    BY <1>1 DEF AllPaths
<1>3. ASSUME NEW i \in 1..(Len(ps) + 1) PROVE IsPath(Append(ps, hops)[i])
  <2>1. CASE i = Len(ps) + 1
    BY <2>1, <1>1
  <2>2. CASE i \in 1..Len(ps)
    BY <2>2, <1>1, <1>2
  <2>3. i = Len(ps) + 1 \/ i \in 1..Len(ps)
    <3> DEFINE n == Len(ps)
    <3>1. n \in Nat /\ i \in 1..(n + 1)
        BY <1>1
    <3> HIDE DEF n
    <3>2. i = n + 1 \/ i \in 1..n
        BY ONLY <3>1
    <3>3. QED
        BY <3>2 DEF n
  <2>4. QED
    BY <2>1, <2>2, <2>3
<1>4. QED
    BY <1>1, <1>3 DEF AllPaths

\* Between the walks the last one stays as it is, or there is none.
LEMMA TakenConnects ==
    ASSUME ConnectInv,
           walk'.hops = <<>> \/ (UNCHANGED walk /\ (pc' = "walk" => pc = "walk")),
           AllPaths(paths'), \A t \in found' : AllPaths(t.paths)
    PROVE  ConnectInv'
<1>1. CASE walk'.hops = <<>>
    BY <1>1, NoHops DEF ConnectInv, AllPaths
<1>2. CASE UNCHANGED walk /\ (pc' = "walk" => pc = "walk")
    BY <1>2 DEF ConnectInv, AllPaths
<1>3. QED
    BY <1>1, <1>2

LEMMA FollowConnects ==
    ASSUME IInv, ConnectInv, NEW e \in seen, Follow(e) PROVE ConnectInv'
<1>1. /\ e \in Entries /\ e.route \in Routers /\ e.out \in Adapters(e.route)
      /\ pc = "walk" /\ walk \in Walks /\ walk.hops \in Seq(Entries)
      /\ <<e.route, e.in, e.inHop>> = <<walk.device, walk.adapter, walk.hop>>
    BY DEF IInv, TypeOK, Grounded, Entries, Walks, Follow, Entry, Key
<1> DEFINE hops == Append(walk.hops, e)
           n == Len(walk.hops)
<1>2. /\ n \in Nat /\ Len(hops) = n + 1 /\ hops[n + 1] = e
      /\ \A j \in 1..n : hops[j] = walk.hops[j]
    BY <1>1, AppendProperties
<1>3. Last(hops) = e
    BY <1>2 DEF Last
<1>4. IsPath(hops)
  <2>0. Len(hops) - 1 = n
    BY <1>2
  <2> SUFFICES ASSUME NEW j \in 1..n
               PROVE  LeadsTo(hops[j], hops[j + 1].route, hops[j + 1].in,
                              hops[j + 1].inHop)
    BY <2>0, Zenon DEF IsPath
  <2>1. CASE j < n
    <3>1. j \in 1..(n - 1) /\ j + 1 \in 1..n
        BY <1>2, <2>1
    <3>2. LeadsTo(walk.hops[j], walk.hops[j + 1].route, walk.hops[j + 1].in,
                  walk.hops[j + 1].inHop)
        BY <3>1 DEF ConnectInv, IsPath
    <3>3. QED
        BY <3>1, <3>2, <1>2
  <2>2. CASE j = n
    <3>1. n \in 1..n /\ walk.hops # <<>>
        BY <2>2, <1>2
    <3>2. LeadsTo(Last(walk.hops), e.route, e.in, e.inHop)
        BY <3>1, <1>1 DEF ConnectInv
    <3>3. Last(walk.hops) = hops[n]
        BY <3>1, <1>2 DEF Last
    <3>4. QED
        BY <3>2, <3>3, <2>2, <1>2
  <2>3. j < n \/ j = n
    BY <1>2
  <2>4. QED
    BY <2>1, <2>2, <2>3
<1>5. AllPaths(paths') /\ \A t \in found' : AllPaths(t.paths)
    BY DEF Follow, tunnelVars, ConnectInv, AllPaths
<1>6. CASE \E end \in Beyond(e.route, e.out) : walk' = Onward(e, end)
  <2>1. PICK end \in Beyond(e.route, e.out) : walk' = Onward(e, end)
    BY <1>6
  <2>2. /\ walk'.hops = hops /\ walk'.device = end[1] /\ walk'.adapter = end[2]
        /\ walk'.hop = e.outHop
    BY <2>1, <1>1 DEF Onward, Walks
  <2>3. \/ e.out = Upstream[e.route] /\ e.route = Child(end[1], end[2])
        \/ end[2] = Upstream[end[1]] /\ end[1] = Child(e.route, e.out)
    BY <1>1, LinkEnds
  <2>4. LeadsTo(e, end[1], end[2], e.outHop)
    BY <2>3 DEF LeadsTo
  <2>5. QED
    BY <2>2, <2>4, <1>3, <1>4, <1>5 DEF ConnectInv, AllPaths
<1>7. CASE walk' = [walk EXCEPT !.hops = Append(@, e)] /\ pc' = "walked"
  <2>1. walk'.hops = hops
    BY <1>7, <1>1 DEF Walks
  <2>2. QED
    BY <2>1, <1>4, <1>5, <1>7 DEF ConnectInv, AllPaths
<1>8. QED
    BY <1>6, <1>7 DEF Follow

LEMMA TakePathConnects ==
    ASSUME IInv, ConnectInv, TakePath PROVE ConnectInv'
<1> DEFINE ps == Append(paths, walk.hops)
<1>1. AllPaths(paths) /\ AllPaths(ps) /\ \A t \in found : AllPaths(t.paths)
  <2>1. /\ walk.hops \in Seq(Entries) /\ paths \in Seq(Seq(Entries))
    BY WhatIsKnown
  <2>2. IsPath(walk.hops) /\ AllPaths(paths) /\ \A t \in found : AllPaths(t.paths)
    BY DEF ConnectInv, AllPaths
  <2>3. QED
    BY <2>1, <2>2, AppendPath
<1>2. CASE pc' = "pick" /\ UNCHANGED <<walk, paths, found>>
    BY <1>1, <1>2, TakenConnects
<1>3. CASE found' = found \union {Tunnel(ps)} /\ pc' = "pick" /\ UNCHANGED <<walk, paths>>
  <2>1. Tunnel(ps).paths = ps
    BY DEF Tunnel
  <2>2. \A t \in found' : AllPaths(t.paths)
    BY <2>1, <1>1, <1>3
  <2>3. QED
    BY <2>2, <1>1, <1>3, TakenConnects
<1>4. CASE paths' = ps /\ UNCHANGED found /\ walk'.hops = <<>>
    BY <1>1, <1>4, TakenConnects
<1>5. QED
    BY <1>2, <1>3, <1>4 DEF TakePath, StartWalk, Walk

LEMMA RingDoneConnects ==
    ASSUME ConnectInv, NEW ps, AllPaths(ps), RingDone(ps) PROVE ConnectInv'
<1>1. /\ found' = (IF ps = <<>> THEN found ELSE found \union {Tunnel(ps)})
      /\ paths' = <<>>
    BY Zenon DEF RingDone
<1>2. Tunnel(ps).paths = ps
    BY DEF Tunnel
<1>3. \A t \in found' : AllPaths(t.paths)
    BY <1>1, <1>2 DEF ConnectInv, AllPaths
<1>4. walk'.hops = <<>> \/ (UNCHANGED walk /\ pc' = "pick")
    BY DEF RingDone, StartWalk, Walk
<1>5. QED
    BY <1>1, <1>3, <1>4, NoHops, TakenConnects

LEMMA DmaConnects ==
    ASSUME IInv, ConnectInv, TakeTx \/ NextXDomain \/ TakeRx PROVE ConnectInv'
<1>1. /\ walk.hops \in Seq(Entries) /\ paths \in Seq(Seq(Entries))
      /\ IsPath(walk.hops) /\ AllPaths(paths)
      /\ \A t \in found : AllPaths(t.paths)
    BY WhatIsKnown DEF ConnectInv, AllPaths
<1>2. CASE TakeTx
  <2>1. AllPaths(<<walk.hops>>)
    BY <1>1 DEF AllPaths
  <2>2. AllPaths(paths') /\ UNCHANGED <<walk, found>> /\ pc' = "xdomain"
    BY <1>2, <2>1, NoHops DEF TakeTx
  <2>3. QED
    BY <2>2, <1>1, TakenConnects
<1>3. CASE NextXDomain
  <2>1. CASE RingDone(paths)
    BY <2>1, <1>1, RingDoneConnects
  <2>2. CASE /\ UNCHANGED <<paths, found>>
             /\ walk'.hops = <<>> \/ UNCHANGED <<pc, walk>>
    BY <2>2, <1>1, TakenConnects
  <2>3. QED
    BY <2>1, <2>2, <1>3 DEF NextXDomain, StartWalk, Walk
<1>4. CASE TakeRx
  <2>1. CASE RingDone(Append(paths, walk.hops))
    BY <2>1, <1>1, AppendPath, RingDoneConnects
  <2>2. CASE /\ UNCHANGED <<paths, found>>
             /\ walk'.hops = <<>> \/ (UNCHANGED walk /\ pc' = "xdomain")
    BY <2>2, <1>1, TakenConnects
  <2>3. QED
    BY <2>1, <2>2, <1>4 DEF TakeRx, StartWalk, Walk
<1>5. QED
    BY <1>2, <1>3, <1>4

LEMMA OtherConnects ==
    ASSUME ConnectInv, UNCHANGED <<walk, paths, found>>, pc' = "walk" => pc = "walk"
    PROVE  ConnectInv'
BY DEF ConnectInv

LEMMA PickConnects ==
    ASSUME ConnectInv, NEW a \in rest, Pick(a) PROVE ConnectInv'
<1>1. \/ walk'.hops = <<>> /\ paths' = <<>>
      \/ UNCHANGED <<pc, walk, paths>>
    BY DEF Pick, StartWalk, Walk
<1>2. AllPaths(paths) /\ \A t \in found : AllPaths(t.paths)
    BY DEF ConnectInv, AllPaths
<1>3. UNCHANGED found
    BY DEF Pick
<1>4. QED
    BY <1>1, <1>2, <1>3, NoHops, TakenConnects

LEMMA StepConnects == IInv /\ ConnectInv /\ [Next]_vars => ConnectInv'
<1> SUFFICES ASSUME IInv, ConnectInv, [Next]_vars PROVE ConnectInv'
    OBVIOUS
<1>1. CASE Kernel
    BY <1>1, OtherConnects DEF Kernel, SetUp, TearDown, tunnelVars
<1>2. CASE Read
  <2>1. UNCHANGED <<walk, paths, found>> /\ pc' # "walk"
    BY <1>2 DEF Read, ReadAdapter, AdaptersRead, ReadPaths, DeviceRead, NextDevice,
                ReadFails, tunnelVars
  <2>2. QED
    BY <2>1, OtherConnects
<1>3. CASE DiscoverPath
  <2>1. ASSUME NoEntry PROVE ConnectInv'
    BY <2>1, OtherConnects DEF NoEntry, tunnelVars
  <2>2. QED
    BY <1>3, <2>1, FollowConnects DEF DiscoverPath
<1>4. CASE Discover
  <2>1. ASSUME DevicePicked PROVE ConnectInv'
    BY <2>1, OtherConnects DEF DevicePicked, NextDevice, tunnelVars
  <2>2. QED
    BY <1>4, <2>1, PickConnects, TakePathConnects, DmaConnects DEF Discover
<1>5. CASE UNCHANGED vars
    BY <1>5, OtherConnects DEF vars, tunnelVars
<1>6. QED
    BY <1>1, <1>2, <1>3, <1>4, <1>5 DEF Next

\* The hops of each path that is discovered are connected by links, whatever
\* mix of old and new path entries has been read.
THEOREM PathsConnected == Spec => []PathsAreConnected
<1>1. Init => ConnectInv
    BY NoHops DEF Init, Walk, ConnectInv
<1>2. ConnectInv => PathsAreConnected
    BY DEF ConnectInv, PathsAreConnected, IsPath, LeadsTo
<1>3. QED
    BY <1>1, <1>2, StepConnects, Invariance, PTL DEF Spec

-----------------------------------------------------------------------------
\* A tunnel that is up all the time is found with the entries of its paths and
\* no other, whatever the kernel does to other tunnels while tbtunnels reads,
\* and nothing else is found when it does nothing: Tunnel::discover() over any
\* topology, for any tunnels as the discovery takes them to be.
THEOREM StableTunnelsFound == Spec => []StableFound
<1>1. Init => IInv /\ StableInv
    BY InitKeeps, InitStable
<1>2. IInv /\ StableInv /\ [Next]_vars => IInv' /\ StableInv'
    BY StepKeeps, StableKeeps
<1>3. IInv /\ StableInv => StableFound
    BY StableWhenDone
<1>4. QED
    BY <1>1, <1>2, <1>3, PTL DEF Spec
=============================================================================
