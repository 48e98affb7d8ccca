---------------------------- MODULE Tracing_proofs ----------------------------
(***************************************************************************)
(* Proofs about Tracing, for any number of tools, places and domains and a *)
(* buffer of any size.                                                     *)
(*                                                                         *)
(* The filter holds whatever fails because one program at a time is on its *)
(* way to enable tracing for a domain: as long as it has not set the       *)
(* filter tracing is off, and it goes on only when it has set it.          *)
(*                                                                         *)
(* Dumps print packets in order because what a dump has printed, what it   *)
(* has fetched and what it has yet to fetch are in order, whatever happens *)
(* to the buffer; names are true because all that is held of a router was  *)
(* read from one that was at its place.                                    *)
(*                                                                         *)
(* They miss nothing because no entry that is printed falls out of the     *)
(* unread part of the buffer while one that has been read stays.           *)
(***************************************************************************)
EXTENDS Tracing, Integers, SequenceTheorems, TLAPS

Steps == Enabling \union Reading \union {"idle", "disable"}

\* The parts of the type invariant the filter depends on.
FilterType ==
    /\ filter \in Domains \union {All} /\ enabled \in BOOLEAN
    /\ ProgramType

\* Tracing is wanted for one domain, by the program that is about to enable it
\* or that has enabled it.
OneWants ==
    only # All =>
        /\ enabled => filter = only
        /\ \A t \in Programs :
             /\ pc[t] = "filter" => asked[t] = only /\ ~enabled
             /\ pc[t] \in Enabling \ {"filter"} => filter = only
        /\ \A t, u \in Programs : pc[t] \in Enabling /\ pc[u] \in Enabling => t = u

FilterInv == FilterType /\ OneWants

LEMMA FilterInit == Init => FilterInv
<1> SUFFICES ASSUME Init PROVE FilterInv
  OBVIOUS
<1>1. FilterType
  BY DEF Init, FilterType, ProgramType
<1>2. OneWants
  BY DEF Init, OneWants
<1> QED BY <1>1, <1>2 DEF FilterInv

\* Steps that leave the filter alone and start no program on its way to enable.
LEMMA FilterUnchanged ==
    ASSUME FilterInv, UNCHANGED <<filter, enabled, only, asked>>, commands' \in Nat,
           NEW t \in Programs, NEW to \in Steps \ Enabling,
           pc' = [pc EXCEPT ![t] = to] \/ pc' = pc
    PROVE  FilterInv'
<1>1. /\ pc' \in [Programs -> Steps]
      /\ \A u \in Programs : pc'[u] \in Enabling => pc'[u] = pc[u]
  BY DEF FilterInv, FilterType, ProgramType, Steps
<1>2. FilterType'
  BY <1>1 DEF FilterInv, FilterType, ProgramType, Steps
<1>3. OneWants'
  BY <1>1 DEF FilterInv, OneWants, Enabling
<1> QED BY <1>2, <1>3 DEF FilterInv

\* The steps of a dump.
LEMMA FilterDump ==
    ASSUME FilterInv, NEW t \in Tools, StartDump(t) \/ DumpStep(t)
    PROVE  FilterInv'
<1>1. /\ UNCHANGED <<filter, enabled, only, asked>>
      /\ commands' \in Nat
      /\ \E to \in {"idle"} \union Reading : pc' = [pc EXCEPT ![t] = to]
  BY DEF StartDump, DumpStep, FindDevices, Fetch, Lookup, ReadRegisters, ReadAdapters,
         ReadPaths, PrintEntry, EndDump, Start, Goto, kernelVars, FilterInv, FilterType,
         ProgramType, Reading, Handling, Asking
<1>2. \A to \in {"idle"} \union Reading : to \in Steps \ Enabling
  BY DEF Steps, Enabling, Reading, Handling, Asking
<1>3. t \in Programs
  BY DEF Programs
<1> QED BY <1>1, <1>2, <1>3, FilterUnchanged

\* The steps that have to do with neither enabling nor dumping.
LEMMA FilterOther ==
    ASSUME FilterInv,
           \/ \E p \in Places : Packet(p) \/ Plug(p) \/ Unplug(p) \/ UpdateList(p)
           \/ \E t \in Tools : StartDisable(t) \/ Clear(t)
           \/ ReadEntries \/ ClearTrace \/ ViewPacket
           \/ UNCHANGED vars
    PROVE  FilterInv'
<1>1. Tbman \in Programs /\ \A t \in Tools : t \in Programs
  BY DEF Programs
<1>2. "idle" \in Steps \ Enabling /\ "disable" \in Steps \ Enabling
  BY DEF Steps, Enabling
<1>3. commands \in Nat /\ commands + 1 \in Nat
  BY DEF FilterInv, FilterType, ProgramType
<1>4. ASSUME UNCHANGED <<filter, enabled, only, asked, commands, pc>> PROVE FilterInv'
  BY <1>1, <1>2, <1>3, <1>4, FilterUnchanged
<1>5. ASSUME NEW t \in Programs, NEW to \in {"idle", "disable"}, Start(t, to),
             UNCHANGED <<filter, enabled, only, asked>>
      PROVE  FilterInv'
  <2>1. commands' \in Nat /\ pc' = [pc EXCEPT ![t] = to]
    BY <1>3, <1>5 DEF Start, Goto
  <2> QED BY <1>2, <1>5, <2>1, FilterUnchanged
<1>6. ASSUME NEW p \in Places, Packet(p) \/ Plug(p) \/ Unplug(p) \/ UpdateList(p)
      PROVE  FilterInv'
  BY <1>4, <1>6 DEF Packet, Plug, Unplug, UpdateList, kernelVars
<1>7. ASSUME NEW t \in Tools, StartDisable(t) \/ Clear(t) PROVE FilterInv'
  BY <1>1, <1>5, <1>7 DEF StartDisable, Clear, kernelVars
<1>8. ASSUME ReadEntries \/ ClearTrace \/ ViewPacket PROVE FilterInv'
  BY <1>1, <1>5, <1>8 DEF ReadEntries, ClearTrace, ViewPacket, TbmanCommand
<1>9. ASSUME UNCHANGED vars PROVE FilterInv'
  BY <1>4, <1>9 DEF vars, kernelVars
<1> QED BY <1>6, <1>7, <1>8, <1>9

\* A program starts to enable tracing.
LEMMA FilterStart ==
    ASSUME FilterInv,
           \/ \E t \in Tools, d \in Domains \union {All} : StartEnable(t, d)
           \/ EnableTrace
    PROVE  FilterInv'
<1>1. ASSUME NEW t \in Tools, NEW d \in Domains \union {All}, StartEnable(t, d)
      PROVE  FilterInv'
  <2>1. t \in Programs
    BY DEF Programs
  <2>2. FilterType'
    BY <1>1, <2>1 DEF StartEnable, Start, Goto, Wanted, kernelVars, FilterInv, FilterType,
                      ProgramType, Enabling
  <2>3. ASSUME only' # All PROVE OneWants'
    <3>1. ~enabled /\ only' = d /\ \A u \in Programs \ {t} : pc[u] \notin Enabling
      BY <1>1, <2>3 DEF StartEnable, Wanted
    <3>2. /\ pc' = [pc EXCEPT ![t] = "filter"] /\ asked' = [asked EXCEPT ![t] = d]
          /\ UNCHANGED <<filter, enabled>>
      BY <1>1, <2>3, <3>1 DEF StartEnable, Start, Goto, kernelVars
    <3>3. /\ pc'[t] = "filter" /\ asked'[t] = d
          /\ \A u \in Programs \ {t} : pc'[u] \notin Enabling
      BY <2>1, <3>1, <3>2 DEF FilterInv, FilterType, ProgramType
    <3> QED BY <3>1, <3>2, <3>3 DEF OneWants, Enabling
  <2> QED BY <2>2, <2>3 DEF FilterInv, OneWants
<1>2. ASSUME EnableTrace PROVE FilterInv'
  <2>1. Tbman \in Programs
    BY DEF Programs
  <2>2. CASE enabled
    <3>1. "disable" \in Steps \ Enabling
      BY DEF Steps, Enabling
    <3>2. UNCHANGED <<filter, enabled, only, asked>>
      BY <1>2, <2>2 DEF EnableTrace, kernelVars
    <3>3. commands' \in Nat /\ pc' = [pc EXCEPT ![Tbman] = "disable"]
      BY <1>2, <2>2 DEF EnableTrace, Start, Goto, FilterInv, FilterType, ProgramType
    <3> QED BY <2>1, <3>1, <3>2, <3>3, FilterUnchanged
  <2>3. CASE ~enabled
    BY <1>2, <2>1, <2>3 DEF EnableTrace, Start, Goto, kernelVars, FilterInv, FilterType,
                            ProgramType, OneWants, Enabling
  <2> QED BY <2>2, <2>3
<1> QED BY <1>1, <1>2

\* It goes on.
LEMMA FilterEnable ==
    ASSUME FilterInv, NEW t \in Programs, EnableStep(t)
    PROVE  FilterInv'
<1> USE DEF FilterInv, FilterType, ProgramType, Goto, busVars, kernelVars
<1>1. /\ pc[t] \in Enabling \union {"disable"}
      /\ \E to \in (Enabling \ {"filter"}) \union {"idle"} :
            /\ pc' = [pc EXCEPT ![t] = to]
            /\ pc[t] = "disable" => to = "idle"
      /\ commands' = commands /\ only' = only
  BY DEF EnableStep, AddFilter, SetCurrentTracer, SetTraceClock, DoEnable, Enabling
<1>2. FilterType'
  BY <1>1 DEF EnableStep, AddFilter, SetCurrentTracer, SetTraceClock, DoEnable, Enabling
<1>3. ASSUME only # All PROVE OneWants'
  <2>1. \A u \in Programs : u # t => pc'[u] = pc[u]
    BY <1>1
  <2>2. CASE AddFilter(t)
    BY <1>1, <1>3, <2>1, <2>2 DEF AddFilter, OneWants, Enabling
  <2>3. CASE SetCurrentTracer(t) \/ SetTraceClock(t)
    BY <1>1, <1>3, <2>1, <2>3 DEF SetCurrentTracer, SetTraceClock, OneWants, Enabling
  <2>4. CASE DoEnable(t)
    BY <1>1, <1>3, <2>1, <2>4 DEF DoEnable, OneWants, Enabling
  <2> QED BY <2>2, <2>3, <2>4 DEF EnableStep
<1> QED BY <1>1, <1>2, <1>3 DEF OneWants

\* tbtrace enable -d: only the packets of that domain are recorded, whatever
\* fails and whoever else starts and stops tracing.
THEOREM AskedDomainOnly == Spec => []OnlyAskedDomain
<1>1. FilterInv /\ [Next]_vars => FilterInv'
  <2> SUFFICES ASSUME FilterInv, [Next]_vars PROVE FilterInv'
    OBVIOUS
  <2> QED BY FilterDump, FilterOther, FilterStart, FilterEnable DEF Next
<1>2. FilterInv => OnlyAskedDomain
  BY ConstantsAssumption DEF FilterInv, OneWants, OnlyAskedDomain, Recorded
<1> QED BY FilterInit, <1>1, <1>2, PTL DEF Spec
-----------------------------------------------------------------------------
(***************************************************************************)
(* Dumps. The packets a dump has printed, has fetched and has yet to fetch *)
(* are in the order they were sent, whatever falls out of the buffer or is *)
(* put into it meanwhile; and what a program holds of the router at a      *)
(* place was read from one that has been there.                            *)
(***************************************************************************)
\* An entry that may be printed as a packet of its own.
Counts(e) == Printed(e) /\ e.id # 0

Ascending(q) ==
    \A i, j \in DOMAIN q : i < j /\ Counts(q[i]) /\ Counts(q[j]) => q[i].id < q[j].id

\* The part of the buffer t has not fetched.
UnreadAt(t) == (Len(buffer) - unread[t] + 1)..Len(buffer)

BufferOK ==
    /\ buffer \in Seq(Entry) /\ Len(buffer) <= MaxBuffer /\ traffic \in Nat
    /\ Ascending(buffer) /\ \A i \in DOMAIN buffer : buffer[i].id <= traffic

HomeOK ==
    /\ router \in [Places -> Nat] /\ home \in [Places -> SUBSET Nat]
    /\ \A p \in Places : router[p] \in {Nothing} \union home[p]

\* What is held of the routers was read from ones that were there.
HeldOK(devices) ==
    /\ IsDevices(devices)
    /\ \A p \in DOMAIN devices : \A part \in Parts :
         devices[p][part] \in {Unread, Nothing} \union home[p]

TbmanOK == uevents \subseteq Places /\ entries \in Seq(Entry) /\ HeldOK(listed)

Shape ==
    /\ unread = [t \in Tools |-> unread[t]] /\ lines = [t \in Tools |-> lines[t]]
    /\ cache = [t \in Tools |-> cache[t]] /\ shown = [t \in Tools |-> shown[t]]

\* A dump as it goes on.
PlaceOK(t) ==
    /\ unread[t] \in 0..Len(buffer) /\ lines[t] \in Seq(Entry) /\ HeldOK(cache[t])
    /\ pc[t] \in Handling => lines[t] # <<>>
    /\ pc[t] \in Asking => Found(cache[t], Head(lines[t])) # {}
    /\ pc[t] \notin Reading => unread[t] = 0 /\ lines[t] = <<>> /\ shown[t] = <<>>

FetchedOK(t) ==
    /\ Ascending(lines[t])
    /\ \A i \in DOMAIN lines[t] :
         /\ lines[t][i].id <= traffic
         /\ \A k \in UnreadAt(t) :
              Counts(lines[t][i]) /\ Counts(buffer[k]) => lines[t][i].id < buffer[k].id

ShownOK(t) ==
    /\ shown[t] \in Seq(Line)
    /\ \A i \in DOMAIN shown[t] :
         /\ \A j \in 1..(i - 1) : shown[t][j].id < shown[t][i].id
         /\ shown[t][i].id <= traffic
         /\ \A k \in DOMAIN lines[t] :
              Counts(lines[t][k]) => shown[t][i].id < lines[t][k].id
         /\ \A k \in UnreadAt(t) : Counts(buffer[k]) => shown[t][i].id < buffer[k].id
         /\ shown[t][i].names \in {Unread, Nothing} \union home[shown[t][i].place]

DumpOK(t) == PlaceOK(t) /\ FetchedOK(t) /\ ShownOK(t)

DumpInv ==
    /\ FilterInv /\ BufferOK /\ HomeOK /\ TbmanOK /\ Shape
    /\ \A t \in Tools : DumpOK(t)

\* What t has yet to fetch after a step: some of what it had, or newer packets.
TailKept(t) ==
    \A k \in UnreadAt(t)' :
        Counts(buffer'[k]) => \/ buffer'[k].id > traffic
                              \/ \E j \in UnreadAt(t) : buffer'[k] = buffer[j]

\* What a step may do to the buffer and to what is unread of it.
KernelKept ==
    /\ BufferOK' /\ traffic <= traffic'
    /\ unread' = [t \in Tools |-> unread'[t]]
    /\ \A t \in Tools :
         /\ unread'[t] \in 0..Len(buffer') /\ TailKept(t)
         /\ pc[t] \notin Reading => unread'[t] = 0

\* Nothing happens to the buffer.
LEMMA KernelIdle ==
    ASSUME DumpInv, UNCHANGED <<buffer, unread, traffic>>
    PROVE  KernelKept
<1>1. BufferOK'
  BY DEF DumpInv, BufferOK, Ascending, Counts, Printed
<1>2. \A t \in Tools : UnreadAt(t)' = UnreadAt(t)
  BY DEF UnreadAt
<1>. QED BY <1>1, <1>2 DEF DumpInv, Shape, DumpOK, PlaceOK, BufferOK, KernelKept, TailKept

\* It is emptied.
LEMMA KernelEmptied ==
    ASSUME DumpInv, Emptied, UNCHANGED traffic
    PROVE  KernelKept
<1>1. buffer' = <<>> /\ unread' = [t \in Tools |-> 0]
  BY DEF Emptied
<1>2. BufferOK'
  BY <1>1, ConstantsAssumption DEF DumpInv, BufferOK, Ascending
<1>3. \A t \in Tools : unread'[t] = 0 /\ UnreadAt(t)' = {}
  BY <1>1 DEF UnreadAt
<1>. QED BY <1>1, <1>2, <1>3 DEF DumpInv, BufferOK, KernelKept, TailKept

\* New entries come into it.
LEMMA KernelRecord ==
    ASSUME DumpInv, NEW p, NEW es \in Seq(Entry), Record(p, es),
           traffic' \in Nat, traffic <= traffic', Len(es) <= MaxBuffer,
           Ascending(es),
           \A i \in DOMAIN es : /\ es[i].id <= traffic'
                                /\ Counts(es[i]) => es[i].id > traffic
    PROVE  KernelKept
<1> DEFINE all == buffer \o es
           len == Smaller(Len(all), MaxBuffer)
           off == Len(all) - len
<1>1. /\ buffer \in Seq(Entry) /\ Len(buffer) \in Nat /\ Len(buffer) <= MaxBuffer
      /\ DOMAIN buffer = 1..Len(buffer)
      /\ Len(es) \in Nat /\ DOMAIN es = 1..Len(es)
      /\ traffic \in Nat /\ MaxBuffer \in Nat
  BY ConstantsAssumption DEF DumpInv, BufferOK
<1>0. /\ \A i \in DOMAIN buffer : buffer[i].id \in Nat
      /\ \A i \in DOMAIN es : es[i].id \in Nat
  <2>1. /\ \A i \in DOMAIN buffer : buffer[i] \in Entry
        /\ \A i \in DOMAIN es : es[i] \in Entry
    BY <1>1, ElementOfSeq
  <2>. QED BY <2>1 DEF Entry
<1>2. \A t \in Tools : unread[t] \in 0..Len(buffer)
  BY DEF DumpInv, DumpOK, PlaceOK
<1>3. CASE ~Recorded(p)
  <2>1. buffer' = buffer /\ unread' = unread
    BY <1>3 DEF Record
  <2>2. BufferOK'
    <3>1. \A i \in DOMAIN buffer : buffer[i].id \in Nat /\ buffer[i].id <= traffic
      BY <1>1, <1>0 DEF DumpInv, BufferOK
    <3>2. \A i \in DOMAIN buffer : buffer[i].id <= traffic'
      BY <1>1, <3>1
    <3>3. Ascending(buffer)'
      BY <2>1 DEF DumpInv, BufferOK, Ascending, Counts, Printed
    <3>. QED BY <1>1, <2>1, <3>2, <3>3 DEF BufferOK
  <2>3. \A t \in Tools : UnreadAt(t)' = UnreadAt(t)
    BY <2>1 DEF UnreadAt
  <2>. QED BY <2>1, <2>2, <2>3 DEF DumpInv, Shape, DumpOK, PlaceOK, KernelKept, TailKept
<1>4. CASE Recorded(p)
  <2>1. /\ buffer' = SubSeq(all, Len(all) + 1 - len, Len(all))
        /\ unread' = [t \in Tools |->
                        IF pc[t] \in Reading
                        THEN Smaller(unread[t] + Len(es), MaxBuffer) ELSE unread[t]]
    BY <1>4 DEF Record
  <2>2. /\ all \in Seq(Entry) /\ Len(all) = Len(buffer) + Len(es)
        /\ \A i \in 1..Len(all) :
             all[i] = IF i <= Len(buffer) THEN buffer[i] ELSE es[i - Len(buffer)]
    BY <1>1
  <2> HIDE DEF all
  <2>3. /\ len \in Nat /\ len <= Len(all) /\ len <= MaxBuffer /\ off \in Nat
        /\ len >= Len(buffer) /\ (len = Len(all) \/ len = MaxBuffer)
    BY <1>1, <2>2 DEF Smaller
  <2> HIDE DEF len
  <2>4. /\ buffer' \in Seq(Entry) /\ Len(buffer') = len /\ DOMAIN buffer' = 1..len
        /\ \A i \in 1..len : buffer'[i] = all[off + i]
    <3>1. /\ Len(all) + 1 - len \in Int /\ Len(all) \in Nat
          /\ Len(all) + 1 - len >= 1 /\ Len(all) - (Len(all) + 1 - len) + 1 = len
      BY <2>2, <2>3
    <3>2. /\ buffer' \in Seq(Entry) /\ Len(buffer') = len
          /\ \A i \in 1..len : buffer'[i] = all[(Len(all) + 1 - len) + i - 1]
      BY <2>1, <2>2, <2>3, <3>1, SubSeqProperties
    <3>3. \A i \in 1..len : (Len(all) + 1 - len) + i - 1 = off + i
      BY <2>2, <2>3
    <3>. QED BY <3>2, <3>3
  <2>a. \A i \in 1..Len(all) : all[i].id \in Nat
    <3>1. \A i \in 1..Len(all) : all[i] \in Entry
      BY <2>2, ElementOfSeq
    <3>. QED BY <3>1 DEF Entry
  <2>b. \A i \in 1..Len(all) :
          \/ i \in DOMAIN buffer /\ all[i] = buffer[i] /\ i <= Len(buffer)
          \/ /\ i - Len(buffer) \in DOMAIN es /\ all[i] = es[i - Len(buffer)]
             /\ i > Len(buffer)
    <3> SUFFICES ASSUME NEW i \in 1..Len(all)
                 PROVE  \/ i \in DOMAIN buffer /\ all[i] = buffer[i] /\ i <= Len(buffer)
                        \/ /\ i - Len(buffer) \in DOMAIN es /\ all[i] = es[i - Len(buffer)]
                           /\ i > Len(buffer)
      OBVIOUS
    <3>1. CASE i <= Len(buffer)
      BY <1>1, <2>2, <3>1
    <3>2. CASE i > Len(buffer)
      <4>1. i - Len(buffer) \in 1..Len(es)
        BY <1>1, <2>2, <3>2
      <4>2. all[i] = es[i - Len(buffer)]
        BY <1>1, <2>2, <3>2
      <4>. QED BY <1>1, <3>2, <4>1, <4>2
    <3>. QED BY <1>1, <3>1, <3>2
  <2>5. \A i, j \in 1..Len(all) :
          i < j /\ Counts(all[i]) /\ Counts(all[j]) => all[i].id < all[j].id
    <3> SUFFICES ASSUME NEW i \in 1..Len(all), NEW j \in 1..Len(all),
                        i < j, Counts(all[i]), Counts(all[j])
                 PROVE  all[i].id < all[j].id
      OBVIOUS
    <3>1. CASE j <= Len(buffer)
      <4>1. /\ i \in DOMAIN buffer /\ j \in DOMAIN buffer
            /\ all[i] = buffer[i] /\ all[j] = buffer[j]
        BY <1>1, <2>b, <3>1
      <4>2. Counts(buffer[i]) /\ Counts(buffer[j])
        BY <4>1
      <4>. QED BY <4>1, <4>2 DEF DumpInv, BufferOK, Ascending
    <3>2. CASE i <= Len(buffer) /\ j > Len(buffer)
      <4>1. all[i] = buffer[i] /\ i \in DOMAIN buffer
        BY <1>1, <2>2, <3>2
      <4>2. all[j] = es[j - Len(buffer)] /\ j - Len(buffer) \in DOMAIN es
        BY <1>1, <2>2, <3>2
      <4>3. all[i].id <= traffic /\ all[j].id > traffic
        BY <4>1, <4>2 DEF DumpInv, BufferOK
      <4>. QED BY <1>1, <2>a, <4>3
    <3>3. CASE i > Len(buffer)
      <4>1. all[i] = es[i - Len(buffer)] /\ i - Len(buffer) \in DOMAIN es
        BY <1>1, <2>2, <3>3
      <4>2. all[j] = es[j - Len(buffer)] /\ j - Len(buffer) \in DOMAIN es
        BY <1>1, <2>2, <3>3
      <4>3. i - Len(buffer) < j - Len(buffer)
        BY <1>1
      <4>4. Counts(es[i - Len(buffer)]) /\ Counts(es[j - Len(buffer)])
        BY <4>1, <4>2
      <4>. QED BY <4>1, <4>2, <4>3, <4>4 DEF Ascending
    <3>. QED BY <1>1, <3>1, <3>2, <3>3
  <2>6. \A i \in 1..Len(all) : all[i].id <= traffic'
    <3>1. \A i \in DOMAIN buffer : buffer[i].id <= traffic'
      <4>1. \A i \in DOMAIN buffer : buffer[i].id <= traffic
        BY DEF DumpInv, BufferOK
      <4>. QED BY <1>0, <1>1, <4>1
    <3>. QED BY <2>b, <3>1
  <2>7. BufferOK'
    <3>1. \A i \in 1..len : off + i \in 1..Len(all)
      BY <2>2, <2>3
    <3>2. Ascending(buffer')
      <4> SUFFICES ASSUME NEW i \in 1..len, NEW j \in 1..len, i < j,
                          Counts(buffer'[i]), Counts(buffer'[j])
                   PROVE  buffer'[i].id < buffer'[j].id
        BY <2>4 DEF Ascending
      <4>1. buffer'[i] = all[off + i] /\ buffer'[j] = all[off + j]
        BY <2>4
      <4>2. off + i < off + j
        BY <2>3
      <4>. QED BY <2>5, <3>1, <4>1, <4>2
    <3>3. \A i \in DOMAIN buffer' : buffer'[i].id <= traffic'
      BY <2>4, <2>6, <3>1
    <3>4. Ascending(buffer)'
      BY <3>2 DEF Ascending, Counts, Printed
    <3>. QED BY <2>3, <2>4, <3>3, <3>4 DEF BufferOK
  <2>8. ASSUME NEW t \in Tools
        PROVE  /\ unread'[t] \in 0..len /\ unread'[t] <= unread[t] + Len(es)
               /\ pc[t] \notin Reading => unread'[t] = 0
    <3>1. unread[t] \in Nat /\ unread[t] <= Len(buffer)
      BY <1>1, <1>2
    <3>2. pc[t] \notin Reading => unread[t] = 0
      BY DEF DumpInv, DumpOK, PlaceOK
    <3>3. CASE pc[t] \in Reading
      <4>1. unread'[t] = Smaller(unread[t] + Len(es), MaxBuffer)
        BY <2>1, <3>3
      <4>2. unread'[t] \in Nat /\ unread'[t] <= unread[t] + Len(es) /\ unread'[t] <= MaxBuffer
        BY <1>1, <3>1, <4>1 DEF Smaller
      <4>. QED BY <1>1, <2>2, <2>3, <3>1, <3>3, <4>2
    <3>4. CASE pc[t] \notin Reading
      <4>1. unread'[t] = unread[t]
        BY <2>1, <3>4
      <4>. QED BY <1>1, <2>2, <2>3, <3>1, <3>2, <3>4, <4>1
    <3>. QED BY <3>3, <3>4
  <2>9. ASSUME NEW t \in Tools PROVE TailKept(t)
    <3>1. UnreadAt(t)' = (len - unread'[t] + 1)..len
      BY <2>4 DEF UnreadAt
    <3> SUFFICES ASSUME NEW k \in (len - unread'[t] + 1)..len, Counts(buffer'[k])
                 PROVE  \/ buffer'[k].id > traffic
                        \/ \E j \in UnreadAt(t) : buffer'[k] = buffer[j]
      BY <3>1 DEF TailKept
    <3>2. k \in 1..len /\ off + k \in 1..Len(all) /\ buffer'[k] = all[off + k]
      BY <2>2, <2>3, <2>4, <2>8
    <3>3. CASE off + k <= Len(buffer)
      <4>1. buffer'[k] = buffer[off + k]
        BY <2>2, <3>2, <3>3
      <4>2. off + k \in UnreadAt(t)
        <5>1. /\ Len(buffer) \in Nat /\ Len(es) \in Nat /\ len \in Nat
              /\ unread[t] \in Nat /\ unread'[t] \in Nat /\ k \in Int
              /\ unread'[t] <= unread[t] + Len(es)
          BY <1>1, <1>2, <2>3, <2>8
        <5>2. Len(all) = Len(buffer) + Len(es) /\ k >= len - unread'[t] + 1
          BY <2>2, <5>1
        <5>3. off + k >= Len(buffer) - unread[t] + 1 /\ off + k \in Int
          BY ONLY <5>1, <5>2
        <5>. QED BY ONLY <3>3, <5>1, <5>3 DEF UnreadAt
      <4>. QED BY <4>1, <4>2
    <3>4. CASE off + k > Len(buffer)
      <4> DEFINE i == off + k
      <4>1. i \in 1..Len(all) /\ i > Len(buffer) /\ Len(buffer) \in Nat /\ buffer'[k] = all[i]
        BY <1>1, <3>2, <3>4
      <4> HIDE DEF i
      <4>2. i - Len(buffer) \in DOMAIN es /\ all[i] = es[i - Len(buffer)]
        BY ONLY <2>b, <4>1
      <4>. QED BY <4>1, <4>2
    <3>. QED BY <1>1, <2>3, <3>2, <3>3, <3>4
  <2>10. unread' = [t \in Tools |-> unread'[t]]
    BY <2>1
  <2>. QED BY <2>4, <2>7, <2>8, <2>9, <2>10 DEF KernelKept
<1>. QED BY <1>3, <1>4

\* Someone fetches entries, or no longer cares for them.
LEMMA KernelFetched ==
    ASSUME DumpInv, UNCHANGED <<buffer, traffic>>, NEW t \in Tools,
           NEW n \in 0..unread[t], unread' = [unread EXCEPT ![t] = n]
    PROVE  KernelKept
<1>1. BufferOK'
  BY DEF DumpInv, BufferOK, Ascending, Counts, Printed
<1>2. ASSUME NEW u \in Tools
      PROVE  /\ unread'[u] \in 0..Len(buffer') /\ unread'[u] <= unread[u]
             /\ pc[u] \notin Reading => unread'[u] = 0
  <2>1. /\ unread[u] \in 0..Len(buffer) /\ Len(buffer) \in Nat /\ buffer' = buffer
        /\ pc[u] \notin Reading => unread[u] = 0
    BY DEF DumpInv, DumpOK, PlaceOK, BufferOK
  <2>2. unread'[u] = IF u = t THEN n ELSE unread[u]
    BY DEF DumpInv, Shape
  <2>. QED BY <2>1, <2>2
<1>3. ASSUME NEW u \in Tools PROVE TailKept(u)
  <2>1. \A k \in UnreadAt(u)' : k \in UnreadAt(u)
    BY <1>2 DEF UnreadAt, DumpInv, DumpOK, PlaceOK, BufferOK
  <2>. QED BY <2>1 DEF TailKept
<1>4. unread' = [u \in Tools |-> unread'[u]]
  BY DEF DumpInv, Shape
<1>. QED BY <1>1, <1>2, <1>3, <1>4 DEF KernelKept, DumpInv, BufferOK

\* A packet of the router at p.
LEMMA EntryType ==
    ASSUME HomeOK, NEW p \in Places, NEW id \in Nat, NEW function \in {"tb_rx", "tb_event"},
           NEW payload \in Payload
    PROVE  EntryOf(p, id, function, payload) \in Entry
  BY DEF EntryOf, Entry, HomeOK

LEMMA KernelOwn ==
    ASSUME DumpInv, NEW p \in Places, NEW part \in Parts, RecordOwn(p, part),
           UNCHANGED traffic
    PROVE  KernelKept
<1> DEFINE e == EntryOf(p, 0, "tb_rx", [kind |-> "config", part |-> part])
<1>1. e \in Entry /\ e.id = 0
  BY EntryType DEF DumpInv, Payload, Config, EntryOf
<1> HIDE DEF e
<1> DEFINE es == <<e>>
<1>2. Record(p, es)
  BY DEF RecordOwn, e
<1>3. /\ es \in Seq(Entry) /\ Len(es) = 1 /\ \A i \in DOMAIN es : es[i] = e
  BY <1>1
<1> HIDE DEF es
<1>4. \A i \in DOMAIN es : ~Counts(es[i])
  BY <1>1, <1>3 DEF Counts
<1>5. Ascending(es)
  BY <1>4 DEF Ascending
<1>6. traffic' \in Nat /\ traffic <= traffic' /\ Len(es) <= MaxBuffer
  BY <1>3, ConstantsAssumption DEF DumpInv, BufferOK
<1>7. \A i \in DOMAIN es : es[i].id <= traffic'
  BY <1>1, <1>3, <1>6
<1>. QED BY <1>2, <1>3, <1>4, <1>5, <1>6, <1>7, KernelRecord

LEMMA KernelPacket ==
    ASSUME DumpInv, NEW p \in Places, Packet(p)
    PROVE  KernelKept
<1>1. PICK pl \in Sent :
        Record(p, CASE pl.kind = "xdomain" ->
                         <<EntryOf(p, traffic + 1, "tb_event", pl),
                           EntryOf(p, traffic + 1, "tb_rx", pl)>>
                    [] pl.kind = "plug" -> <<EntryOf(p, traffic + 1, "tb_event", pl)>>
                    [] OTHER -> <<EntryOf(p, traffic + 1, "tb_rx", pl)>>)
  BY DEF Packet
<1> DEFINE n == traffic + 1
           a == EntryOf(p, n, "tb_event", pl)
           b == EntryOf(p, n, "tb_rx", pl)
<1>2. /\ traffic \in Nat /\ n \in Nat /\ traffic' = n /\ n > traffic
      /\ 2 <= MaxBuffer /\ MaxBuffer \in Nat /\ pl \in Payload
  BY ConstantsAssumption DEF DumpInv, BufferOK, Packet
<1>3. /\ a \in Entry /\ a.id = n /\ a.function = "tb_event" /\ a.payload = pl
      /\ b \in Entry /\ b.id = n
  <2>1. a \in Entry /\ b \in Entry
    BY <1>2, EntryType DEF DumpInv
  <2>. QED BY <2>1 DEF EntryOf
<1>4. Record(p, IF pl.kind = "xdomain" THEN <<a, b>>
                ELSE IF pl.kind = "plug" THEN <<a>> ELSE <<b>>)
  BY <1>1
<1> HIDE DEF n, a, b
<1>5. ASSUME NEW e \in Entry, e.id = n, Record(p, <<e>>)
      PROVE  KernelKept
  <2>1. /\ <<e>> \in Seq(Entry) /\ Len(<<e>>) = 1 /\ DOMAIN <<e>> = {1} /\ <<e>>[1] = e
    OBVIOUS
  <2>2. Ascending(<<e>>)
    BY <2>1 DEF Ascending
  <2>3. traffic' \in Nat /\ traffic <= traffic' /\ Len(<<e>>) <= MaxBuffer
    BY <1>2, <2>1
  <2>4. \A i \in DOMAIN <<e>> : <<e>>[i].id <= traffic' /\ <<e>>[i].id > traffic
    BY <1>2, <1>5, <2>1
  <2>. QED BY <1>5, <2>1, <2>2, <2>3, <2>4, KernelRecord
<1>6. CASE pl.kind = "xdomain"
  <2>1. /\ <<a, b>> \in Seq(Entry) /\ Len(<<a, b>>) = 2 /\ DOMAIN <<a, b>> = {1, 2}
        /\ <<a, b>>[1] = a /\ <<a, b>>[2] = b
    BY <1>3
  <2>2. ~Counts(a)
    BY <1>3, <1>6 DEF Counts, Printed
  <2>3. Ascending(<<a, b>>)
    BY <2>1, <2>2 DEF Ascending
  <2>4. traffic' \in Nat /\ traffic <= traffic' /\ Len(<<a, b>>) <= MaxBuffer
    BY <1>2, <2>1
  <2>5. \A i \in DOMAIN <<a, b>> : <<a, b>>[i].id <= traffic' /\ <<a, b>>[i].id > traffic
    BY <1>2, <1>3, <2>1
  <2>6. Record(p, <<a, b>>)
    BY <1>4, <1>6
  <2>. QED BY <2>1, <2>3, <2>4, <2>5, <2>6, KernelRecord
<1>. QED BY <1>3, <1>4, <1>5, <1>6

-----------------------------------------------------------------------------
\* A step that leaves alone what t has fetched and printed, whatever it does to
\* the buffer and the routers.
LEMMA DumpKept ==
    ASSUME DumpInv, KernelKept, HomeOK', \A p \in Places : home[p] \subseteq home'[p],
           NEW t \in Tools, lines'[t] = lines[t], shown'[t] = shown[t],
           HeldOK(cache[t])',
           pc'[t] \in Handling => pc[t] \in Handling,
           pc'[t] \in Asking =>
               /\ pc[t] \in Asking \/ Found(cache[t], Head(lines[t])) # {}
               /\ DOMAIN cache'[t] = DOMAIN cache[t],
           pc'[t] \notin Reading => pc[t] \notin Reading
    PROVE  DumpOK(t)'
<1>1. /\ PlaceOK(t) /\ FetchedOK(t) /\ ShownOK(t) /\ TailKept(t)
      /\ unread'[t] \in 0..Len(buffer') /\ traffic <= traffic'
      /\ traffic \in Nat /\ traffic' \in Nat
  BY DEF DumpInv, DumpOK, KernelKept, BufferOK
<1>2. /\ lines[t] \in Seq(Entry) /\ shown[t] \in Seq(Line)
      /\ \A i \in DOMAIN lines[t] : lines[t][i].id \in Nat
      /\ \A i \in DOMAIN shown[t] : shown[t][i].id \in Nat /\ shown[t][i].place \in Places
  <2>1. lines[t] \in Seq(Entry) /\ shown[t] \in Seq(Line)
    BY <1>1 DEF PlaceOK, ShownOK
  <2>2. /\ \A i \in DOMAIN lines[t] : lines[t][i] \in Entry
        /\ \A i \in DOMAIN shown[t] : shown[t][i] \in Line
    BY <2>1, ElementOfSeq
  <2>. QED BY <2>1, <2>2 DEF Entry, Line
<1>3. \A k \in UnreadAt(t)' : buffer'[k].id \in Nat
  <2>1. \A k \in UnreadAt(t)' : k \in 1..Len(buffer')
    BY <1>1 DEF UnreadAt, KernelKept, BufferOK
  <2>2. buffer' \in Seq(Entry)
    BY DEF KernelKept, BufferOK
  <2>3. \A k \in UnreadAt(t)' : buffer'[k] \in Entry
    BY <2>1, <2>2, ElementOfSeq
  <2>. QED BY <2>3 DEF Entry
<1>4. PlaceOK(t)'
  <2>1. pc'[t] \in Asking => Found(cache'[t], Head(lines'[t])) # {}
    BY <1>1 DEF PlaceOK, Found
  <2>2. (Found(cache[t], Head(lines[t])))' = Found(cache'[t], Head(lines'[t]))
    BY DEF Found
  <2>3. pc'[t] \notin Reading => unread'[t] = 0
    BY DEF KernelKept
  <2>. QED BY <1>1, <2>1, <2>2, <2>3 DEF PlaceOK
<1>5. FetchedOK(t)'
  <2>1. Ascending(lines[t])'
    BY <1>1 DEF FetchedOK, Ascending, Counts, Printed
  <2>2. ASSUME NEW i \in DOMAIN lines[t] PROVE lines[t][i].id <= traffic'
    BY <1>1, <1>2 DEF FetchedOK
  <2>3. ASSUME NEW i \in DOMAIN lines[t], NEW k \in UnreadAt(t)',
               Counts(lines[t][i]), Counts(buffer'[k])
        PROVE  lines[t][i].id < buffer'[k].id
    <3>1. CASE buffer'[k].id > traffic
      <4>1. lines[t][i].id <= traffic
        BY <1>1 DEF FetchedOK
      <4>. QED BY <1>1, <1>2, <1>3, <3>1, <4>1
    <3>2. ASSUME NEW j \in UnreadAt(t), buffer'[k] = buffer[j]
          PROVE  lines[t][i].id < buffer'[k].id
      BY <1>1, <2>3, <3>2 DEF FetchedOK
    <3>. QED BY <1>1, <2>3, <3>1, <3>2 DEF TailKept
  <2>. QED BY <2>1, <2>2, <2>3 DEF FetchedOK, Counts, Printed
<1>6. ShownOK(t)'
  <2>1. ASSUME NEW i \in DOMAIN shown[t]
        PROVE  /\ shown[t][i].id <= traffic'
               /\ shown[t][i].names \in {Unread, Nothing} \union home'[shown[t][i].place]
    <3>1. /\ shown[t][i].id <= traffic
          /\ shown[t][i].names \in {Unread, Nothing} \union home[shown[t][i].place]
      BY <1>1 DEF ShownOK
    <3>. QED BY <1>1, <1>2, <3>1
  <2>2. ASSUME NEW i \in DOMAIN shown[t], NEW k \in UnreadAt(t)', Counts(buffer'[k])
        PROVE  shown[t][i].id < buffer'[k].id
    <3>1. CASE buffer'[k].id > traffic
      <4>1. shown[t][i].id <= traffic
        BY <1>1 DEF ShownOK
      <4>. QED BY <1>1, <1>2, <1>3, <3>1, <4>1
    <3>2. ASSUME NEW j \in UnreadAt(t), buffer'[k] = buffer[j]
          PROVE  shown[t][i].id < buffer'[k].id
      BY <1>1, <2>2, <3>2 DEF ShownOK
    <3>. QED BY <1>1, <2>2, <3>1, <3>2 DEF TailKept
  <2>3. \A i \in DOMAIN shown[t] :
          /\ \A j \in 1..(i - 1) : shown[t][j].id < shown[t][i].id
          /\ \A k \in DOMAIN lines[t] :
               Counts(lines[t][k]) => shown[t][i].id < lines[t][k].id
    BY <1>1 DEF ShownOK
  <2>4. shown'[t] = shown[t] /\ lines'[t] = lines[t] /\ shown'[t] \in Seq(Line)
    BY <1>2
  <2>. QED BY <2>1, <2>2, <2>3, <2>4 DEF ShownOK, Counts, Printed
<1>. QED BY <1>4, <1>5, <1>6 DEF DumpOK

\* What is held stays true when routers come and go.
LEMMA HeldKept ==
    ASSUME DumpInv, \A p \in Places : home[p] \subseteq home'[p]
    PROVE  /\ listed' = listed => HeldOK(listed)'
           /\ \A t \in Tools : cache'[t] = cache[t] => HeldOK(cache[t])'
<1>1. HeldOK(listed) /\ \A t \in Tools : HeldOK(cache[t])
  BY DEF DumpInv, TbmanOK, DumpOK, PlaceOK
<1>. QED BY <1>1 DEF HeldOK, IsDevices

\* A step that has nothing to do with a dump.
LEMMA QuietStep ==
    ASSUME DumpInv, FilterInv', KernelKept, HomeOK', TbmanOK',
           \A p \in Places : home[p] \subseteq home'[p],
           UNCHANGED dumpVars,
           \A t \in Tools : pc'[t] = pc[t] \/ (pc[t] \notin Reading /\ pc'[t] \notin Reading)
    PROVE  DumpInv'
<1>1. ASSUME NEW t \in Tools PROVE DumpOK(t)'
  <2>1. /\ lines'[t] = lines[t] /\ shown'[t] = shown[t] /\ cache'[t] = cache[t]
    BY DEF dumpVars
  <2>2. HeldOK(cache[t])'
    BY <2>1, HeldKept
  <2>3. /\ pc'[t] \in Handling => pc[t] \in Handling
        /\ pc'[t] \in Asking => pc[t] \in Asking
        /\ pc'[t] \notin Reading => pc[t] \notin Reading
    BY DEF Reading, Handling
  <2>. QED BY <2>1, <2>2, <2>3, DumpKept
<1>2. Shape'
  BY DEF DumpInv, Shape, KernelKept, dumpVars
<1>3. BufferOK'
  BY DEF KernelKept
<1>. QED BY <1>1, <1>2, <1>3 DEF DumpInv

\* A step of the dump t.
LEMMA DumpProgress ==
    ASSUME DumpInv, FilterInv', KernelKept, UNCHANGED <<busVars, tbmanVars>>, NEW t \in Tools,
           NEW l, lines' = [lines EXCEPT ![t] = l], NEW s, shown' = [shown EXCEPT ![t] = s],
           NEW c, cache' = [cache EXCEPT ![t] = c], NEW to, pc' = [pc EXCEPT ![t] = to],
           DumpOK(t)'
    PROVE  DumpInv'
<1>1. /\ HomeOK' /\ \A p \in Places : home[p] \subseteq home'[p]
  BY DEF DumpInv, HomeOK, busVars
<1>2. TbmanOK'
  <2>1. uevents' = uevents /\ entries' = entries /\ listed' = listed
    BY DEF tbmanVars
  <2>. QED BY <1>1, <2>1, HeldKept DEF DumpInv, TbmanOK
<1>3. ASSUME NEW u \in Tools, u # t PROVE DumpOK(u)'
  <2>1. /\ lines'[u] = lines[u] /\ shown'[u] = shown[u] /\ cache'[u] = cache[u]
    BY <1>3 DEF DumpInv, Shape
  <2>2. pc'[u] = pc[u]
    BY <1>3 DEF DumpInv, FilterInv, FilterType, ProgramType, Programs
  <2>3. HeldOK(cache[u])'
    BY <1>1, <2>1, HeldKept
  <2>. QED BY <1>1, <2>1, <2>2, <2>3, DumpKept
<1>4. Shape'
  <2>1. lines' = [u \in Tools |-> lines'[u]]
    BY DEF DumpInv, Shape
  <2>2. shown' = [u \in Tools |-> shown'[u]]
    BY DEF DumpInv, Shape
  <2>3. cache' = [u \in Tools |-> cache'[u]]
    BY DEF DumpInv, Shape
  <2>. QED BY <2>1, <2>2, <2>3 DEF Shape, KernelKept
<1>5. BufferOK'
  BY DEF KernelKept
<1>. QED BY <1>1, <1>2, <1>3, <1>4, <1>5 DEF DumpInv

\* The router an entry is looked up for is one t has found, where the entry is
\* from.
LEMMA DeviceThere ==
    ASSUME DumpInv, NEW t \in Tools, pc[t] \in Asking
    PROVE  TheDevice(t) \in DOMAIN cache[t] /\ TheDevice(t) \in Places
<1>1. Found(cache[t], Head(lines[t])) # {} /\ DOMAIN cache[t] \subseteq Places
  BY DEF DumpInv, DumpOK, PlaceOK, HeldOK, IsDevices
<1>2. TheDevice(t) \in Found(cache[t], Head(lines[t]))
  BY <1>1 DEF TheDevice
<1>. QED BY <1>1, <1>2 DEF Found

\* Registers are read from the router that is there.
LEMMA HoldKeeps ==
    ASSUME DumpInv, NEW t \in Tools, NEW p \in DOMAIN cache[t], NEW part \in Parts,
           Hold(t, p, part), UNCHANGED home
    PROVE  /\ cache' = [cache EXCEPT ![t] = cache'[t]]
           /\ HeldOK(cache[t])' /\ DOMAIN cache'[t] = DOMAIN cache[t]
<1> DEFINE d == cache[t]
           f == [d EXCEPT ![p] = [d[p] EXCEPT ![part] = router[p]]]
<1>1. HeldOK(d) /\ p \in Places /\ router[p] \in Nat /\ router[p] \in {Nothing} \union home[p]
  BY DEF DumpInv, DumpOK, PlaceOK, HeldOK, IsDevices, HomeOK
<1>2. cache' = [cache EXCEPT ![t] = f]
  BY DEF Hold
<1>3. cache'[t] = f
  BY <1>2 DEF DumpInv, Shape
<1>4. /\ DOMAIN f = DOMAIN d /\ f = [q \in DOMAIN d |-> f[q]]
      /\ \A q \in DOMAIN d : q # p => f[q] = d[q]
      /\ f[p] = [d[p] EXCEPT ![part] = router[p]]
  BY <1>1 DEF HeldOK, IsDevices
<1>5. d[p] \in [Parts -> Nat]
  BY <1>1 DEF HeldOK, IsDevices
<1>6. /\ f[p] \in [Parts -> Nat]
      /\ \A q \in Parts : f[p][q] = IF q = part THEN router[p] ELSE d[p][q]
  BY <1>1, <1>4, <1>5
<1> HIDE DEF f
<1>7. \A q \in DOMAIN d : /\ f[q] \in [Parts -> Nat]
                          /\ \A x \in Parts : f[q][x] \in {Unread, Nothing} \union home[q]
  BY <1>1, <1>4, <1>6 DEF HeldOK, IsDevices
<1>8. IsDevices(f)
  BY <1>1, <1>4, <1>7 DEF HeldOK, IsDevices
<1>9. HeldOK(cache[t])'
  BY <1>3, <1>4, <1>7, <1>8 DEF HeldOK, IsDevices
<1>. QED BY <1>2, <1>3, <1>4, <1>9

-----------------------------------------------------------------------------
\* The end of a dump leaves nothing behind.
LEMMA EndDumpInv ==
    ASSUME DumpInv, FilterInv', NEW t \in Tools, EndDump(t),
           UNCHANGED <<buffer, busVars, tbmanVars>>
    PROVE  DumpInv'
<1>1. /\ pc' = [pc EXCEPT ![t] = "idle"] /\ unread' = [unread EXCEPT ![t] = 0]
      /\ lines' = [lines EXCEPT ![t] = <<>>] /\ cache' = [cache EXCEPT ![t] = <<>>]
      /\ shown' = [shown EXCEPT ![t] = <<>>]
  BY DEF EndDump, Goto
<1>2. UNCHANGED traffic /\ 0 \in 0..unread[t]
  BY DEF busVars, DumpInv, DumpOK, PlaceOK
<1>3. KernelKept
  BY <1>1, <1>2, KernelFetched
<1>4. /\ pc'[t] = "idle" /\ unread'[t] = 0 /\ lines'[t] = <<>> /\ cache'[t] = <<>>
      /\ shown'[t] = <<>>
  BY <1>1 DEF DumpInv, Shape, FilterInv, FilterType, ProgramType, Programs
<1>5. HeldOK(cache[t])'
  BY <1>4 DEF HeldOK, IsDevices
<1>6. PlaceOK(t)'
  BY <1>4, <1>5 DEF PlaceOK, Handling, Asking, Reading, KernelKept, BufferOK
<1>7. FetchedOK(t)' /\ ShownOK(t)'
  BY <1>4 DEF FetchedOK, ShownOK, Ascending
<1>. QED BY <1>1, <1>3, <1>6, <1>7, DumpProgress DEF DumpOK

LEMMA StartDumpInv ==
    ASSUME DumpInv, FilterInv', NEW t \in Tools, StartDump(t)
    PROVE  DumpInv'
<1>1. /\ unread' = [unread EXCEPT ![t] = Len(buffer)]
      /\ UNCHANGED <<buffer, busVars, dumpVars, tbmanVars>>
      /\ \E to \in {"find", "fetch"} : pc' = [pc EXCEPT ![t] = to]
      /\ pc[t] = "idle"
  BY DEF StartDump, Start, Goto, kernelVars
<1>2. BufferOK' /\ HomeOK' /\ \A p \in Places : home[p] \subseteq home'[p]
  BY <1>1 DEF DumpInv, BufferOK, HomeOK, busVars, Ascending, Counts, Printed
<1>3. TbmanOK'
  <2>1. uevents' = uevents /\ entries' = entries /\ listed' = listed
    BY <1>1 DEF tbmanVars
  <2>. QED BY <1>2, <2>1, HeldKept DEF DumpInv, TbmanOK
<1>4. Shape'
  BY <1>1 DEF DumpInv, Shape, dumpVars
<1>5. ASSUME NEW u \in Tools
      PROVE  /\ lines'[u] = lines[u] /\ shown'[u] = shown[u] /\ HeldOK(cache[u])'
  BY <1>1, <1>2, HeldKept DEF dumpVars
<1>6. DumpOK(t)'
  <2>1. pc'[t] \in {"find", "fetch"} /\ unread'[t] = Len(buffer') /\ Len(buffer') \in Nat
    BY <1>1, <1>2 DEF DumpInv, Shape, FilterInv, FilterType, ProgramType, Programs, BufferOK
  <2>2. lines'[t] = <<>> /\ shown'[t] = <<>>
    BY <1>1, <1>5 DEF DumpInv, DumpOK, PlaceOK, Reading, Handling, Asking
  <2>3. PlaceOK(t)'
    BY <1>5, <2>1, <2>2 DEF PlaceOK, Handling, Asking, Reading
  <2>. QED BY <2>2, <2>3 DEF DumpOK, FetchedOK, ShownOK, Ascending
<1>7. ASSUME NEW u \in Tools, u # t PROVE DumpOK(u)'
  <2>1. pc'[u] = pc[u] /\ unread'[u] = unread[u] /\ cache'[u] = cache[u] /\ buffer' = buffer
    BY <1>1, <1>7 DEF DumpInv, Shape, FilterInv, FilterType, ProgramType, Programs, dumpVars
  <2>2. DumpOK(u) /\ home' = home /\ traffic' = traffic
    BY <1>1 DEF DumpInv, busVars
  <2>3. PlaceOK(u)'
    BY <1>5, <2>1, <2>2 DEF DumpOK, PlaceOK, Found
  <2>4. FetchedOK(u)'
    BY <1>5, <2>1, <2>2 DEF DumpOK, FetchedOK, UnreadAt, Ascending, Counts, Printed
  <2>5. ShownOK(u)'
    BY <1>5, <2>1, <2>2 DEF DumpOK, ShownOK, UnreadAt, Counts, Printed
  <2>. QED BY <2>3, <2>4, <2>5 DEF DumpOK
<1>. QED BY <1>2, <1>3, <1>4, <1>6, <1>7 DEF DumpInv

\* A step of t that leaves alone what it has fetched and printed.
LEMMA LookStep ==
    ASSUME DumpInv, FilterInv', KernelKept, UNCHANGED <<busVars, tbmanVars, lines, shown>>,
           NEW t \in Tools, cache' = [cache EXCEPT ![t] = cache'[t]], HeldOK(cache[t])',
           NEW to \in Reading, pc' = [pc EXCEPT ![t] = to],
           pc[t] \in Reading, to \in Handling => pc[t] \in Handling,
           to \in Asking => /\ pc[t] \in Asking \/ Found(cache[t], Head(lines[t])) # {}
                            /\ DOMAIN cache'[t] = DOMAIN cache[t]
    PROVE  DumpInv'
<1>1. /\ lines' = [lines EXCEPT ![t] = lines[t]] /\ lines'[t] = lines[t]
      /\ shown' = [shown EXCEPT ![t] = shown[t]] /\ shown'[t] = shown[t]
      /\ pc'[t] = to
  BY DEF DumpInv, Shape, FilterInv, FilterType, ProgramType, Programs
<1>2. HomeOK' /\ \A p \in Places : home[p] \subseteq home'[p]
  BY DEF DumpInv, HomeOK, busVars
<1>3. DumpOK(t)'
  BY <1>1, <1>2, DumpKept
<1>. QED BY <1>1, <1>3, DumpProgress

LEMMA FindInv ==
    ASSUME DumpInv, FilterInv', NEW t \in Tools, FindDevices(t)
    PROVE  DumpInv'
<1>1. CASE EndDump(t)
  BY <1>1, EndDumpInv DEF FindDevices, kernelVars
<1>2. CASE ~EndDump(t)
  <2>1. /\ pc[t] = "find" /\ pc' = [pc EXCEPT ![t] = "fetch"]
        /\ cache' = [cache EXCEPT ![t] = [p \in {q \in Places : router[q] # Nothing} |-> Fresh]]
        /\ UNCHANGED <<buffer, unread, busVars, tbmanVars, lines, shown>>
    BY <1>2 DEF FindDevices, Goto, kernelVars
  <2>2. cache'[t] = [p \in {q \in Places : router[q] # Nothing} |-> Fresh]
    BY <2>1 DEF DumpInv, Shape
  <2>3. HeldOK(cache[t])'
    BY <2>2 DEF HeldOK, IsDevices, Fresh, Unread
  <2>4. KernelKept
    BY <2>1, KernelIdle DEF busVars
  <2>5. "fetch" \in Reading /\ "find" \in Reading /\ "fetch" \notin Handling /\ "fetch" \notin Asking
    BY DEF Reading, Handling, Asking
  <2>6. cache' = [cache EXCEPT ![t] = cache'[t]]
    BY <2>1, <2>2
  <2>. QED BY <2>1, <2>3, <2>4, <2>5, <2>6, LookStep
<1>. QED BY <1>1, <1>2

LEMMA LookupInv ==
    ASSUME DumpInv, FilterInv', NEW t \in Tools, Lookup(t)
    PROVE  DumpInv'
<1>1. /\ pc[t] = "entry" /\ UNCHANGED <<buffer, unread, busVars, tbmanVars, dumpVars>>
      /\ pc' = [pc EXCEPT ![t] =
                  IF Found(cache[t], Head(lines[t])) # {} THEN "regs" ELSE "show"]
  BY DEF Lookup, Goto, kernelVars
<1>2. KernelKept
  BY <1>1, KernelIdle DEF busVars
<1>3. cache' = cache /\ lines' = lines /\ shown' = shown /\ home' = home
  BY <1>1 DEF dumpVars, busVars
<1>4. cache' = [cache EXCEPT ![t] = cache'[t]]
  BY <1>3 DEF DumpInv, Shape
<1>5. HeldOK(cache[t])'
  BY <1>3, HeldKept
<1>6. /\ "entry" \in Handling /\ "entry" \in Reading
      /\ "regs" \in Reading /\ "show" \in Reading /\ "show" \notin Asking
  BY DEF Reading, Handling, Asking
<1>. QED BY <1>1, <1>2, <1>3, <1>4, <1>5, <1>6, LookStep

\* Reading registers, in each of the three steps.
LEMMA AskInv ==
    ASSUME DumpInv, FilterInv', NEW t \in Tools, NEW p \in DOMAIN cache[t], NEW part \in Parts,
           pc[t] \in Asking, UNCHANGED <<busVars, tbmanVars, lines, shown>>,
           NEW to \in {"adapters", "paths", "show"}, Goto(t, to),
           UNCHANGED cache \/ Hold(t, p, part),
           UNCHANGED <<buffer, unread>> \/ RecordOwn(p, part)
    PROVE  DumpInv'
<1>1. UNCHANGED <<traffic, home>> /\ p \in Places
  BY DEF busVars, DumpInv, DumpOK, PlaceOK, HeldOK, IsDevices
<1>2. KernelKept
  BY <1>1, KernelIdle, KernelOwn
<1>3. /\ cache' = [cache EXCEPT ![t] = cache'[t]]
      /\ HeldOK(cache[t])' /\ DOMAIN cache'[t] = DOMAIN cache[t]
  <2>1. CASE UNCHANGED cache
    <3>1. HeldOK(cache[t])'
      BY <1>1, <2>1, HeldKept
    <3>. QED BY <2>1, <3>1 DEF DumpInv, Shape
  <2>2. CASE Hold(t, p, part)
    BY <1>1, <2>2, HoldKeeps
  <2>. QED BY <2>1, <2>2
<1>4. pc' = [pc EXCEPT ![t] = to]
  BY DEF Goto
<1>5. to \in Reading /\ pc[t] \in Reading /\ pc[t] \in Handling
  BY DEF Reading, Handling, Asking
<1>. QED BY <1>2, <1>3, <1>4, <1>5, LookStep

LEMMA ReadInv ==
    ASSUME DumpInv, FilterInv', NEW t \in Tools,
           ReadRegisters(t) \/ ReadAdapters(t) \/ ReadPaths(t)
    PROVE  DumpInv'
<1> DEFINE p == TheDevice(t)
<1>1. pc[t] \in Asking
  BY DEF ReadRegisters, ReadAdapters, ReadPaths, Asking
<1>2. p \in DOMAIN cache[t]
  BY <1>1, DeviceThere
<1>3. {"regs", "adapters", "paths"} = Parts
  BY DEF Parts
<1> HIDE DEF p
<1>4. CASE ReadRegisters(t)
  <2>1. CASE EndDump(t) /\ UNCHANGED buffer
    BY <1>4, <2>1, EndDumpInv DEF ReadRegisters
  <2>2. CASE ~(EndDump(t) /\ UNCHANGED buffer)
    <3>1. /\ UNCHANGED <<busVars, tbmanVars, lines, shown>> /\ Goto(t, "adapters")
          /\ UNCHANGED cache \/ Hold(t, p, "regs")
          /\ UNCHANGED <<buffer, unread>> \/ RecordOwn(p, "regs")
      BY <1>4, <2>2 DEF ReadRegisters, dumpVars, p
    <3>. QED BY <1>1, <1>2, <1>3, <3>1, AskInv
  <2>. QED BY <2>1, <2>2
<1>5. CASE ReadAdapters(t)
  <2>1. CASE EndDump(t) /\ UNCHANGED buffer
    BY <1>5, <2>1, EndDumpInv DEF ReadAdapters
  <2>2. CASE ~(EndDump(t) /\ UNCHANGED buffer)
    <3>1. /\ UNCHANGED <<busVars, tbmanVars, lines, shown>> /\ Goto(t, "paths")
          /\ UNCHANGED cache \/ Hold(t, p, "adapters")
          /\ UNCHANGED <<buffer, unread>> \/ RecordOwn(p, "adapters")
      BY <1>5, <2>2 DEF ReadAdapters, p
    <3>. QED BY <1>1, <1>2, <1>3, <3>1, AskInv
  <2>. QED BY <2>1, <2>2
<1>6. CASE ReadPaths(t)
  <2>1. /\ UNCHANGED <<busVars, tbmanVars, lines, shown>> /\ Goto(t, "show")
        /\ UNCHANGED cache \/ Hold(t, p, "paths")
        /\ UNCHANGED <<buffer, unread>> \/ RecordOwn(p, "paths")
    BY <1>6 DEF ReadPaths, p
  <2>. QED BY <1>1, <1>2, <1>3, <2>1, AskInv
<1>. QED BY <1>4, <1>5, <1>6

\* The reader takes the next lines of the trace.
LEMMA FetchInv ==
    ASSUME DumpInv, FilterInv', NEW t \in Tools, Fetch(t)
    PROVE  DumpInv'
<1>1. CASE EndDump(t)
  BY <1>1, EndDumpInv DEF Fetch, kernelVars
<1>2. CASE ~EndDump(t)
  <2> DEFINE m == Len(buffer) - unread[t]
  <2>1. PICK n \in 1..unread[t] :
          /\ lines' = [lines EXCEPT ![t] = SubSeq(buffer, m + 1, m + n)]
          /\ unread' = [unread EXCEPT ![t] = unread[t] - n]
          /\ pc' = [pc EXCEPT ![t] = "entry"] /\ pc[t] = "fetch"
          /\ UNCHANGED <<buffer, busVars, cache, shown, tbmanVars>>
    BY <1>2 DEF Fetch, Goto, kernelVars
  <2> DEFINE q == SubSeq(buffer, m + 1, m + n)
  <2>2. /\ buffer \in Seq(Entry) /\ DOMAIN buffer = 1..Len(buffer) /\ Len(buffer) \in Nat
        /\ unread[t] \in 0..Len(buffer) /\ m \in Nat /\ n \in Nat /\ n >= 1
        /\ m + n <= Len(buffer) /\ UnreadAt(t) = (m + 1)..Len(buffer)
    BY DEF DumpInv, BufferOK, DumpOK, PlaceOK, UnreadAt
  <2>3. \A i \in DOMAIN buffer : buffer[i] \in Entry /\ buffer[i].id <= traffic
    BY <2>2, ElementOfSeq DEF DumpInv, BufferOK
  <2> HIDE DEF m
  <2>4. /\ q \in Seq(Entry) /\ Len(q) = n /\ DOMAIN q = 1..n
        /\ \A i \in 1..n : q[i] = buffer[m + i] /\ m + i \in DOMAIN buffer
    <3>1. \A i \in (m + 1)..(m + n) : buffer[i] \in Entry
      BY <2>2, <2>3
    <3>2. /\ m + 1 \in Int /\ m + n \in Int /\ m + 1 <= m + n
          /\ (m + n) - (m + 1) + 1 = n
      BY <2>2
    <3>3. /\ q \in Seq(Entry) /\ Len(q) = n
          /\ \A i \in 1..n : q[i] = buffer[(m + 1) + i - 1]
      BY <3>1, <3>2, SubSeqProperties
    <3>4. \A i \in 1..n : (m + 1) + i - 1 = m + i /\ m + i \in DOMAIN buffer
      BY <2>2
    <3>5. DOMAIN q = 1..n
      BY <3>3
    <3>. QED BY <3>3, <3>4, <3>5
  <2> HIDE DEF q
  <2>5. /\ lines' = [lines EXCEPT ![t] = q] /\ lines'[t] = q
        /\ unread'[t] = unread[t] - n /\ pc'[t] = "entry"
        /\ cache'[t] = cache[t] /\ shown'[t] = shown[t] /\ buffer' = buffer
        /\ home' = home /\ traffic' = traffic
    BY <2>1 DEF q, m, DumpInv, Shape, FilterInv, FilterType, ProgramType, Programs, busVars
  <2>6. UnreadAt(t)' = (m + n + 1)..Len(buffer)
    BY <2>2, <2>5 DEF UnreadAt, m
  <2>7. KernelKept
    <3>1. unread[t] - n \in 0..unread[t]
      BY <2>2
    <3>. QED BY <2>1, <2>5, <3>1, KernelFetched
  <2>8. PlaceOK(t)'
    <3>1. HeldOK(cache[t])'
      BY <2>5, HeldKept
    <3>2. q # <<>>
      BY <2>2, <2>4
    <3>. QED BY <2>2, <2>4, <2>5, <3>1, <3>2 DEF PlaceOK, Handling, Asking, Reading
  <2>9. FetchedOK(t)'
    <3>1. ASSUME NEW i \in DOMAIN q, NEW j \in DOMAIN q, i < j, Counts(q[i]), Counts(q[j])
          PROVE  q[i].id < q[j].id
      <4>1. m + i < m + j
        BY <2>2, <2>4, <3>1
      <4>. QED BY <2>4, <3>1, <4>1 DEF DumpInv, BufferOK, Ascending
    <3>2. ASSUME NEW i \in DOMAIN q, NEW k \in UnreadAt(t)', Counts(q[i]), Counts(buffer[k])
          PROVE  q[i].id < buffer[k].id
      <4>1. m + i < k /\ k \in DOMAIN buffer
        BY <2>2, <2>4, <2>6, <3>2
      <4>. QED BY <2>4, <3>2, <4>1 DEF DumpInv, BufferOK, Ascending
    <3>3. \A i \in DOMAIN q : q[i].id <= traffic
      BY <2>3, <2>4
    <3>. QED BY <2>5, <3>1, <3>2, <3>3 DEF FetchedOK, Ascending, Counts, Printed
  <2>10. ShownOK(t)'
    <3>1. ShownOK(t)
      BY DEF DumpInv, DumpOK
    <3>2. \A k \in DOMAIN q : m + k \in UnreadAt(t)
      BY <2>2, <2>4
    <3>3. \A k \in UnreadAt(t)' : k \in UnreadAt(t)
      BY <2>2, <2>6
    <3>4. ASSUME NEW i \in DOMAIN shown[t], NEW k \in DOMAIN q, Counts(q[k])
          PROVE  shown[t][i].id < q[k].id
      BY <2>4, <3>1, <3>2, <3>4 DEF ShownOK
    <3>5. ASSUME NEW i \in DOMAIN shown[t], NEW k \in UnreadAt(t)', Counts(buffer[k])
          PROVE  shown[t][i].id < buffer[k].id
      BY <3>1, <3>3, <3>5 DEF ShownOK
    <3>. QED BY <2>5, <3>1, <3>4, <3>5 DEF ShownOK, Counts, Printed
  <2>11. cache' = [cache EXCEPT ![t] = cache[t]] /\ shown' = [shown EXCEPT ![t] = shown[t]]
    BY <2>1 DEF DumpInv, Shape
  <2>. QED BY <2>1, <2>5, <2>7, <2>8, <2>9, <2>10, <2>11, DumpProgress DEF DumpOK
<1>. QED BY <1>1, <1>2

\* The names of a packet are those of a router that was where it is from.
LEMMA NamesThere ==
    ASSUME NEW devices, HeldOK(devices), NEW e \in Entry
    PROVE  /\ Names(devices, e) \in {Unread, Nothing} \union home[e.place]
           /\ Names(devices, e) \in Nat
<1>1. e.place \in Places /\ e.payload.part \in Parts
  BY DEF Entry, Payload, Config, Parts
<1>2. CASE Found(devices, e) = {}
  BY <1>2 DEF Names, Unread
<1>3. ASSUME Found(devices, e) # {} PROVE Found(devices, e) = {e.place}
  BY <1>1, <1>3, ConstantsAssumption DEF Found, HeldOK, IsDevices
<1>4. CASE Found(devices, e) # {}
  <2>1. (CHOOSE p \in Found(devices, e) : TRUE) = e.place /\ e.place \in DOMAIN devices
    BY <1>3, <1>4 DEF Found
  <2>2. /\ devices[e.place][e.payload.part] \in {Unread, Nothing} \union home[e.place]
        /\ devices[e.place][e.payload.part] \in Nat
    BY <1>1, <2>1 DEF HeldOK, IsDevices
  <2>. QED BY <1>4, <2>1, <2>2 DEF Names, Unread
<1>. QED BY <1>2, <1>4

\* An entry is printed, or skipped.
LEMMA PrintInv ==
    ASSUME DumpInv, FilterInv', NEW t \in Tools, PrintEntry(t)
    PROVE  DumpInv'
<1> DEFINE e == Head(lines[t])
           l == Tail(lines[t])
           x == [id |-> e.id, place |-> e.place, names |-> Names(cache[t], e)]
           s == IF Counts(e) THEN Append(shown[t], x) ELSE shown[t]
           to == IF l = <<>> THEN "fetch" ELSE "entry"
<1>1. /\ PlaceOK(t) /\ FetchedOK(t) /\ ShownOK(t) /\ traffic \in Nat
      /\ lines[t] \in Seq(Entry) /\ shown[t] \in Seq(Line) /\ HeldOK(cache[t])
  BY DEF DumpInv, BufferOK, DumpOK, PlaceOK, ShownOK
<1>2. pc[t] = "show" /\ lines[t] # <<>>
  BY <1>1 DEF PrintEntry, PlaceOK, Handling
<1>3. /\ lines' = [lines EXCEPT ![t] = l] /\ shown' = [shown EXCEPT ![t] = s]
      /\ pc' = [pc EXCEPT ![t] = to]
      /\ UNCHANGED <<buffer, unread, busVars, cache, tbmanVars>>
  BY DEF PrintEntry, Goto, kernelVars, Counts, DumpInv, Shape
<1>4. /\ lines'[t] = l /\ shown'[t] = s /\ pc'[t] = to /\ cache'[t] = cache[t]
      /\ unread'[t] = unread[t] /\ buffer' = buffer /\ home' = home /\ traffic' = traffic
      /\ UnreadAt(t)' = UnreadAt(t)
  BY <1>3 DEF DumpInv, Shape, FilterInv, FilterType, ProgramType, Programs, busVars, UnreadAt
<1>5. /\ e \in Entry /\ e = lines[t][1] /\ l \in Seq(Entry)
      /\ 1 \in DOMAIN lines[t] /\ \A i \in DOMAIN l : l[i] = lines[t][i + 1]
      /\ \A i \in DOMAIN l : i + 1 \in DOMAIN lines[t] /\ 1 < i + 1
  <2>1. Len(lines[t]) \in Nat /\ DOMAIN lines[t] = 1..Len(lines[t]) /\ Len(lines[t]) # 0
    BY <1>1, <1>2
  <2>2. /\ e \in Entry /\ l \in Seq(Entry) /\ Len(l) = Len(lines[t]) - 1
        /\ \A i \in 1..Len(l) : l[i] = lines[t][i + 1]
    BY <1>1, <1>2, HeadTailProperties
  <2>3. DOMAIN l = 1..Len(l)
    BY <2>2
  <2>4. e = lines[t][1]
    BY <1>1, <1>2
  <2>. QED BY <2>1, <2>2, <2>3, <2>4
<1>6. x \in Line /\ x.names \in {Unread, Nothing} \union home[x.place]
  <2>1. /\ Names(cache[t], e) \in {Unread, Nothing} \union home[e.place]
        /\ Names(cache[t], e) \in Nat
    BY <1>1, <1>5, NamesThere
  <2>. QED BY <1>5, <2>1 DEF Line, Entry
<1> HIDE DEF e, l
<1>7. KernelKept
  BY <1>3, KernelIdle DEF busVars
<1>8. PlaceOK(t)'
  <2>1. HeldOK(cache[t])'
    BY <1>4, HeldKept
  <2>2. /\ pc'[t] \in Reading /\ pc'[t] \notin Asking
        /\ pc'[t] \in Handling => lines'[t] # <<>>
    BY <1>4 DEF Reading, Handling, Asking
  <2>. QED BY <1>1, <1>4, <1>5, <2>1, <2>2 DEF PlaceOK
<1>9. FetchedOK(t)'
  <2>1. ASSUME NEW i \in DOMAIN l, NEW j \in DOMAIN l, i < j, Counts(l[i]), Counts(l[j])
        PROVE  l[i].id < l[j].id
    <3>1. i + 1 < j + 1
      BY <1>5, <2>1
    <3>. QED BY <1>1, <1>5, <2>1, <3>1 DEF FetchedOK, Ascending
  <2>2. ASSUME NEW i \in DOMAIN l
        PROVE  /\ l[i].id <= traffic
               /\ \A k \in UnreadAt(t) :
                    Counts(l[i]) /\ Counts(buffer[k]) => l[i].id < buffer[k].id
    BY <1>1, <1>5 DEF FetchedOK
  <2>. QED BY <1>4, <2>1, <2>2 DEF FetchedOK, Ascending, Counts, Printed
<1>10. ShownOK(t)'
  <2> DEFINE Fits(y) ==
        /\ y.id <= traffic
        /\ \A k \in DOMAIN l : Counts(l[k]) => y.id < l[k].id
        /\ \A k \in UnreadAt(t) : Counts(buffer[k]) => y.id < buffer[k].id
        /\ y.names \in {Unread, Nothing} \union home[y.place]
  <2>1. \A i \in DOMAIN shown[t] :
          /\ Fits(shown[t][i])
          /\ \A j \in 1..(i - 1) : shown[t][j].id < shown[t][i].id
    BY <1>1, <1>5 DEF ShownOK
  <2>2. CASE ~Counts(e)
    BY <1>1, <1>4, <2>1, <2>2 DEF ShownOK, Counts, Printed
  <2>3. CASE Counts(e)
    <3>1. x.id = e.id
      OBVIOUS
    <3>2. \A i \in DOMAIN shown[t] : shown[t][i].id < x.id
      BY <1>1, <1>5, <2>3 DEF ShownOK
    <3>3. Fits(x)
      <4>1. e.id <= traffic /\ \A k \in UnreadAt(t) : Counts(buffer[k]) => e.id < buffer[k].id
        BY <1>1, <1>5, <2>3 DEF FetchedOK
      <4>2. ASSUME NEW k \in DOMAIN l, Counts(l[k]) PROVE e.id < l[k].id
        BY <1>1, <1>5, <2>3, <4>2 DEF FetchedOK, Ascending
      <4>. QED BY <1>6, <3>1, <4>1, <4>2
    <3> HIDE DEF x
    <3>4. /\ s \in Seq(Line) /\ DOMAIN s = 1..(Len(shown[t]) + 1)
          /\ \A i \in 1..Len(shown[t]) : s[i] = shown[t][i]
          /\ s[Len(shown[t]) + 1] = x
          /\ Len(shown[t]) \in Nat /\ DOMAIN shown[t] = 1..Len(shown[t])
      <4>1. Len(shown[t]) \in Nat /\ DOMAIN shown[t] = 1..Len(shown[t])
        BY <1>1
      <4>2. /\ s \in Seq(Line) /\ Len(s) = Len(shown[t]) + 1
            /\ \A i \in 1..Len(shown[t]) : s[i] = shown[t][i]
            /\ s[Len(shown[t]) + 1] = x
        BY <1>1, <1>6, <2>3, AppendProperties
      <4>. QED BY <4>1, <4>2
    <3> HIDE DEF s
    <3>5. ASSUME NEW i \in DOMAIN s
          PROVE  Fits(s[i]) /\ \A j \in 1..(i - 1) : s[j].id < s[i].id
      <4>1. CASE i \in DOMAIN shown[t]
        <5>1. s[i] = shown[t][i] /\ \A j \in 1..(i - 1) : s[j] = shown[t][j]
          BY <3>4, <4>1
        <5>2. Fits(s[i])
          BY <2>1, <4>1, <5>1
        <5>3. \A j \in 1..(i - 1) : shown[t][j].id < shown[t][i].id
          BY <2>1, <4>1
        <5>. QED BY <5>1, <5>2, <5>3
      <4>2. CASE i = Len(shown[t]) + 1
        BY <3>2, <3>3, <3>4, <4>2
      <4>. QED BY <3>4, <4>1, <4>2
    <3>. QED BY <1>4, <3>4, <3>5 DEF ShownOK, Counts, Printed
  <2>. QED BY <2>2, <2>3
<1>11. cache' = [cache EXCEPT ![t] = cache[t]]
  BY <1>3 DEF DumpInv, Shape
<1> HIDE DEF s, to
<1>. QED BY <1>3, <1>7, <1>8, <1>9, <1>10, <1>11, DumpProgress DEF DumpOK

-----------------------------------------------------------------------------
\* A step that changes neither the routers, nor what tbman holds, nor a dump.
LEMMA CalmStep ==
    ASSUME DumpInv, FilterInv', KernelKept, UNCHANGED <<router, home, dumpVars, tbmanVars>>,
           \A t \in Tools : pc'[t] = pc[t] \/ (pc[t] \notin Reading /\ pc'[t] \notin Reading)
    PROVE  DumpInv'
<1>1. HomeOK' /\ \A p \in Places : home[p] \subseteq home'[p]
  BY DEF DumpInv, HomeOK
<1>2. TbmanOK'
  <2>1. uevents' = uevents /\ entries' = entries /\ listed' = listed
    BY DEF tbmanVars
  <2>. QED BY <1>1, <2>1, HeldKept DEF DumpInv, TbmanOK
<1>. QED BY <1>1, <1>2, QuietStep

LEMMA UnchangedInv ==
    ASSUME DumpInv, FilterInv', UNCHANGED vars
    PROVE  DumpInv'
<1>1. UNCHANGED <<buffer, unread, traffic, router, home, dumpVars, tbmanVars, pc>>
  BY DEF vars, kernelVars, busVars
<1>2. KernelKept
  BY <1>1, KernelIdle
<1>. QED BY <1>1, <1>2, CalmStep

\* Packets, and routers that come and go.
LEMMA BusInv ==
    ASSUME DumpInv, FilterInv', NEW p \in Places,
           Packet(p) \/ Plug(p) \/ Unplug(p) \/ UpdateList(p)
    PROVE  DumpInv'
<1>1. CASE Packet(p)
  <2>1. KernelKept
    BY <1>1, KernelPacket
  <2>2. UNCHANGED <<router, home, pc, dumpVars, tbmanVars>>
    BY <1>1 DEF Packet
  <2>. QED BY <2>1, <2>2, CalmStep
<1>2. CASE Plug(p)
  <2>1. PICK r \in Routers :
          /\ router' = [router EXCEPT ![p] = r]
          /\ home' = [home EXCEPT ![p] = home[p] \union {r}]
          /\ UNCHANGED <<buffer, unread, traffic, pc, dumpVars, entries, listed>>
          /\ uevents' = uevents \union {p}
    BY <1>2 DEF Plug, kernelVars
  <2>2. r \in Nat
    BY DEF Routers
  <2>3. HomeOK' /\ \A q \in Places : home[q] \subseteq home'[q]
    BY <2>1, <2>2 DEF DumpInv, HomeOK
  <2>4. TbmanOK'
    BY <2>1, <2>3, HeldKept DEF DumpInv, TbmanOK
  <2>6. KernelKept
    BY <2>1, KernelIdle
  <2>. QED BY <2>1, <2>3, <2>4, <2>6, QuietStep
<1>3. CASE Unplug(p)
  <2>1. /\ router' = [router EXCEPT ![p] = Nothing]
        /\ UNCHANGED <<home, buffer, unread, traffic, pc, dumpVars, entries, listed>>
        /\ uevents' = uevents \union {p}
    BY <1>3 DEF Unplug, kernelVars
  <2>2. HomeOK' /\ \A q \in Places : home[q] \subseteq home'[q]
    BY <2>1 DEF DumpInv, HomeOK, Nothing
  <2>3. TbmanOK'
    BY <2>1, <2>2, HeldKept DEF DumpInv, TbmanOK
  <2>6. KernelKept
    BY <2>1, KernelIdle
  <2>. QED BY <2>1, <2>2, <2>3, <2>6, QuietStep
<1>4. CASE UpdateList(p)
  <2>1. UNCHANGED <<buffer, unread, traffic, router, home, pc, dumpVars, entries>>
    BY <1>4 DEF UpdateList, kernelVars, busVars
  <2>2. HomeOK' /\ \A q \in Places : home[q] \subseteq home'[q]
    BY <2>1 DEF DumpInv, HomeOK
  <2>3. HeldOK(listed) /\ HeldOK(listed')
    <3>1. HeldOK(listed)
      BY DEF DumpInv, TbmanOK
    <3>2. CASE listed' = [q \in DOMAIN listed \ {p} |-> listed[q]]
      BY <3>1, <3>2 DEF HeldOK, IsDevices
    <3>3. CASE listed' = [q \in DOMAIN listed \union {p} |->
                             IF q = p THEN Fresh ELSE listed[q]]
      BY <3>1, <3>3 DEF HeldOK, IsDevices, Fresh, Unread
    <3>. QED BY <1>4, <3>1, <3>2, <3>3 DEF UpdateList
  <2>4. HeldOK(listed)'
    BY <2>1, <2>3 DEF HeldOK, IsDevices
  <2>5. TbmanOK'
    BY <1>4, <2>1, <2>4 DEF DumpInv, TbmanOK, UpdateList
  <2>6. KernelKept
    BY <2>1, KernelIdle
  <2>. QED BY <2>1, <2>2, <2>5, <2>6, QuietStep
<1>. QED BY <1>1, <1>2, <1>3, <1>4

\* Commands that have nothing to do with a dump.
LEMMA CommandInv ==
    ASSUME DumpInv, FilterInv',
           \/ \E t \in Tools : \/ \E d \in Domains \union {All} : StartEnable(t, d)
                               \/ StartDisable(t) \/ Clear(t)
           \/ \E t \in Programs : EnableStep(t)
           \/ EnableTrace
    PROVE  DumpInv'
<1>1. /\ UNCHANGED <<router, home, traffic, dumpVars, tbmanVars>>
      /\ UNCHANGED <<buffer, unread>> \/ Emptied
      /\ \E t \in Programs, to \in Enabling \union {"idle", "disable"} :
            /\ pc' = [pc EXCEPT ![t] = to]
            /\ pc[t] \in Enabling \union {"idle", "disable"}
  <2>1. ASSUME NEW t \in Tools, NEW d \in Domains \union {All}, StartEnable(t, d) PROVE <1>1
    BY <2>1 DEF StartEnable, Start, Goto, kernelVars, busVars, Enabling, Programs
  <2>2. ASSUME NEW t \in Tools, StartDisable(t) \/ Clear(t) PROVE <1>1
    BY <2>2 DEF StartDisable, Clear, Start, Goto, kernelVars, busVars, Programs
  <2>3. ASSUME NEW t \in Programs, EnableStep(t) PROVE <1>1
    BY <2>3 DEF EnableStep, AddFilter, SetCurrentTracer, SetTraceClock, DoEnable, Goto,
                kernelVars, busVars, Enabling
  <2>4. ASSUME EnableTrace PROVE <1>1
    BY <2>4 DEF EnableTrace, Start, Goto, kernelVars, busVars, Enabling, Programs
  <2>. QED BY <2>1, <2>2, <2>3, <2>4
<1>2. \A to \in Enabling \union {"idle", "disable"} : to \notin Reading
  BY DEF Enabling, Reading, Handling, Asking
<1>3. ASSUME NEW t \in Tools
      PROVE  pc'[t] = pc[t] \/ (pc[t] \notin Reading /\ pc'[t] \notin Reading)
  <2>1. DOMAIN pc = Programs /\ t \in Programs
    BY DEF DumpInv, FilterInv, FilterType, ProgramType, Programs
  <2>. QED BY <1>1, <1>2, <2>1
<1>4. KernelKept
  BY <1>1, KernelIdle, KernelEmptied
<1>. QED BY <1>1, <1>3, <1>4, CalmStep

\* The trace dialog of tbman.
LEMMA DialogInv ==
    ASSUME DumpInv, FilterInv', ReadEntries \/ ClearTrace \/ ViewPacket
    PROVE  DumpInv'
<1>1. /\ UNCHANGED <<router, home, traffic, dumpVars, uevents>>
      /\ pc' = [pc EXCEPT ![Tbman] = "idle"]
  BY DEF ReadEntries, ClearTrace, ViewPacket, TbmanCommand, Start, Goto, busVars
<1>2. \A t \in Tools : pc'[t] = pc[t]
  BY <1>1, ConstantsAssumption DEF DumpInv, FilterInv, FilterType, ProgramType, Programs
<1>3. HomeOK' /\ \A p \in Places : home[p] \subseteq home'[p]
  BY <1>1 DEF DumpInv, HomeOK
<1>4. TbmanOK /\ HeldOK(listed)
  BY DEF DumpInv, TbmanOK
<1>5. /\ KernelKept /\ entries' \in Seq(Entry) /\ HeldOK(listed)'
  <2>1. CASE ReadEntries
    <3>1. entries' = buffer /\ UNCHANGED <<buffer, unread, listed>>
      BY <2>1 DEF ReadEntries
    <3>. QED BY <1>1, <1>3, <3>1, KernelIdle, HeldKept DEF DumpInv, BufferOK
  <2>2. CASE ClearTrace
    <3>1. Emptied /\ entries' = <<>> /\ UNCHANGED listed
      BY <2>2 DEF ClearTrace
    <3>. QED BY <1>1, <1>3, <3>1, KernelEmptied, HeldKept
  <2>3. CASE ViewPacket
    <3>1. PICK e \in ToSet(entries) :
            /\ listed' = [p \in DOMAIN listed |-> IF p \in Found(listed, e)
                                                  THEN Fetched(listed[p], router[p], e)
                                                  ELSE listed[p]]
            /\ RecordOwn(e.place, "regs") \/ UNCHANGED <<buffer, unread>>
            /\ entries' = entries
      BY <2>3 DEF ViewPacket
    <3>2. e.place \in Places
      <4>1. PICK i \in DOMAIN entries : e = entries[i]
        BY DEF ToSet
      <4>2. e \in Entry
        BY <1>4, <4>1, ElementOfSeq DEF TbmanOK
      <4>. QED BY <4>2 DEF Entry
    <3>3. KernelKept
      BY <1>1, <3>1, <3>2, KernelIdle, KernelOwn DEF Parts
    <3>4. ASSUME NEW p \in DOMAIN listed
          PROVE  /\ Fetched(listed[p], router[p], e) \in [Parts -> Nat]
                 /\ \A part \in Parts : Fetched(listed[p], router[p], e)[part]
                                           \in {Unread, Nothing} \union home[p]
      <4>1. /\ p \in Places /\ listed[p] \in [Parts -> Nat]
            /\ \A part \in Parts : listed[p][part] \in {Unread, Nothing} \union home[p]
        BY <1>4 DEF HeldOK, IsDevices
      <4>2. router[p] \in Nat /\ router[p] \in {Nothing} \union home[p]
        BY <4>1 DEF DumpInv, HomeOK
      <4>. QED BY <4>1, <4>2 DEF Fetched, Unread, Nothing
    <3>5. HeldOK(listed')
      <4>1. /\ DOMAIN listed' = DOMAIN listed /\ listed' = [p \in DOMAIN listed |-> listed'[p]]
            /\ \A p \in DOMAIN listed :
                 listed'[p] = IF p \in Found(listed, e)
                              THEN Fetched(listed[p], router[p], e) ELSE listed[p]
        BY <3>1
      <4>2. \A p \in DOMAIN listed :
              /\ listed'[p] \in [Parts -> Nat]
              /\ \A part \in Parts : listed'[p][part] \in {Unread, Nothing} \union home[p]
        BY <1>4, <3>4, <4>1 DEF HeldOK, IsDevices
      <4>. QED BY <1>4, <4>1, <4>2 DEF HeldOK, IsDevices
    <3>6. HeldOK(listed)'
      BY <1>1, <3>5 DEF HeldOK, IsDevices
    <3>. QED BY <1>4, <3>1, <3>3, <3>6 DEF TbmanOK
  <2>. QED BY <2>1, <2>2, <2>3
<1>6. TbmanOK'
  BY <1>1, <1>4, <1>5 DEF TbmanOK
<1>7. UNCHANGED dumpVars
  BY <1>1
<1>. QED BY <1>2, <1>3, <1>5, <1>6, <1>7, QuietStep

LEMMA DumpInit == Init => DumpInv
<1> SUFFICES ASSUME Init PROVE DumpInv
  OBVIOUS
<1>1. BufferOK
  BY ConstantsAssumption DEF Init, BufferOK, Ascending
<1>2. HomeOK
  BY DEF Init, HomeOK, Nothing
<1>3. Shape
  BY DEF Init, Shape
<1>4. TbmanOK
  BY DEF Init, TbmanOK, HeldOK, IsDevices
<1>5. ASSUME NEW t \in Tools PROVE DumpOK(t)
  <2>1. /\ unread[t] = 0 /\ lines[t] = <<>> /\ cache[t] = <<>> /\ shown[t] = <<>>
        /\ pc[t] = "idle" /\ buffer = <<>>
    BY <1>5 DEF Init, Programs
  <2>. QED BY <2>1 DEF DumpOK, PlaceOK, FetchedOK, ShownOK, HeldOK, IsDevices, Ascending,
                       Reading, Handling, Asking
<1>. QED BY <1>1, <1>2, <1>3, <1>4, <1>5, FilterInit DEF DumpInv

LEMMA DumpNext == DumpInv /\ [Next]_vars => DumpInv'
<1> SUFFICES ASSUME DumpInv, [Next]_vars PROVE DumpInv'
  OBVIOUS
<1>1. FilterInv'
  <2>1. FilterInv
    BY DEF DumpInv
  <2>. QED BY <2>1, FilterDump, FilterOther, FilterStart, FilterEnable DEF Next
<1>2. ASSUME NEW p \in Places, Packet(p) \/ Plug(p) \/ Unplug(p) \/ UpdateList(p)
      PROVE  DumpInv'
  BY <1>1, <1>2, BusInv
<1>3. ASSUME NEW t \in Tools, \/ \E d \in Domains \union {All} : StartEnable(t, d)
                              \/ StartDisable(t) \/ Clear(t)
      PROVE  DumpInv'
  BY <1>1, <1>3, CommandInv
<1>4. ASSUME NEW t \in Tools, StartDump(t) \/ DumpStep(t) PROVE DumpInv'
  BY <1>1, <1>4, StartDumpInv, FindInv, FetchInv, LookupInv, ReadInv, PrintInv DEF DumpStep
<1>5. ASSUME NEW t \in Programs, EnableStep(t) PROVE DumpInv'
  BY <1>1, <1>5, CommandInv
<1>6. ASSUME EnableTrace PROVE DumpInv'
  BY <1>1, <1>6, CommandInv
<1>7. ASSUME ReadEntries \/ ClearTrace \/ ViewPacket PROVE DumpInv'
  BY <1>1, <1>7, DialogInv
<1>8. ASSUME UNCHANGED vars PROVE DumpInv'
  BY <1>1, <1>8, UnchangedInv
<1>. QED BY <1>2, <1>3, <1>4, <1>5, <1>6, <1>7, <1>8 DEF Next

\* No dump has more to fetch than there is, handles an entry it has not fetched
\* or reads a router it has not found.
THEOREM TypeCorrect == Spec => []TypeOK
<1>1. DumpInv => TypeOK
  <2> SUFFICES ASSUME DumpInv PROVE TypeOK
    OBVIOUS
  <2>1. KernelType /\ ProgramType
    BY DEF DumpInv, FilterInv, FilterType, BufferOK, HomeOK, KernelType
  <2>2. DumpType
    <3>1. ASSUME NEW t \in Tools
          PROVE  /\ unread[t] \in 0..Len(buffer) /\ lines[t] \in Seq(Entry)
                 /\ IsDevices(cache[t]) /\ shown[t] \in Seq(Line)
                 /\ pc[t] \in Handling => lines[t] # <<>>
                 /\ pc[t] \in Asking => Found(cache[t], Head(lines[t])) # {}
      BY DEF DumpInv, DumpOK, PlaceOK, ShownOK, HeldOK
    <3>2. Shape
      BY DEF DumpInv
    <3>. QED BY <3>1, <3>2 DEF DumpType, Shape
  <2>3. TbmanType
    BY DEF DumpInv, TbmanOK, TbmanType, HeldOK
  <2>. QED BY <2>1, <2>2, <2>3 DEF TypeOK
<1>. QED BY DumpInit, DumpNext, <1>1, PTL DEF Spec

\* tbtrace dump: the packets are printed in the order they were sent and none
\* twice, however the buffer runs over and whoever empties it meanwhile.
THEOREM DumpsInOrder == Spec => []ShownInOrder
<1>1. DumpInv => ShownInOrder
  <2> SUFFICES ASSUME DumpInv, NEW t \in Tools, NEW i \in DOMAIN shown[t],
                      NEW j \in DOMAIN shown[t], i < j
               PROVE  shown[t][i].id < shown[t][j].id
    BY DEF ShownInOrder
  <2>1. shown[t] \in Seq(Line) /\ \A k \in 1..(j - 1) : shown[t][k].id < shown[t][j].id
    BY DEF DumpInv, DumpOK, ShownOK
  <2>2. i \in Nat /\ j \in Nat /\ i >= 1
    BY <2>1
  <2>3. i \in 1..(j - 1)
    BY <2>2
  <2>. QED BY <2>1, <2>3
<1>. QED BY DumpInit, DumpNext, <1>1, PTL DEF Spec

-----------------------------------------------------------------------------
(***************************************************************************)
(* Names in tbman. A router that is replaced is among the changes tbman    *)
(* has yet to see; when it sees them it forgets what it has read.          *)
(***************************************************************************)
ListedUpToDate ==
    \A p \in DOMAIN listed \ uevents : \A part \in Parts :
        listed[p][part] \in {Unread, router[p]}

UpToDateInv == DumpInv /\ ListedUpToDate

LEMMA UpToDateNext == UpToDateInv /\ [Next]_vars => UpToDateInv'
<1> SUFFICES ASSUME UpToDateInv, [Next]_vars PROVE UpToDateInv'
  OBVIOUS
<1>1. DumpInv /\ DumpInv'
  BY DumpNext DEF UpToDateInv
<1>2. ASSUME UNCHANGED <<router, uevents, listed>> PROVE ListedUpToDate'
  BY <1>2 DEF UpToDateInv, ListedUpToDate
<1>3. ASSUME NEW p \in Places, Packet(p) \/ Plug(p) \/ Unplug(p) \/ UpdateList(p)
      PROVE  ListedUpToDate'
  <2>1. CASE Packet(p)
    BY <1>2, <2>1 DEF Packet, tbmanVars
  <2>2. CASE Plug(p) \/ Unplug(p)
    <3>1. /\ uevents' = uevents \union {p} /\ listed' = listed
          /\ \E r : router' = [router EXCEPT ![p] = r]
      BY <2>2 DEF Plug, Unplug
    <3>2. \A q \in DOMAIN listed \ uevents' : q \in Places /\ router'[q] = router[q]
      BY <1>1, <3>1 DEF DumpInv, TbmanOK, HeldOK, IsDevices, HomeOK
    <3>. QED BY <3>1, <3>2 DEF UpToDateInv, ListedUpToDate
  <2>3. CASE UpdateList(p)
    <3>1. router' = router /\ uevents' = uevents \ {p}
      BY <2>3 DEF UpdateList, busVars
    <3>2. \A q \in DOMAIN listed' : \/ q \in DOMAIN listed \ {p} /\ listed'[q] = listed[q]
                                   \/ listed'[q] = Fresh
      BY <2>3 DEF UpdateList
    <3>. QED BY <3>1, <3>2 DEF UpToDateInv, ListedUpToDate, Fresh
  <2>. QED BY <1>3, <2>1, <2>2, <2>3
<1>4. ASSUME NEW t \in Tools, \/ \E d \in Domains \union {All} : StartEnable(t, d)
                              \/ StartDisable(t) \/ Clear(t) \/ StartDump(t)
      PROVE  ListedUpToDate'
  BY <1>2, <1>4 DEF StartEnable, StartDisable, Clear, StartDump, busVars, tbmanVars
<1>5. ASSUME NEW t \in Tools, DumpStep(t) PROVE ListedUpToDate'
  BY <1>2, <1>5 DEF DumpStep, FindDevices, Fetch, Lookup, ReadRegisters, ReadAdapters,
                    ReadPaths, PrintEntry, busVars, tbmanVars
<1>6. ASSUME NEW t \in Programs, EnableStep(t) PROVE ListedUpToDate'
  BY <1>2, <1>6 DEF EnableStep, AddFilter, SetCurrentTracer, SetTraceClock, DoEnable,
                    busVars, tbmanVars
<1>7. ASSUME EnableTrace \/ ReadEntries \/ ClearTrace PROVE ListedUpToDate'
  BY <1>2, <1>7 DEF EnableTrace, ReadEntries, ClearTrace, TbmanCommand, busVars, tbmanVars
<1>8. ASSUME ViewPacket PROVE ListedUpToDate'
  <2>1. PICK e \in ToSet(entries) :
          listed' = [p \in DOMAIN listed |-> IF p \in Found(listed, e)
                                            THEN Fetched(listed[p], router[p], e)
                                            ELSE listed[p]]
    BY <1>8 DEF ViewPacket
  <2>2. UNCHANGED <<router, uevents>>
    BY <1>8 DEF ViewPacket, TbmanCommand, busVars
  <2>3. ASSUME NEW p \in DOMAIN listed \ uevents, NEW part \in Parts
        PROVE  Fetched(listed[p], router[p], e)[part] \in {Unread, router[p]}
    BY <2>3 DEF Fetched, UpToDateInv, ListedUpToDate
  <2>. QED BY <2>1, <2>2, <2>3 DEF UpToDateInv, ListedUpToDate
<1>9. ASSUME UNCHANGED vars PROVE ListedUpToDate'
  BY <1>2, <1>9 DEF vars, busVars, tbmanVars
<1>. QED BY <1>1, <1>3, <1>4, <1>5, <1>6, <1>7, <1>8, <1>9 DEF Next, UpToDateInv

\* tbtrace dump and the dialog of tbman: the names of a packet's registers are
\* those of a router at its own place, of its own domain; and once tbman has seen
\* that a router was replaced, not those of the router before.
THEOREM NamesOfRouters == Spec => []NamesOfRouter
<1>1. Init => UpToDateInv
  BY DumpInit DEF Init, UpToDateInv, ListedUpToDate
<1>2. UpToDateInv => NamesOfRouter
  <2> SUFFICES ASSUME UpToDateInv PROVE NamesOfRouter
    OBVIOUS
  <2>1. ASSUME NEW t \in Tools, NEW i \in DOMAIN shown[t]
        PROVE  shown[t][i].names \in {Unread, Nothing} \union home[shown[t][i].place]
    BY DEF UpToDateInv, DumpInv, DumpOK, ShownOK
  <2>2. ASSUME NEW i \in DOMAIN entries
        PROVE  Names(listed, entries[i]) \in {Unread, Nothing} \union home[entries[i].place]
    <3>1. entries[i] \in Entry /\ HeldOK(listed)
      BY ElementOfSeq DEF UpToDateInv, DumpInv, TbmanOK
    <3>. QED BY <3>1, NamesThere
  <2>3. ASSUME NEW i \in DOMAIN entries, entries[i].place \notin uevents
        PROVE  Names(listed, entries[i]) \in {Unread, router[entries[i].place]}
    <3> DEFINE e == entries[i]
    <3>1. e \in Entry /\ DOMAIN listed \subseteq Places
      BY ElementOfSeq DEF UpToDateInv, DumpInv, TbmanOK, HeldOK, IsDevices
    <3> HIDE DEF e
    <3>2. e.place \in Places /\ e.payload \in Payload
      BY <3>1 DEF Entry
    <3>3. ASSUME NEW p \in Found(listed, e) PROVE p = e.place /\ p \in DOMAIN listed
      BY <3>1, <3>2, ConstantsAssumption DEF Found
    <3>4. CASE e.payload.kind = "config" /\ Found(listed, e) # {}
      <4>1. (CHOOSE p \in Found(listed, e) : TRUE) \in Found(listed, e)
        BY <3>4
      <4>2. Names(listed, e) = listed[e.place][e.payload.part] /\ e.place \in DOMAIN listed
        BY <3>3, <3>4, <4>1 DEF Names
      <4>3. e.payload.part \in Parts
        BY <3>2 DEF Payload, Config, Parts
      <4>. QED BY <2>3, <4>2, <4>3 DEF UpToDateInv, ListedUpToDate, e
    <3>5. CASE ~(e.payload.kind = "config" /\ Found(listed, e) # {})
      BY <3>5 DEF Names, e
    <3>. QED BY <3>4, <3>5
  <2>. QED BY <2>1, <2>2, <2>3 DEF NamesOfRouter
<1>. QED BY <1>1, <1>2, UpToDateNext, PTL DEF Spec

-----------------------------------------------------------------------------
(***************************************************************************)
(* Nothing is missed. A control packet in the part of the buffer that a    *)
(* dump has read has been printed or will be: by an entry that the dump    *)
(* has fetched, or by one it has yet to fetch. The event of an             *)
(* inter-domain packet is not printed, the same packet as received is; it  *)
(* is behind the event, so it falls out of the buffer after it.            *)
(***************************************************************************)
Control(e) == e.id # 0 /\ e.payload.kind # "unknown"

\* The part of the buffer t has read.
ReadAt(t) == 1..(Len(buffer) - unread[t])

\* Every control packet is there as an entry that is printed, at its own place
\* or behind it.
Paired(q) ==
    \A i \in DOMAIN q : Control(q[i]) =>
        \E j \in DOMAIN q : j >= i /\ Counts(q[j]) /\ q[j].id = q[i].id

\* Packet id is printed, or is going to be.
Accounted(t, id) ==
    \/ \E i \in DOMAIN shown[t] : shown[t][i].id = id
    \/ \E i \in DOMAIN lines[t] : Counts(lines[t][i]) /\ lines[t][i].id = id
    \/ \E k \in UnreadAt(t) : Counts(buffer[k]) /\ buffer[k].id = id

MissOK(t) ==
    pc[t] \in Reading =>
        /\ \A i \in ReadAt(t) : Control(buffer[i]) => Accounted(t, buffer[i].id)
        /\ pc[t] \in {"find", "fetch"} => lines[t] = <<>>

MissInv == DumpInv /\ Paired(buffer) /\ \A t \in Tools : MissOK(t)

\* What a step leaves of the buffer for t: what t has read then it had read
\* before, and as long as there is such an entry nothing unread has been lost.
BothKept(t) ==
    \A i \in ReadAt(t)' :
        /\ \E k \in ReadAt(t) : buffer'[i] = buffer[k]
        /\ \A j \in UnreadAt(t) : \E l \in UnreadAt(t)' : buffer'[l] = buffer[j]

BufferKept ==
    Paired(buffer)' /\ \A t \in Tools : pc[t] \in Reading => BothKept(t)

LEMMA KeptIdle ==
    ASSUME MissInv, UNCHANGED <<buffer, unread>>
    PROVE  BufferKept
<1>1. Paired(buffer)'
  BY DEF MissInv, Paired, Control, Counts, Printed
<1>2. \A t \in Tools : ReadAt(t)' = ReadAt(t) /\ UnreadAt(t)' = UnreadAt(t)
  BY DEF ReadAt, UnreadAt
<1>. QED BY <1>1, <1>2 DEF BufferKept, BothKept

LEMMA KeptEmptied ==
    ASSUME MissInv, Emptied
    PROVE  BufferKept
<1>1. buffer' = <<>> /\ \A t \in Tools : unread'[t] = 0
  BY DEF Emptied
<1>2. Paired(buffer)'
  BY <1>1 DEF Paired
<1>3. \A t \in Tools : ReadAt(t)' = {}
  BY <1>1 DEF ReadAt
<1>. QED BY <1>2, <1>3 DEF BufferKept, BothKept

\* What is left of a \o b without its first off elements.
LEMMA ConcatRest ==
    ASSUME NEW S, NEW a \in Seq(S), NEW b \in Seq(S), NEW off \in 0..Len(a)
    PROVE  LET q == SubSeq(a \o b, off + 1, Len(a \o b)) IN
           /\ q \in Seq(S) /\ Len(q) = Len(a) + Len(b) - off /\ DOMAIN q = 1..Len(q)
           /\ \A i \in 1..Len(q) : /\ off + i <= Len(a) => q[i] = a[off + i]
                                   /\ off + i > Len(a) => q[i] = b[off + i - Len(a)]
<1> DEFINE all == a \o b
           n == Len(a) + Len(b) - off
           q == SubSeq(all, off + 1, Len(all))
<1>1. /\ Len(a) \in Nat /\ Len(b) \in Nat /\ off \in Nat /\ off <= Len(a)
      /\ DOMAIN a = 1..Len(a) /\ DOMAIN b = 1..Len(b)
  OBVIOUS
<1>2. /\ all \in Seq(S) /\ Len(all) = Len(a) + Len(b)
      /\ \A k \in 1..Len(all) : /\ k <= Len(a) => all[k] = a[k]
                                /\ k > Len(a) => all[k] = b[k - Len(a)]
  <2>1. all \in Seq(S) /\ Len(all) = Len(a) + Len(b)
    OBVIOUS
  <2>2. \A k \in 1..Len(all) : all[k] = IF k <= Len(a) THEN a[k] ELSE b[k - Len(a)]
    BY <1>1, <2>1
  <2> HIDE DEF all
  <2>. QED BY <1>1, <2>1, <2>2
<1> HIDE DEF all
<1>4. /\ off + 1 \in Int /\ Len(all) \in Int /\ Len(all) - (off + 1) + 1 = n /\ n \in Nat
      /\ off + 1 >= 1
  BY <1>1, <1>2
<1>3. /\ q \in Seq(S) /\ Len(q) = n /\ DOMAIN q = 1..n
      /\ \A i \in 1..n : /\ off + i <= Len(a) => q[i] = a[off + i]
                         /\ off + i > Len(a) => q[i] = b[off + i - Len(a)]
  <2>5. CASE n = 0
    <3>1. q = <<>>
      BY <1>1, <1>2, <1>4, <2>5
    <3> HIDE DEF q
    <3>. QED BY <1>1, <2>5, <3>1
  <2>6. CASE n # 0
    <3>1. \A k \in (off + 1)..Len(all) : all[k] \in S
      BY <1>1, <1>2, ElementOfSeq
    <3>2. off + 1 <= Len(all)
      BY <1>1, <1>2, <2>6
    <3>3. /\ q \in Seq(S) /\ Len(q) = Len(all) - (off + 1) + 1
          /\ \A i \in 1..(Len(all) - (off + 1) + 1) : q[i] = all[(off + 1) + i - 1]
      BY <1>4, <3>1, <3>2, SubSeqProperties
    <3> HIDE DEF q
    <3>4. q \in Seq(S) /\ Len(q) = n /\ DOMAIN q = 1..n
      BY <1>4, <3>3
    <3>5. ASSUME NEW i \in 1..n
          PROVE  /\ off + i <= Len(a) => q[i] = a[off + i]
                 /\ off + i > Len(a) => q[i] = b[off + i - Len(a)]
      <4>1. /\ i \in 1..(Len(all) - (off + 1) + 1) /\ (off + 1) + i - 1 = off + i
            /\ off + i \in 1..Len(all)
        BY <1>1, <1>2, <1>4, <3>5
      <4>2. q[i] = all[off + i]
        BY <3>3, <4>1
      <4>. QED BY <1>2, <4>1, <4>2
    <3>. QED BY <3>4, <3>5
  <2> HIDE DEF q
  <2>. QED BY <2>5, <2>6
<1> HIDE DEF q
<1>7. /\ Len(q) = Len(a) + Len(b) - off /\ DOMAIN q = 1..Len(q)
      /\ \A i \in 1..Len(q) : /\ off + i <= Len(a) => q[i] = a[off + i]
                              /\ off + i > Len(a) => q[i] = b[off + i - Len(a)]
  BY ONLY <1>3 DEF n
<1>. QED BY <1>3, <1>7 DEF q, all

\* The buffer after new entries: off of the oldest ones have given way.
LEMMA RecordedBuffer ==
    ASSUME DumpInv, NEW p, NEW es \in Seq(Entry), Record(p, es), Recorded(p),
           Len(es) <= MaxBuffer
    PROVE  \E off \in 0..Len(buffer) :
             /\ Len(buffer') = Len(buffer) + Len(es) - off /\ Len(buffer') <= MaxBuffer
             /\ DOMAIN buffer' = 1..Len(buffer')
             /\ \A i \in 1..Len(buffer') :
                  /\ off + i <= Len(buffer) => buffer'[i] = buffer[off + i]
                  /\ off + i > Len(buffer) => buffer'[i] = es[off + i - Len(buffer)]
<1> DEFINE n == Len(buffer) + Len(es)
           len == Smaller(n, MaxBuffer)
           off == n - len
<1>1. /\ buffer \in Seq(Entry) /\ Len(buffer) \in Nat /\ Len(buffer) <= MaxBuffer
      /\ Len(es) \in Nat /\ MaxBuffer \in Nat
  BY ConstantsAssumption DEF DumpInv, BufferOK
<1>2. Len(buffer \o es) = n
  BY <1>1
<1>3. buffer' = SubSeq(buffer \o es, n + 1 - len, n)
  BY <1>2 DEF Record
<1>4. /\ off \in 0..Len(buffer) /\ n + 1 - len = off + 1 /\ n - off <= MaxBuffer
  BY <1>1 DEF Smaller
<1> HIDE DEF len
<1>5. buffer' = SubSeq(buffer \o es, off + 1, Len(buffer \o es))
  BY <1>2, <1>3, <1>4
<1> HIDE DEF off
<1> HIDE DEF n
<1>6. /\ Len(buffer') = Len(buffer) + Len(es) - off /\ DOMAIN buffer' = 1..Len(buffer')
      /\ \A i \in 1..Len(buffer') :
           /\ off + i <= Len(buffer) => buffer'[i] = buffer[off + i]
           /\ off + i > Len(buffer) => buffer'[i] = es[off + i - Len(buffer)]
  <2>1. buffer \in Seq(Entry)
    BY <1>1
  <2>2. off \in 0..Len(buffer)
    BY <1>4
  <2> DEFINE q == SubSeq(buffer \o es, off + 1, Len(buffer \o es))
  <2>3. /\ Len(q) = Len(buffer) + Len(es) - off /\ DOMAIN q = 1..Len(q)
        /\ \A i \in 1..Len(q) :
             /\ off + i <= Len(buffer) => q[i] = buffer[off + i]
             /\ off + i > Len(buffer) => q[i] = es[off + i - Len(buffer)]
    BY <2>1, <2>2, ConcatRest
  <2>4. buffer' = q
    BY <1>5
  <2> HIDE DEF q
  <2>. QED BY ONLY <2>3, <2>4
<1>7. Len(buffer') <= MaxBuffer
  BY <1>4, <1>6 DEF n
<1>8. off \in 0..Len(buffer)
  BY <1>4
<1>. QED BY ONLY <1>6, <1>7, <1>8

LEMMA KeptRecord ==
    ASSUME MissInv, NEW p, NEW es \in Seq(Entry), Record(p, es),
           Len(es) <= MaxBuffer, Paired(es)
    PROVE  BufferKept
<1>1. CASE ~Recorded(p)
  BY <1>1, KeptIdle DEF Record
<1>2. CASE Recorded(p)
  <2> DEFINE m == Len(buffer)
             n == Len(buffer')
             e == Len(es)
  <2>1. DumpInv /\ Paired(buffer)
    BY DEF MissInv
  <2>2. PICK off \in 0..m :
          /\ n = m + e - off /\ n <= MaxBuffer /\ DOMAIN buffer' = 1..n
          /\ \A i \in 1..n : /\ off + i <= m => buffer'[i] = buffer[off + i]
                             /\ off + i > m => buffer'[i] = es[off + i - m]
    BY <1>2, <2>1, RecordedBuffer
  <2>3. /\ m \in Nat /\ e \in Nat /\ MaxBuffer \in Nat /\ off \in Nat /\ off <= m /\ n \in Nat
        /\ DOMAIN buffer = 1..m /\ DOMAIN es = 1..e
    BY <2>1, <2>2, ConstantsAssumption DEF DumpInv, BufferOK
  <2>4. /\ n = m + e - off /\ n <= MaxBuffer
        /\ \A i \in 1..n : /\ off + i <= m => buffer'[i] = buffer[off + i]
                           /\ off + i > m => buffer'[i] = es[off + i - m]
    BY <2>2, <2>3
  <2> HIDE DEF m, n, e
  <2>5. Paired(buffer')
    <3> SUFFICES ASSUME NEW i \in 1..n, Control(buffer'[i])
                 PROVE  \E j \in 1..n :
                          j >= i /\ Counts(buffer'[j]) /\ buffer'[j].id = buffer'[i].id
      BY <2>2 DEF Paired
    <3>1. CASE off + i <= m
      <4>1. off + i \in DOMAIN buffer /\ buffer'[i] = buffer[off + i]
        BY <2>3, <2>4, <3>1
      <4>2. PICK j \in 1..m : /\ j >= off + i /\ Counts(buffer[j])
                              /\ buffer[j].id = buffer[off + i].id
        BY <2>1, <2>3, <4>1 DEF Paired
      <4> DEFINE l == j - off
      <4>a. j \in Int /\ j <= m /\ j >= off + i /\ i \in Int /\ i >= 1
        BY <2>3, <4>2
      <4>b. m \in Nat /\ e \in Nat /\ off \in Nat /\ off <= m /\ n \in Nat /\ n = m + e - off
        BY <2>3, <2>4
      <4>c. l \in Int /\ off + l = j
        BY ONLY <4>a, <4>b
      <4> HIDE DEF l
      <4>d. l >= i /\ l <= n
        BY ONLY <4>a, <4>b, <4>c
      <4>3. l \in 1..n /\ l >= i /\ off + l = j /\ j <= m
        BY ONLY <4>a, <4>b, <4>c, <4>d
      <4>4. buffer'[l] = buffer[j]
        BY <2>4, <4>3
      <4>. QED BY <4>1, <4>2, <4>3, <4>4
    <3>2. CASE off + i > m
      <4>1. off + i - m \in DOMAIN es /\ buffer'[i] = es[off + i - m]
        BY <2>3, <2>4, <3>2
      <4>2. PICK j \in 1..e : /\ j >= off + i - m /\ Counts(es[j])
                              /\ es[j].id = es[off + i - m].id
        BY <2>3, <4>1 DEF Paired
      <4> DEFINE l == j + m - off
      <4>a. j \in Int /\ j >= 1 /\ j <= e /\ j >= off + i - m /\ i \in Int /\ i >= 1
        BY <2>3, <4>2
      <4>b. m \in Nat /\ e \in Nat /\ off \in Nat /\ off <= m /\ n \in Nat /\ n = m + e - off
        BY <2>3, <2>4
      <4>c. l \in Int /\ off + l - m = j /\ l = j + m - off
        BY ONLY <4>a, <4>b
      <4> HIDE DEF l
      <4>d. l >= i /\ l <= n /\ off + l > m
        BY ONLY <4>a, <4>b, <4>c
      <4>3. l \in 1..n /\ l >= i /\ off + l - m = j /\ off + l > m
        BY ONLY <4>a, <4>b, <4>c, <4>d
      <4>4. buffer'[l] = es[j]
        BY <2>4, <4>3
      <4>. QED BY <4>1, <4>2, <4>3, <4>4
    <3>. QED BY <2>3, <3>1, <3>2
  <2>6. ASSUME NEW t \in Tools, pc[t] \in Reading, NEW i \in ReadAt(t)'
        PROVE  /\ \E k \in ReadAt(t) : buffer'[i] = buffer[k]
               /\ \A j \in UnreadAt(t) : \E l \in UnreadAt(t)' : buffer'[l] = buffer[j]
    <3>1. /\ unread[t] \in Nat /\ unread[t] <= m
          /\ unread'[t] = Smaller(unread[t] + e, MaxBuffer)
      BY <1>2, <2>1, <2>3, <2>6 DEF DumpInv, DumpOK, PlaceOK, Record, m, e
    <3>2. /\ ReadAt(t)' = 1..(n - unread'[t]) /\ ReadAt(t) = 1..(m - unread[t])
          /\ UnreadAt(t) = (m - unread[t] + 1)..m
          /\ UnreadAt(t)' = (n - unread'[t] + 1)..n
      BY DEF ReadAt, UnreadAt, m, n
    <3>a. i \in Int /\ i >= 1 /\ i <= n - unread'[t]
      BY <2>3, <2>6, <3>1, <3>2 DEF Smaller
    <3>3. unread'[t] = unread[t] + e
      BY ONLY <2>3, <2>4, <3>1, <3>a DEF Smaller
    <3>b. /\ m \in Nat /\ e \in Nat /\ off \in Nat /\ n \in Int /\ n = m + e - off
          /\ unread[t] \in Nat /\ unread[t] <= m
      BY <2>3, <2>4, <3>1
    <3>d. n - unread'[t] = m - unread[t] - off
      BY ONLY <3>3, <3>b
    <3>c. off + i >= 1 /\ off + i <= m - unread[t] /\ i <= n /\ off + i \in Int
      BY ONLY <3>a, <3>b, <3>d
    <3>4. off + i \in 1..(m - unread[t]) /\ off + i <= m /\ i \in 1..n
      BY ONLY <3>a, <3>b, <3>c
    <3>5. buffer'[i] = buffer[off + i]
      BY <2>4, <3>4
    <3>6. ASSUME NEW j \in UnreadAt(t)
          PROVE  \E l \in UnreadAt(t)' : buffer'[l] = buffer[j]
      <4>1. j \in Int /\ j >= m - unread[t] + 1 /\ j <= m
        BY <3>1, <3>2, <3>b
      <4> DEFINE l == j - off
      <4>b. l \in Int /\ off + l = j
        BY ONLY <3>b, <4>1
      <4> HIDE DEF l
      <4>c. l >= 1
        BY ONLY <3>a, <3>b, <3>c, <4>1, <4>b
      <4>d. l <= n
        BY ONLY <3>b, <4>1, <4>b
      <4>a. /\ l >= 1 /\ l <= n /\ l >= n - unread'[t] + 1 /\ n - unread'[t] + 1 \in Int
        BY ONLY <3>b, <4>1, <4>b, <4>c, <4>d, <3>d
      <4>2. l \in 1..n /\ l \in (n - unread'[t] + 1)..n /\ off + l = j /\ j <= m
        BY ONLY <3>b, <4>1, <4>a, <4>b
      <4>3. buffer'[l] = buffer[j]
        BY <2>4, <4>2
      <4>. QED BY <3>2, <4>2, <4>3
    <3>. QED BY <3>2, <3>4, <3>5, <3>6
  <2>7. Paired(buffer)'
    BY <2>5 DEF Paired, Control, Counts, Printed
  <2>. QED BY <2>6, <2>7 DEF BufferKept, BothKept
<1>. QED BY <1>1, <1>2

LEMMA KeptOwn ==
    ASSUME MissInv, NEW p \in Places, NEW part \in Parts, RecordOwn(p, part)
    PROVE  BufferKept
<1> DEFINE e == EntryOf(p, 0, "tb_rx", [kind |-> "config", part |-> part])
<1>1. e \in Entry /\ e.id = 0
  BY EntryType DEF MissInv, DumpInv, Payload, Config, EntryOf
<1> HIDE DEF e
<1> DEFINE es == <<e>>
<1>2. Record(p, es)
  BY DEF RecordOwn, e
<1>3. /\ es \in Seq(Entry) /\ Len(es) = 1 /\ \A i \in DOMAIN es : es[i] = e
  BY <1>1
<1> HIDE DEF es
<1>4. Paired(es) /\ Len(es) <= MaxBuffer
  BY <1>1, <1>3, ConstantsAssumption DEF Paired, Control
<1>. QED BY <1>2, <1>3, <1>4, KeptRecord

LEMMA KeptPacket ==
    ASSUME MissInv, NEW p \in Places, Packet(p)
    PROVE  BufferKept
<1>1. PICK pl \in Sent :
        Record(p, CASE pl.kind = "xdomain" ->
                         <<EntryOf(p, traffic + 1, "tb_event", pl),
                           EntryOf(p, traffic + 1, "tb_rx", pl)>>
                    [] pl.kind = "plug" -> <<EntryOf(p, traffic + 1, "tb_event", pl)>>
                    [] OTHER -> <<EntryOf(p, traffic + 1, "tb_rx", pl)>>)
  BY DEF Packet
<1> DEFINE n == traffic + 1
           a == EntryOf(p, n, "tb_event", pl)
           b == EntryOf(p, n, "tb_rx", pl)
<1>2. n \in Nat /\ n # 0 /\ 2 <= MaxBuffer /\ MaxBuffer \in Nat /\ pl \in Payload
  BY ConstantsAssumption DEF MissInv, DumpInv, BufferOK
<1>3. /\ a \in Entry /\ a.id = n /\ a.payload = pl /\ a.function = "tb_event"
      /\ b \in Entry /\ b.id = n /\ b.payload = pl /\ b.function = "tb_rx"
  <2>1. a \in Entry /\ b \in Entry
    BY <1>2, EntryType DEF MissInv, DumpInv
  <2>. QED BY <2>1 DEF EntryOf
<1>4. Record(p, IF pl.kind = "xdomain" THEN <<a, b>>
                ELSE IF pl.kind = "plug" THEN <<a>> ELSE <<b>>)
  BY <1>1
<1> HIDE DEF n, a, b
<1>5. ASSUME NEW e \in Entry, Control(e) => Counts(e), Record(p, <<e>>)
      PROVE  BufferKept
  <2>1. /\ <<e>> \in Seq(Entry) /\ Len(<<e>>) = 1 /\ DOMAIN <<e>> = {1} /\ <<e>>[1] = e
    OBVIOUS
  <2>2. Paired(<<e>>)
    BY <1>5, <2>1 DEF Paired
  <2>3. Len(<<e>>) <= MaxBuffer
    BY <1>2, <2>1
  <2>. QED BY <1>5, <2>1, <2>2, <2>3, KeptRecord
<1>6. CASE pl.kind = "xdomain"
  <2>1. /\ <<a, b>> \in Seq(Entry) /\ Len(<<a, b>>) = 2 /\ DOMAIN <<a, b>> = {1, 2}
        /\ <<a, b>>[1] = a /\ <<a, b>>[2] = b
    BY <1>3
  <2>2. Counts(b)
    BY <1>2, <1>3, <1>6 DEF Counts, Printed
  <2>3. Paired(<<a, b>>)
    BY <1>3, <2>1, <2>2 DEF Paired
  <2>4. Len(<<a, b>>) <= MaxBuffer
    BY <1>2, <2>1
  <2>5. Record(p, <<a, b>>)
    BY <1>4, <1>6
  <2>. QED BY <2>1, <2>3, <2>4, <2>5, KeptRecord
<1>7. CASE pl.kind # "xdomain"
  <2>1. (Control(a) => Counts(a)) /\ (Control(b) => Counts(b))
    BY <1>3, <1>7 DEF Control, Counts, Printed
  <2>. QED BY <1>3, <1>4, <1>5, <1>7, <2>1
<1>. QED BY <1>6, <1>7

\* A step that leaves alone what t has fetched and printed.
LEMMA MissKept ==
    ASSUME MissInv, BufferKept, NEW t \in Tools, lines'[t] = lines[t], shown'[t] = shown[t],
           pc'[t] \in Reading => pc[t] \in Reading,
           pc'[t] \in {"find", "fetch"} => pc[t] \in {"find", "fetch"}
    PROVE  MissOK(t)'
<1> SUFFICES ASSUME pc'[t] \in Reading PROVE MissOK(t)'
  BY DEF MissOK
<1>1. /\ BothKept(t)
      /\ \A i \in ReadAt(t) : Control(buffer[i]) => Accounted(t, buffer[i].id)
      /\ pc[t] \in {"find", "fetch"} => lines[t] = <<>>
  BY DEF BufferKept, MissInv, MissOK
<1>2. ASSUME NEW i \in ReadAt(t)', Control(buffer'[i])
      PROVE  \/ \E k \in DOMAIN shown[t] : shown[t][k].id = buffer'[i].id
             \/ \E k \in DOMAIN lines[t] : Counts(lines[t][k]) /\ lines[t][k].id = buffer'[i].id
             \/ \E k \in UnreadAt(t)' : Counts(buffer'[k]) /\ buffer'[k].id = buffer'[i].id
  <2>1. PICK h \in ReadAt(t) : buffer'[i] = buffer[h]
    BY <1>1, <1>2 DEF BothKept
  <2>2. Accounted(t, buffer[h].id)
    BY <1>1, <1>2, <2>1
  <2>3. CASE \E k \in UnreadAt(t) : Counts(buffer[k]) /\ buffer[k].id = buffer[h].id
    <3>1. PICK k \in UnreadAt(t) : Counts(buffer[k]) /\ buffer[k].id = buffer[h].id
      BY <2>3
    <3>2. PICK l \in UnreadAt(t)' : buffer'[l] = buffer[k]
      BY <1>1, <1>2 DEF BothKept
    <3>. QED BY <2>1, <3>1, <3>2
  <2>. QED BY <2>1, <2>2, <2>3 DEF Accounted
<1>3. \A i \in ReadAt(t)' : Control(buffer'[i]) => Accounted(t, buffer[i].id)'
  BY <1>2 DEF Accounted, Counts, Printed
<1>4. pc'[t] \in {"find", "fetch"} => lines'[t] = <<>>
  BY <1>1
<1>. QED BY <1>3, <1>4 DEF MissOK, Control

\* A step that has nothing to do with a dump.
LEMMA MissQuiet ==
    ASSUME MissInv, DumpInv', BufferKept, UNCHANGED dumpVars,
           \A t \in Tools : pc'[t] = pc[t] \/ pc'[t] \notin Reading
    PROVE  MissInv'
<1>1. ASSUME NEW t \in Tools PROVE MissOK(t)'
  <2>1. lines'[t] = lines[t] /\ shown'[t] = shown[t]
    BY DEF dumpVars
  <2>2. {"find", "fetch"} \subseteq Reading
    BY DEF Reading
  <2>. QED BY <2>1, <2>2, MissKept
<1>. QED BY <1>1 DEF MissInv, BufferKept

\* A step of the dump t.
LEMMA MissProgress ==
    ASSUME MissInv, DumpInv', Paired(buffer)', NEW t \in Tools,
           \A u \in Tools \ {t} : /\ lines'[u] = lines[u] /\ shown'[u] = shown[u]
                                  /\ pc'[u] = pc[u] /\ unread'[u] = unread[u],
           UNCHANGED buffer, MissOK(t)'
    PROVE  MissInv'
<1>1. ASSUME NEW u \in Tools \ {t} PROVE MissOK(u)'
  <2>1. ReadAt(u)' = ReadAt(u) /\ UnreadAt(u)' = UnreadAt(u)
    BY DEF ReadAt, UnreadAt
  <2>2. MissOK(u)
    BY DEF MissInv
  <2>. QED BY <2>1, <2>2 DEF MissOK, Accounted, Control, Counts, Printed
<1>. QED BY <1>1 DEF MissInv

\* Packets, routers that come and go, commands and the dialog of tbman.
LEMMA MissOther ==
    ASSUME MissInv, DumpInv',
           \/ \E p \in Places : Packet(p) \/ Plug(p) \/ Unplug(p) \/ UpdateList(p)
           \/ \E t \in Tools : \/ \E d \in Domains \union {All} : StartEnable(t, d)
                               \/ StartDisable(t) \/ Clear(t)
           \/ \E t \in Programs : EnableStep(t)
           \/ EnableTrace \/ ReadEntries \/ ClearTrace \/ ViewPacket
           \/ UNCHANGED vars
    PROVE  MissInv'
<1>1. pc \in [Programs -> Steps] /\ Tools \subseteq Programs
  BY DEF MissInv, DumpInv, FilterInv, FilterType, ProgramType, Steps, Programs
<1>2. \A to \in Enabling \union {"idle", "disable"} : to \notin Reading
  BY DEF Enabling, Reading, Handling, Asking
<1>3. ASSUME NEW t \in Programs, NEW to \in Enabling \union {"idle", "disable"},
             pc' = [pc EXCEPT ![t] = to]
      PROVE  \A u \in Tools : pc'[u] = pc[u] \/ pc'[u] \notin Reading
  BY <1>1, <1>2, <1>3
<1>4. ASSUME NEW p \in Places, Packet(p) \/ Plug(p) \/ Unplug(p) \/ UpdateList(p)
      PROVE  MissInv'
  <2>1. UNCHANGED <<dumpVars, pc>>
    BY <1>4 DEF Packet, Plug, Unplug, UpdateList
  <2>2. Packet(p) \/ UNCHANGED <<buffer, unread>>
    BY <1>4 DEF Plug, Unplug, UpdateList, kernelVars
  <2>3. BufferKept
    BY <2>2, KeptPacket, KeptIdle
  <2>. QED BY <2>1, <2>3, MissQuiet
<1>5. ASSUME \/ \E t \in Tools : \/ \E d \in Domains \union {All} : StartEnable(t, d)
                                 \/ StartDisable(t) \/ Clear(t)
             \/ \E t \in Programs : EnableStep(t)
             \/ EnableTrace
      PROVE  MissInv'
  <2>1. /\ UNCHANGED dumpVars
        /\ UNCHANGED <<buffer, unread>> \/ Emptied
        /\ \E t \in Programs, to \in Enabling \union {"idle", "disable"} :
              pc' = [pc EXCEPT ![t] = to]
    <3>1. ASSUME NEW t \in Tools, NEW d \in Domains \union {All}, StartEnable(t, d) PROVE <2>1
      BY <3>1 DEF StartEnable, Start, Goto, kernelVars, Enabling, Programs
    <3>2. ASSUME NEW t \in Tools, StartDisable(t) \/ Clear(t) PROVE <2>1
      BY <3>2 DEF StartDisable, Clear, Start, Goto, kernelVars, Programs
    <3>3. ASSUME NEW t \in Programs, EnableStep(t) PROVE <2>1
      BY <3>3 DEF EnableStep, AddFilter, SetCurrentTracer, SetTraceClock, DoEnable, Goto,
                  kernelVars, Enabling
    <3>4. ASSUME EnableTrace PROVE <2>1
      BY <3>4 DEF EnableTrace, Start, Goto, kernelVars, Enabling, Programs
    <3>. QED BY <1>5, <3>1, <3>2, <3>3, <3>4
  <2>2. BufferKept
    BY <2>1, KeptIdle, KeptEmptied
  <2>3. \A u \in Tools : pc'[u] = pc[u] \/ pc'[u] \notin Reading
    BY <1>3, <2>1
  <2>. QED BY <2>1, <2>2, <2>3, MissQuiet
<1>6. ASSUME ReadEntries \/ ClearTrace \/ ViewPacket PROVE MissInv'
  <2>1. /\ UNCHANGED dumpVars /\ pc' = [pc EXCEPT ![Tbman] = "idle"]
    BY <1>6 DEF ReadEntries, ClearTrace, ViewPacket, TbmanCommand, Start, Goto
  <2>2. \/ UNCHANGED <<buffer, unread>> \/ Emptied
        \/ \E e \in ToSet(entries) : RecordOwn(e.place, "regs")
    BY <1>6 DEF ReadEntries, ClearTrace, ViewPacket
  <2>3. \A e \in ToSet(entries) : e.place \in Places
    <3>1. entries \in Seq(Entry)
      BY DEF MissInv, DumpInv, TbmanOK
    <3>2. \A i \in DOMAIN entries : entries[i] \in Entry
      BY <3>1, ElementOfSeq
    <3>. QED BY <3>2 DEF ToSet, Entry
  <2>4. BufferKept
    BY <2>2, <2>3, KeptIdle, KeptEmptied, KeptOwn DEF Parts
  <2>5. Tbman \in Programs
    BY DEF Programs
  <2>. QED BY <1>3, <2>1, <2>4, <2>5, MissQuiet
<1>7. ASSUME UNCHANGED vars PROVE MissInv'
  <2>1. UNCHANGED <<buffer, unread, dumpVars, pc>>
    BY <1>7 DEF vars, kernelVars
  <2>. QED BY <2>1, KeptIdle, MissQuiet
<1>. QED BY <1>4, <1>5, <1>6, <1>7

-----------------------------------------------------------------------------
LEMMA MissEnd ==
    ASSUME MissInv, DumpInv', NEW t \in Tools, EndDump(t), UNCHANGED buffer
    PROVE  MissInv'
<1>1. /\ pc'[t] = "idle"
      /\ \A u \in Tools \ {t} : /\ lines'[u] = lines[u] /\ shown'[u] = shown[u]
                                /\ pc'[u] = pc[u] /\ unread'[u] = unread[u]
  BY DEF EndDump, Goto, MissInv, DumpInv, Shape, FilterInv, FilterType, ProgramType, Programs
<1>2. MissOK(t)'
  BY <1>1 DEF MissOK, Reading, Handling, Asking
<1>3. Paired(buffer)'
  BY DEF MissInv, Paired, Control, Counts, Printed
<1>. QED BY <1>1, <1>2, <1>3, MissProgress

LEMMA MissStart ==
    ASSUME MissInv, DumpInv', NEW t \in Tools, StartDump(t)
    PROVE  MissInv'
<1>1. /\ unread'[t] = Len(buffer) /\ UNCHANGED <<buffer, lines, shown>> /\ pc[t] = "idle"
      /\ \A u \in Tools \ {t} : pc'[u] = pc[u] /\ unread'[u] = unread[u]
  BY DEF StartDump, Start, Goto, kernelVars, dumpVars, MissInv, DumpInv, Shape, FilterInv,
         FilterType, ProgramType, Programs
<1>2. MissOK(t)'
  <2>1. ReadAt(t)' = {}
    <3>1. Len(buffer) \in Nat
      BY DEF MissInv, DumpInv, BufferOK
    <3>. QED BY <1>1, <3>1 DEF ReadAt
  <2>2. lines'[t] = <<>>
    BY <1>1 DEF MissInv, DumpInv, DumpOK, PlaceOK, Reading, Handling, Asking
  <2>. QED BY <2>1, <2>2 DEF MissOK
<1>3. Paired(buffer)'
  BY <1>1 DEF MissInv, Paired, Control, Counts, Printed
<1>. QED BY <1>1, <1>2, <1>3, MissProgress

\* Looking for routers and reading registers.
LEMMA MissLook ==
    ASSUME MissInv, DumpInv', NEW t \in Tools,
           \/ FindDevices(t) \/ Lookup(t)
           \/ ReadRegisters(t) \/ ReadAdapters(t) \/ ReadPaths(t)
    PROVE  MissInv'
<1>1. CASE EndDump(t) /\ UNCHANGED buffer
  BY <1>1, MissEnd
<1>2. CASE ~(EndDump(t) /\ UNCHANGED buffer)
  <2> DEFINE p == TheDevice(t)
  <2>1. /\ UNCHANGED <<lines, shown>> /\ pc[t] \in Reading
        /\ \E to \in Reading : /\ pc' = [pc EXCEPT ![t] = to]
                               /\ to \in {"find", "fetch"} => pc[t] \in {"find", "fetch"}
        /\ \/ UNCHANGED <<buffer, unread>>
           \/ pc[t] \in Asking /\ \E part \in Parts : RecordOwn(p, part)
    <3> HIDE DEF p
    <3>1. CASE FindDevices(t)
      BY <1>2, <3>1 DEF FindDevices, Goto, kernelVars, Reading
    <3>2. CASE Lookup(t)
      <4>1. \E to \in {"regs", "show"} : pc' = [pc EXCEPT ![t] = to]
        BY <3>2 DEF Lookup, Goto
      <4>2. UNCHANGED <<lines, shown, buffer, unread>> /\ pc[t] = "entry"
        BY <3>2 DEF Lookup, kernelVars, dumpVars
      <4>. QED BY <4>1, <4>2 DEF Reading, Handling, Asking
    <3>3. CASE ReadRegisters(t)
      BY <1>2, <3>3 DEF ReadRegisters, Goto, dumpVars, Reading, Handling, Asking, Parts, p
    <3>4. CASE ReadAdapters(t)
      BY <1>2, <3>4 DEF ReadAdapters, Goto, Reading, Handling, Asking, Parts, p
    <3>5. CASE ReadPaths(t)
      BY <3>5 DEF ReadPaths, Goto, Reading, Handling, Asking, Parts, p
    <3>. QED BY <3>1, <3>2, <3>3, <3>4, <3>5
  <2>2. pc[t] \in Asking => p \in Places
    BY DeviceThere DEF MissInv
  <2> HIDE DEF p
  <2>3. BufferKept
    BY <2>1, <2>2, KeptIdle, KeptOwn
  <2>4. ASSUME NEW u \in Tools
        PROVE  /\ pc'[u] \in Reading => pc[u] \in Reading
               /\ pc'[u] \in {"find", "fetch"} => pc[u] \in {"find", "fetch"}
    <3>1. DOMAIN pc = Programs /\ u \in Programs
      BY DEF MissInv, DumpInv, FilterInv, FilterType, ProgramType, Programs
    <3>. QED BY <2>1, <3>1
  <2>5. \A u \in Tools : MissOK(u)'
    BY <2>1, <2>3, <2>4, MissKept
  <2>. QED BY <2>3, <2>5 DEF MissInv, BufferKept
<1>. QED BY <1>1, <1>2

\* What is fetched leaves the part that is unread.
LEMMA MissFetch ==
    ASSUME MissInv, DumpInv', NEW t \in Tools, Fetch(t)
    PROVE  MissInv'
<1>1. CASE EndDump(t)
  BY <1>1, MissEnd DEF Fetch, kernelVars
<1>2. CASE ~EndDump(t)
  <2> DEFINE m == Len(buffer) - unread[t]
  <2>1. PICK n \in 1..unread[t] :
          /\ lines' = [lines EXCEPT ![t] = SubSeq(buffer, m + 1, m + n)]
          /\ unread' = [unread EXCEPT ![t] = unread[t] - n]
          /\ pc' = [pc EXCEPT ![t] = "entry"] /\ pc[t] = "fetch"
          /\ UNCHANGED <<buffer, shown>>
    BY <1>2 DEF Fetch, Goto, kernelVars
  <2> DEFINE q == SubSeq(buffer, m + 1, m + n)
  <2>2. /\ buffer \in Seq(Entry) /\ DOMAIN buffer = 1..Len(buffer) /\ Len(buffer) \in Nat
        /\ unread[t] \in Nat /\ m \in Nat /\ n \in Nat /\ n >= 1 /\ m + n <= Len(buffer)
        /\ UnreadAt(t) = (m + 1)..Len(buffer) /\ ReadAt(t) = 1..m
    BY DEF MissInv, DumpInv, BufferOK, DumpOK, PlaceOK, UnreadAt, ReadAt
  <2>3. /\ unread'[t] = unread[t] - n /\ lines'[t] = q /\ shown'[t] = shown[t]
        /\ pc'[t] = "entry" /\ buffer' = buffer
        /\ \A u \in Tools \ {t} : /\ lines'[u] = lines[u] /\ shown'[u] = shown[u]
                                  /\ pc'[u] = pc[u] /\ unread'[u] = unread[u]
    <3>1. /\ lines = [u \in Tools |-> lines[u]] /\ unread = [u \in Tools |-> unread[u]]
          /\ DOMAIN pc = Programs /\ Tools \subseteq Programs
      BY DEF MissInv, DumpInv, Shape, FilterInv, FilterType, ProgramType, Programs
    <3> HIDE DEF q
    <3>2. lines' = [lines EXCEPT ![t] = q]
      BY <2>1 DEF q
    <3>. QED BY <2>1, <3>1, <3>2
  <2>4. ReadAt(t)' = 1..(m + n) /\ UnreadAt(t)' = (m + n + 1)..Len(buffer)
    <3>1. Len(buffer) - (unread[t] - n) = m + n
      BY <2>2
    <3>. QED BY <2>3, <3>1 DEF ReadAt, UnreadAt
  <2> HIDE DEF m
  <2>5. DOMAIN q = 1..n /\ \A i \in 1..n : q[i] = buffer[m + i]
    <3>1. \A i \in (m + 1)..(m + n) : buffer[i] \in Entry
      BY <2>2, ElementOfSeq
    <3>2. /\ m + 1 \in Int /\ m + n \in Int /\ m + 1 <= m + n
          /\ (m + n) - (m + 1) + 1 = n
      BY <2>2
    <3>3. /\ q \in Seq(Entry) /\ Len(q) = n
          /\ \A i \in 1..n : q[i] = buffer[(m + 1) + i - 1]
      BY <3>1, <3>2, SubSeqProperties
    <3> HIDE DEF q
    <3>4. \A i \in 1..n : (m + 1) + i - 1 = m + i
      BY <2>2
    <3>. QED BY <3>3, <3>4
  <2> HIDE DEF q
  <2>6. ASSUME NEW k \in UnreadAt(t), Counts(buffer[k])
        PROVE  \/ \E i \in DOMAIN q : Counts(q[i]) /\ q[i].id = buffer[k].id
               \/ \E l \in UnreadAt(t)' : Counts(buffer[l]) /\ buffer[l].id = buffer[k].id
    <3>1. k \in Int /\ k >= m + 1 /\ k <= Len(buffer)
      BY <2>2
    <3>2. CASE k <= m + n
      <4>1. k - m \in 1..n /\ m + (k - m) = k
        BY <2>2, <3>1, <3>2
      <4>2. q[k - m] = buffer[k]
        BY <2>5, <4>1
      <4>. QED BY <2>5, <2>6, <4>1, <4>2
    <3>3. CASE k > m + n
      <4>1. k \in UnreadAt(t)'
        BY <2>2, <2>4, <3>1, <3>3
      <4>. QED BY <2>6, <4>1
    <3>. QED BY <2>2, <3>1, <3>2, <3>3
  <2>7. ASSUME NEW i \in ReadAt(t)', Control(buffer[i])
        PROVE  \/ \E j \in DOMAIN shown[t] : shown[t][j].id = buffer[i].id
               \/ \E k \in UnreadAt(t) : Counts(buffer[k]) /\ buffer[k].id = buffer[i].id
    <3>1. i \in Int /\ i >= 1 /\ i <= m + n /\ i \in DOMAIN buffer
      BY <2>2, <2>4
    <3>2. CASE i <= m
      <4>1. i \in ReadAt(t)
        BY <2>2, <3>1, <3>2
      <4>2. MissOK(t) /\ pc[t] \in Reading /\ pc[t] = "fetch"
        BY <2>1 DEF MissInv, Reading
      <4>3. lines[t] = <<>> /\ Accounted(t, buffer[i].id)
        BY <2>7, <4>1, <4>2 DEF MissOK
      <4>. QED BY <4>3 DEF Accounted
    <3>3. CASE i > m
      <4>1. PICK j \in DOMAIN buffer : j >= i /\ Counts(buffer[j]) /\ buffer[j].id = buffer[i].id
        BY <2>7, <3>1 DEF MissInv, Paired
      <4>2. j \in UnreadAt(t)
        BY <2>2, <3>1, <3>3, <4>1
      <4>. QED BY <4>1, <4>2
    <3>. QED BY <2>2, <3>1, <3>2, <3>3
  <2>8. MissOK(t)'
    <3>1. ASSUME NEW i \in ReadAt(t)', Control(buffer[i])
          PROVE  \/ \E j \in DOMAIN shown[t] : shown[t][j].id = buffer[i].id
                 \/ \E j \in DOMAIN q : Counts(q[j]) /\ q[j].id = buffer[i].id
                 \/ \E l \in UnreadAt(t)' : Counts(buffer[l]) /\ buffer[l].id = buffer[i].id
      <4>1. CASE \E k \in UnreadAt(t) : Counts(buffer[k]) /\ buffer[k].id = buffer[i].id
        BY <2>6, <4>1
      <4>. QED BY <2>7, <3>1, <4>1
    <3>. QED BY <2>3, <3>1 DEF MissOK, Accounted, Control, Counts, Printed
  <2>9. Paired(buffer)'
    BY <2>3 DEF MissInv, Paired, Control, Counts, Printed
  <2>. QED BY <2>3, <2>8, <2>9, MissProgress
<1>. QED BY <1>1, <1>2

\* An entry is printed, or skipped: what counts is printed.
LEMMA MissPrint ==
    ASSUME MissInv, DumpInv', NEW t \in Tools, PrintEntry(t)
    PROVE  MissInv'
<1> DEFINE e == Head(lines[t])
           l == Tail(lines[t])
           x == [id |-> e.id, place |-> e.place, names |-> Names(cache[t], e)]
           s == IF Counts(e) THEN Append(shown[t], x) ELSE shown[t]
<1>1. /\ lines[t] \in Seq(Entry) /\ lines[t] # <<>> /\ shown[t] \in Seq(Line)
      /\ pc[t] = "show" /\ pc[t] \in Reading /\ MissOK(t)
  <2>1. pc[t] = "show" /\ pc[t] \in Handling /\ pc[t] \in Reading
    BY DEF PrintEntry, Reading, Handling
  <2>. QED BY <2>1 DEF MissInv, DumpInv, DumpOK, PlaceOK, ShownOK
<1>2. /\ lines'[t] = l /\ shown'[t] = s /\ UNCHANGED <<buffer, unread>>
      /\ pc'[t] = "fetch" => l = <<>>
      /\ pc'[t] # "find"
      /\ \A u \in Tools \ {t} : /\ lines'[u] = lines[u] /\ shown'[u] = shown[u]
                                /\ pc'[u] = pc[u] /\ unread'[u] = unread[u]
  <2>1. /\ lines = [u \in Tools |-> lines[u]] /\ shown = [u \in Tools |-> shown[u]]
        /\ DOMAIN pc = Programs /\ Tools \subseteq Programs
    BY DEF MissInv, DumpInv, Shape, FilterInv, FilterType, ProgramType, Programs
  <2>2. /\ lines' = [lines EXCEPT ![t] = l]
        /\ shown' = IF Counts(e) THEN [shown EXCEPT ![t] = Append(shown[t], x)] ELSE shown
        /\ pc' = [pc EXCEPT ![t] = IF l = <<>> THEN "fetch" ELSE "entry"]
        /\ UNCHANGED <<buffer, unread>>
    BY DEF PrintEntry, Goto, Counts, kernelVars
  <2> HIDE DEF e, l, x
  <2>3. shown'[t] = s /\ \A u \in Tools \ {t} : shown'[u] = shown[u]
    BY <2>1, <2>2
  <2>4. pc'[t] = IF l = <<>> THEN "fetch" ELSE "entry"
    BY <2>1, <2>2
  <2>5. lines'[t] = l /\ \A u \in Tools \ {t} : lines'[u] = lines[u] /\ pc'[u] = pc[u]
    BY <2>1, <2>2
  <2>. QED BY <2>2, <2>3, <2>4, <2>5
<1>3. \A k \in DOMAIN lines[t] :
        \/ lines[t][k] = e
        \/ \E i \in DOMAIN l : l[i] = lines[t][k]
  <2>1. Len(lines[t]) \in Nat /\ DOMAIN lines[t] = 1..Len(lines[t]) /\ e = lines[t][1]
    BY <1>1
  <2>2. /\ l \in Seq(Entry) /\ Len(l) = Len(lines[t]) - 1
        /\ \A i \in 1..Len(l) : l[i] = lines[t][i + 1]
    BY <1>1, HeadTailProperties
  <2> HIDE DEF e, l
  <2>3. DOMAIN l = 1..Len(l)
    BY <2>2
  <2> SUFFICES ASSUME NEW k \in 1..Len(lines[t]), k # 1
               PROVE  \E i \in DOMAIN l : l[i] = lines[t][k]
    BY <2>1
  <2>4. k - 1 \in 1..Len(l) /\ (k - 1) + 1 = k
    BY <2>1, <2>2
  <2>. QED BY <2>2, <2>3, <2>4
<1>4. x.id = e.id
  OBVIOUS
<1> HIDE DEF e, l, x
<1>5. /\ Counts(e) => \E i \in DOMAIN s : s[i].id = e.id
      /\ \A j \in DOMAIN shown[t] : \E i \in DOMAIN s : s[i] = shown[t][j]
  <2>1. CASE ~Counts(e)
    BY <2>1
  <2>2. CASE Counts(e)
    <3>1. Len(shown[t]) \in Nat /\ DOMAIN shown[t] = 1..Len(shown[t]) /\ s = Append(shown[t], x)
      BY <1>1, <2>2
    <3>2. /\ DOMAIN s = 1..(Len(shown[t]) + 1)
          /\ \A i \in 1..Len(shown[t]) : s[i] = shown[t][i]
          /\ s[Len(shown[t]) + 1] = x
      BY <1>1, <3>1
    <3> HIDE DEF s
    <3>3. Len(shown[t]) + 1 \in DOMAIN s /\ \A i \in DOMAIN shown[t] : i \in DOMAIN s
      BY <3>1, <3>2
    <3>. QED BY <1>4, <3>1, <3>2, <3>3
  <2>. QED BY <2>1, <2>2
<1> HIDE DEF s
<1>6. ReadAt(t)' = ReadAt(t) /\ UnreadAt(t)' = UnreadAt(t)
  BY <1>2 DEF ReadAt, UnreadAt
<1>7. ASSUME NEW i \in ReadAt(t), Control(buffer[i])
      PROVE  \/ \E j \in DOMAIN s : s[j].id = buffer[i].id
             \/ \E j \in DOMAIN l : Counts(l[j]) /\ l[j].id = buffer[i].id
             \/ \E k \in UnreadAt(t) : Counts(buffer[k]) /\ buffer[k].id = buffer[i].id
  <2>1. Accounted(t, buffer[i].id)
    BY <1>1, <1>7 DEF MissOK
  <2>2. CASE \E j \in DOMAIN shown[t] : shown[t][j].id = buffer[i].id
    BY <1>5, <2>2
  <2>3. CASE \E j \in DOMAIN lines[t] : Counts(lines[t][j]) /\ lines[t][j].id = buffer[i].id
    BY <1>3, <1>5, <2>3
  <2>. QED BY <2>1, <2>2, <2>3 DEF Accounted
<1>8. MissOK(t)'
  BY <1>2, <1>6, <1>7 DEF MissOK, Accounted, Control, Counts, Printed
<1>9. Paired(buffer)'
  BY <1>2 DEF MissInv, Paired, Control, Counts, Printed
<1>. QED BY <1>2, <1>8, <1>9, MissProgress

LEMMA MissInit == Init => MissInv
<1> SUFFICES ASSUME Init PROVE MissInv
  OBVIOUS
<1>1. Paired(buffer)
  BY DEF Init, Paired
<1>2. \A t \in Tools : pc[t] \notin Reading
  BY DEF Init, Programs, Reading, Handling, Asking
<1>. QED BY <1>1, <1>2, DumpInit DEF MissInv, MissOK

LEMMA MissNext == MissInv /\ [Next]_vars => MissInv'
<1> SUFFICES ASSUME MissInv, [Next]_vars PROVE MissInv'
  OBVIOUS
<1>1. DumpInv'
  BY DumpNext DEF MissInv
<1>2. ASSUME NEW t \in Tools, StartDump(t) \/ DumpStep(t) PROVE MissInv'
  BY <1>1, <1>2, MissStart, MissLook, MissFetch, MissPrint DEF DumpStep
<1>. QED BY <1>1, <1>2, MissOther DEF Next

\* tbtrace dump: when a dump ends without an error, no control packet that the
\* buffer holds then is left unprinted, whatever the dump has put into it
\* itself and whatever has fallen out of it meanwhile.
THEOREM NothingIsMissed == Spec => NothingMissed
<1> DEFINE A == \A t \in Tools : pc[t] = "fetch" /\ pc'[t] = "idle" =>
                  \A e \in ToSet(buffer) : e.id # 0 /\ e.payload.kind # "unknown" =>
                      \E i \in DOMAIN shown[t] : shown[t][i].id = e.id
<1>1. ASSUME MissInv, [Next]_vars PROVE A
  <2> SUFFICES ASSUME NEW t \in Tools, pc[t] = "fetch", pc'[t] = "idle",
                      NEW e \in ToSet(buffer), Control(e)
               PROVE  \E i \in DOMAIN shown[t] : shown[t][i].id = e.id
    BY DEF Control
  <2>1. unread[t] = 0
    <3>1. /\ DOMAIN pc = Programs /\ t \in Programs /\ Tools \subseteq Programs
          /\ Tbman \notin Tools /\ Tbman \in Programs
      BY <1>1, ConstantsAssumption DEF MissInv, DumpInv, FilterInv, FilterType, ProgramType,
                                       Programs
    <3>2. ASSUME NEW u \in Tools, StartDump(u) \/ DumpStep(u) PROVE u = t /\ Fetch(t)
      <4>1. /\ \E to : pc' = [pc EXCEPT ![u] = to]
            /\ Fetch(u) \/ pc[u] # "fetch"
        BY <3>2 DEF StartDump, DumpStep, FindDevices, Fetch, Lookup, ReadRegisters,
                    ReadAdapters, ReadPaths, PrintEntry, EndDump, Start, Goto
      <4>. QED BY <3>1, <4>1
    <3>3. ASSUME NEW u \in Programs, \/ EnableStep(u)
                                     \/ \E to : Start(u, to)
          PROVE  FALSE
      <4>1. pc[u] # "fetch" /\ \E to : pc' = [pc EXCEPT ![u] = to]
        BY <3>3 DEF EnableStep, AddFilter, SetCurrentTracer, SetTraceClock, DoEnable, Start,
                    Goto
      <4>. QED BY <3>1, <4>1
    <3>4. ASSUME pc' = pc PROVE FALSE
      BY <3>4
    <3>5. ASSUME NEW p \in Places, Packet(p) \/ Plug(p) \/ Unplug(p) \/ UpdateList(p)
          PROVE  FALSE
      BY <3>4, <3>5 DEF Packet, Plug, Unplug, UpdateList
    <3>6. ASSUME NEW u \in Tools, \/ \E d \in Domains \union {All} : StartEnable(u, d)
                                  \/ StartDisable(u) \/ Clear(u)
          PROVE  FALSE
      BY <3>1, <3>3, <3>6 DEF StartEnable, StartDisable, Clear
    <3>7. ASSUME EnableTrace \/ ReadEntries \/ ClearTrace \/ ViewPacket PROVE FALSE
      BY <3>1, <3>3, <3>7 DEF EnableTrace, ReadEntries, ClearTrace, ViewPacket, TbmanCommand
    <3>8. Fetch(t)
      BY <1>1, <3>2, <3>3, <3>4, <3>5, <3>6, <3>7 DEF Next, vars
    <3>. QED BY <3>1, <3>8 DEF Fetch, Goto
  <2>2. PICK i \in DOMAIN buffer : e = buffer[i]
    BY DEF ToSet
  <2>3. i \in ReadAt(t) /\ UnreadAt(t) = {}
    <3>1. Len(buffer) \in Nat /\ DOMAIN buffer = 1..Len(buffer)
      BY <1>1 DEF MissInv, DumpInv, BufferOK
    <3>. QED BY <2>1, <3>1 DEF ReadAt, UnreadAt
  <2>4. lines[t] = <<>> /\ Accounted(t, e.id)
    BY <1>1, <2>2, <2>3 DEF MissInv, MissOK, Reading
  <2>. QED BY <2>3, <2>4 DEF Accounted
<1>. QED BY <1>1, MissInit, MissNext, PTL DEF Spec, NothingMissed
=============================================================================
