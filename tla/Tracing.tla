------------------------------- MODULE Tracing -------------------------------
(***************************************************************************)
(* The trace of the control packets: src/trace.rs, tbtrace and the trace   *)
(* of tbman. Programs turn the tracing of the kernel on and off, filter    *)
(* and clear it, and print what it has recorded. A verbose dump looks up   *)
(* the names of the registers, for which it reads them, and with each read *)
(* puts packets of its own into the very trace that it prints.             *)
(***************************************************************************)
EXTENDS Naturals, Sequences, FiniteSets, SequencesExt

CONSTANTS
    Tools,        \* runs of tbtrace
    Tbman,        \* the UI thread of tbman
    Places,       \* where a router can be: a domain and a route
    Domains,
    All,          \* no filter
    DomainOf,     \* the domain of each place
    RouteOf,      \* and its route
    Sent,         \* the kinds of packets that are sent
    Lane1,        \* places where lane 1 adapters have no path config space
    MaxBuffer,    \* entries the buffer of the kernel holds
    MaxRouters, MaxEvents, MaxCommands

Programs == Tools \union {Tbman}

VARIABLES
    filter,     \* the domain that is traced, or All
    enabled,    \* events/thunderbolt/enable
    buffer,     \* the entries the kernel holds
    router,     \* the router at each place, or Nothing
    home,       \* history: the routers that have been at each place
    traffic,    \* packets sent so far, but for those of the programs
    commands,   \* commands started so far
    only,       \* history: the domain that tracing was enabled for, or All
    pc,
    asked,      \* the filter an enable command is going to set, or All
    unread,     \* entries at the end of the buffer a dump has not fetched
    lines,      \* entries it has fetched and not handled
    cache,      \* the routers it has found and the registers it holds of each
    shown,      \* the packets it has printed, with the names
    entries,    \* tbman: the entries in the dialog
    uevents,    \* places whose changes tbman has not seen
    listed      \* tbman: the routers in the list and the registers it holds

kernelVars == <<filter, enabled, buffer>>
busVars == <<router, home, traffic>>
dumpVars == <<lines, cache, shown>>
tbmanVars == <<uevents, entries, listed>>
vars == <<kernelVars, busVars, commands, only, pc, asked, unread, dumpVars,
          tbmanVars>>

\* What is read of a router: Unread, or the router it was read from, which is
\* Nothing when there was none.
Unread == 0
Nothing == 1
Routers == 2..(MaxRouters + 1)
Parts == {"regs", "adapters", "paths"}
Fresh == [part \in Parts |-> Unread]

\* The registers an entry is about: a packet of a config space belongs to the
\* registers, the adapters or the paths of its router.
Config == [kind : {"config"}, part : Parts]
Payload == Config \union [kind : {"plug", "xdomain", "unknown"}, part : {"regs"}]

ASSUME ConstantsAssumption ==
    /\ Tbman \notin Tools /\ All \notin Domains
    /\ DomainOf \in [Places -> Domains]
    /\ \A p, q \in Places : DomainOf[p] = DomainOf[q] /\ RouteOf[p] = RouteOf[q] => p = q
    /\ Sent \subseteq Payload
    /\ Lane1 \subseteq Places
    /\ MaxBuffer \in Nat /\ MaxBuffer >= 2

\* Packets of the programs themselves have the number 0.
Entry == [place : Places, id : Nat, function : {"tb_rx", "tb_event"}, payload : Payload]

\* Mutant: dump() skips every event.
PrintedNoEvent(e) == e.payload.kind # "unknown" /\ e.function # "tb_event"

\* dump() skips what is no control packet, and the event of an inter-domain
\* packet, which is in the trace a second time as received.
Printed(e) == /\ e.payload.kind # "unknown"
              /\ ~(e.payload.kind = "xdomain" /\ e.function = "tb_event")

-----------------------------------------------------------------------------
(***************************************************************************)
(* The kernel: tracing, and the routers.                                   *)
(***************************************************************************)
Recorded(p) == enabled /\ filter \in {All, DomainOf[p]}

Asking == {"regs", "adapters", "paths"}
Handling == Asking \union {"entry", "show"}
Reading == Handling \union {"find", "fetch"}

Smaller(a, b) == IF a < b THEN a ELSE b

\* The entries es of place p go into the buffer, the oldest ones give way. A
\* dump that reads has them to fetch.
Record(p, es) ==
    IF Recorded(p)
    THEN /\ buffer' = LET all == buffer \o es IN
                      SubSeq(all, Len(all) + 1 - Smaller(Len(all), MaxBuffer), Len(all))
         /\ unread' = [t \in Tools |->
                         IF pc[t] \in Reading
                         THEN Smaller(unread[t] + Len(es), MaxBuffer) ELSE unread[t]]
    ELSE UNCHANGED <<buffer, unread>>

EntryOf(p, id, function, payload) ==
    [place |-> p, id |-> id, function |-> function, payload |-> payload]

\* A packet that a read of a program causes.
RecordOwn(p, part) ==
    Record(p, <<EntryOf(p, 0, "tb_rx", [kind |-> "config", part |-> part])>>)

\* Packets and routers that come have one bound.
Eventful == traffic + Cardinality(UNION {home[q] : q \in Places}) < MaxEvents

Packet(p) ==
    /\ Eventful /\ router[p] # Nothing
    /\ traffic' = traffic + 1
    /\ \E pl \in Sent :
         Record(p, CASE pl.kind = "xdomain" ->
                          <<EntryOf(p, traffic + 1, "tb_event", pl),
                            EntryOf(p, traffic + 1, "tb_rx", pl)>>
                     [] pl.kind = "plug" -> <<EntryOf(p, traffic + 1, "tb_event", pl)>>
                     [] OTHER -> <<EntryOf(p, traffic + 1, "tb_rx", pl)>>)
    /\ UNCHANGED <<filter, enabled, router, home, commands, only, pc, asked,
                   dumpVars, tbmanVars>>

Plug(p) ==
    /\ Eventful /\ router[p] = Nothing
    /\ \E r \in Routers :
         /\ r = Cardinality(UNION {home[q] : q \in Places}) + 2
         /\ router' = [router EXCEPT ![p] = r]
         /\ home' = [home EXCEPT ![p] = @ \union {r}]
    /\ uevents' = uevents \union {p}
    /\ UNCHANGED <<kernelVars, traffic, commands, only, pc, asked, unread,
                   dumpVars, entries, listed>>

Unplug(p) ==
    /\ router[p] # Nothing
    /\ router' = [router EXCEPT ![p] = Nothing]
    /\ uevents' = uevents \union {p}
    /\ UNCHANGED <<kernelVars, home, traffic, commands, only, pc, asked, unread,
                   dumpVars, entries, listed>>

-----------------------------------------------------------------------------
(***************************************************************************)
(* Enabling, disabling and clearing. Each write to tracefs may fail, which *)
(* ends the command there.                                                 *)
(***************************************************************************)
Goto(t, to) == pc' = [pc EXCEPT ![t] = to]

Start(t, to) == /\ pc[t] = "idle" /\ commands < MaxCommands
                /\ commands' = commands + 1
                /\ Goto(t, to)

Enabling == {"filter", "tracer", "clock", "enable"}

\* Tracing starts for domain d when no other program enables it and it is off.
Wanted(t, d) ==
    IF ~enabled /\ \A u \in Programs \ {t} : pc[u] \notin Enabling THEN d ELSE All

\* tbtrace enable, with a domain or without one.
StartEnable(t, d) ==
    /\ Start(t, IF d = All THEN "tracer" ELSE "filter")
    /\ asked' = [asked EXCEPT ![t] = d]
    /\ only' = Wanted(t, d)
    /\ UNCHANGED <<kernelVars, busVars, unread, dumpVars, tbmanVars>>

\* Mutant: a filter that cannot be set is no reason not to enable tracing.
AddFilterIgnored(t) ==
    /\ pc[t] = "filter"
    /\ filter' \in {filter, asked[t]} /\ Goto(t, "tracer")
    /\ asked' = [asked EXCEPT ![t] = All]
    /\ UNCHANGED <<enabled, buffer, busVars, commands, only, unread, dumpVars, tbmanVars>>

AddFilter(t) ==
    /\ pc[t] = "filter"
    /\ \/ filter' = asked[t] /\ Goto(t, "tracer")
       \/ Goto(t, "idle") /\ UNCHANGED filter
    /\ asked' = [asked EXCEPT ![t] = All]
    /\ UNCHANGED <<enabled, buffer, busVars, commands, only, unread, dumpVars, tbmanVars>>

SetCurrentTracer(t) ==
    /\ pc[t] = "tracer"
    /\ Goto(t, "clock") \/ Goto(t, "idle")
    /\ UNCHANGED <<kernelVars, busVars, commands, only, asked, unread, dumpVars,
                   tbmanVars>>

\* The kernel may empty the buffer, whose timestamps are of another clock.
Emptied == buffer' = <<>> /\ unread' = [t \in Tools |-> 0]

SetTraceClock(t) ==
    /\ pc[t] = "clock"
    /\ \/ Goto(t, "enable") /\ (Emptied \/ UNCHANGED <<buffer, unread>>)
       \/ Goto(t, "idle") /\ UNCHANGED <<buffer, unread>>
    /\ UNCHANGED <<filter, enabled, busVars, commands, only, asked, dumpVars,
                   tbmanVars>>

DoEnable(t) ==
    /\ pc[t] \in {"enable", "disable"}
    /\ enabled' \in {enabled, pc[t] = "enable"}
    /\ Goto(t, "idle")
    /\ UNCHANGED <<filter, buffer, busVars, commands, only, asked, unread,
                   dumpVars, tbmanVars>>

StartDisable(t) ==
    /\ Start(t, "disable")
    /\ UNCHANGED <<kernelVars, busVars, only, asked, unread, dumpVars, tbmanVars>>

\* F3 of tbman turns tracing off or on, without a filter of its own.
EnableTrace ==
    /\ Start(Tbman, IF enabled THEN "disable" ELSE "tracer")
    /\ only' = IF enabled THEN only ELSE All
    /\ UNCHANGED <<kernelVars, busVars, asked, unread, dumpVars, tbmanVars>>

Clear(t) ==
    /\ Start(t, "idle")
    /\ Emptied
    /\ UNCHANGED <<filter, enabled, busVars, only, asked, dumpVars, tbmanVars>>

-----------------------------------------------------------------------------
(***************************************************************************)
(* tbtrace dump.                                                           *)
(***************************************************************************)
\* The command is over, with or without an error.
EndDump(t) ==
    /\ Goto(t, "idle")
    /\ unread' = [unread EXCEPT ![t] = 0]
    /\ lines' = [lines EXCEPT ![t] = <<>>]
    /\ cache' = [cache EXCEPT ![t] = <<>>]
    /\ shown' = [shown EXCEPT ![t] = <<>>]

\* The buffer is opened; only a verbose dump looks for the routers.
StartDump(t) ==
    /\ \E verbose \in BOOLEAN : Start(t, IF verbose THEN "find" ELSE "fetch")
    /\ unread' = [unread EXCEPT ![t] = Len(buffer)]
    /\ UNCHANGED <<kernelVars, busVars, only, asked, dumpVars, tbmanVars>>

FindDevices(t) ==
    /\ pc[t] = "find"
    /\ \/ /\ cache' = [cache EXCEPT ![t] =
                         [p \in {q \in Places : router[q] # Nothing} |-> Fresh]]
          /\ Goto(t, "fetch")
          /\ UNCHANGED <<unread, lines, shown>>
       \/ EndDump(t)
    /\ UNCHANGED <<kernelVars, busVars, commands, only, asked, tbmanVars>>

\* Mutant: at the end of the trace the reader waits for more, as that of
\* trace_pipe does.
FetchWaits(t) ==
    /\ pc[t] = "fetch"
    /\ \E n \in 1..unread[t] :
         /\ lines' = [lines EXCEPT ![t] =
              SubSeq(buffer, Len(buffer) - unread[t] + 1, Len(buffer) - unread[t] + n)]
         /\ unread' = [unread EXCEPT ![t] = @ - n]
    /\ Goto(t, "entry")
    /\ UNCHANGED <<kernelVars, busVars, commands, only, asked, cache, shown, tbmanVars>>

\* Mutant: the last line taken is taken again the next time.
FetchAgain(t) ==
    /\ pc[t] = "fetch"
    /\ \/ \E n \in 1..unread[t] :
            /\ lines' = [lines EXCEPT ![t] =
                 SubSeq(buffer, Len(buffer) - unread[t] + 1, Len(buffer) - unread[t] + n)]
            /\ unread' = [unread EXCEPT ![t] = @ - n + 1]
            /\ Goto(t, "entry")
            /\ UNCHANGED <<cache, shown>>
       \/ unread[t] = 0 /\ EndDump(t)
    /\ UNCHANGED <<kernelVars, busVars, commands, only, asked, tbmanVars>>

\* The reader takes as many lines as its own buffer holds, and ends with the
\* trace.
Fetch(t) ==
    /\ pc[t] = "fetch"
    /\ \/ \E n \in 1..unread[t] :
            /\ lines' = [lines EXCEPT ![t] =
                 SubSeq(buffer, Len(buffer) - unread[t] + 1, Len(buffer) - unread[t] + n)]
            /\ unread' = [unread EXCEPT ![t] = @ - n]
            /\ Goto(t, "entry")
            /\ UNCHANGED <<cache, shown>>
       \/ unread[t] = 0 /\ EndDump(t)
    /\ UNCHANGED <<kernelVars, busVars, commands, only, asked, tbmanVars>>

\* The routers that devices has for the entry e, at most one.
Found(devices, e) ==
    {p \in DOMAIN devices : DomainOf[p] = DomainOf[e.place] /\ RouteOf[p] = RouteOf[e.place]}

TheDevice(t) == CHOOSE p \in Found(cache[t], Head(lines[t])) : TRUE

Lookup(t) ==
    /\ pc[t] = "entry"
    /\ Goto(t, IF Found(cache[t], Head(lines[t])) # {} THEN "regs" ELSE "show")
    /\ UNCHANGED <<kernelVars, busVars, commands, only, asked, unread, dumpVars,
                   tbmanVars>>

Hold(t, p, part) == cache' = [cache EXCEPT ![t][p][part] = router[p]]

\* An error ends the dump, and so does a router that is not there any more.
ReadRegisters(t) ==
    LET p == TheDevice(t)
        have == cache[t][p]["regs"] # Unread IN
    /\ pc[t] = "regs"
    /\ \/ /\ have /\ Goto(t, "adapters")
          /\ UNCHANGED <<buffer, unread, dumpVars>>
       \/ /\ ~have /\ router[p] # Nothing
          /\ Hold(t, p, "regs") /\ RecordOwn(p, "regs") /\ Goto(t, "adapters")
          /\ UNCHANGED <<lines, shown>>
       \/ ~have /\ EndDump(t) /\ UNCHANGED buffer
    /\ UNCHANGED <<filter, enabled, busVars, commands, only, asked, tbmanVars>>

\* Adapters that are not there have no registers, which is no error; any other
\* error ends the dump.
ReadAdapters(t) ==
    LET p == TheDevice(t)
        have == cache[t][p]["adapters"] # Unread IN
    /\ pc[t] = "adapters"
    /\ \/ /\ Goto(t, "paths")
          /\ IF have THEN UNCHANGED cache ELSE Hold(t, p, "adapters")
          /\ IF have \/ router[p] = Nothing THEN UNCHANGED <<buffer, unread>>
             ELSE RecordOwn(p, "adapters")
          /\ UNCHANGED <<lines, shown>>
       \/ ~have /\ EndDump(t) /\ UNCHANGED buffer
    /\ UNCHANGED <<filter, enabled, busVars, commands, only, asked, tbmanVars>>

\* An error is ignored, and the paths are read again for the next entry: those
\* of the lane 1 adapters without a path config space each time.
ReadPaths(t) ==
    LET p == TheDevice(t)
        have == cache[t][p]["paths"] # Unread IN
    /\ pc[t] = "paths"
    /\ Goto(t, "show")
    /\ IF have \/ router[p] = Nothing THEN UNCHANGED cache ELSE Hold(t, p, "paths")
    /\ IF (have /\ p \notin Lane1) \/ router[p] = Nothing THEN UNCHANGED <<buffer, unread>>
       ELSE RecordOwn(p, "paths")
    /\ UNCHANGED <<filter, enabled, busVars, commands, only, asked, lines, shown,
                   tbmanVars>>

\* The router whose registers give the data of e their names.
Names(devices, e) ==
    IF e.payload.kind = "config" /\ Found(devices, e) # {}
    THEN devices[CHOOSE p \in Found(devices, e) : TRUE][e.payload.part] ELSE Unread

\* Mutant: the last entry of those fetched is not the last.
PrintEntryOn(t) ==
    /\ pc[t] = "show"
    /\ lines' = [lines EXCEPT ![t] = Tail(@)]
    /\ Goto(t, "entry")
    /\ UNCHANGED <<kernelVars, busVars, commands, only, asked, unread, cache, shown,
                   tbmanVars>>

\* shown leaves the packets of the programs out.
PrintEntry(t) ==
    LET e == Head(lines[t]) IN
    /\ pc[t] = "show"
    /\ shown' = IF Printed(e) /\ e.id # 0
                THEN [shown EXCEPT ![t] = Append(@, [id |-> e.id, place |-> e.place,
                                                     names |-> Names(cache[t], e)])]
                ELSE shown
    /\ lines' = [lines EXCEPT ![t] = Tail(@)]
    /\ Goto(t, IF Tail(lines[t]) = <<>> THEN "fetch" ELSE "entry")
    /\ UNCHANGED <<kernelVars, busVars, commands, only, asked, unread, cache, tbmanVars>>

-----------------------------------------------------------------------------
(***************************************************************************)
(* The trace dialog of tbman.                                              *)
(***************************************************************************)
TbmanCommand ==
    Start(Tbman, "idle") /\ UNCHANGED <<filter, enabled, busVars, only, asked, dumpVars,
                                      uevents>>

\* Mutant: a router that is in the list keeps the Device it has there.
UpdateListKeeps(p) ==
    /\ p \in uevents /\ uevents' = uevents \ {p}
    /\ listed' = IF router[p] = Nothing
                 THEN [q \in DOMAIN listed \ {p} |-> listed[q]]
                 ELSE [q \in DOMAIN listed \union {p} |->
                         IF q \in DOMAIN listed THEN listed[q] ELSE Fresh]
    /\ UNCHANGED <<kernelVars, busVars, commands, only, pc, asked, unread, dumpVars, entries>>

\* With the event of a router the list gets a Device of it, or loses it.
UpdateList(p) ==
    /\ p \in uevents /\ uevents' = uevents \ {p}
    /\ listed' = IF router[p] = Nothing
                 THEN [q \in DOMAIN listed \ {p} |-> listed[q]]
                 ELSE [q \in DOMAIN listed \union {p} |-> IF q = p THEN Fresh ELSE listed[q]]
    /\ UNCHANGED <<kernelVars, busVars, commands, only, pc, asked, unread, dumpVars, entries>>

\* F4 and F5.
ReadEntries ==
    /\ TbmanCommand
    /\ entries' = buffer
    /\ UNCHANGED <<buffer, unread, listed>>

\* F2; when it fails the entries stay.
ClearTrace ==
    /\ TbmanCommand
    /\ Emptied /\ entries' = <<>>
    /\ UNCHANGED <<listed>>

\* What fetch_device_registers() reads of the router for e.
Needed(e) ==
    CASE e.payload.kind = "config" /\ e.payload.part = "regs" -> {"regs"}
      [] e.payload.kind = "config" /\ e.payload.part = "paths" -> Parts
      [] e.payload.kind \in {"xdomain", "unknown"} -> {}
      [] OTHER -> {"regs", "adapters"}

\* The registers tbman holds of a router after it has read those for e: when
\* the router is gone the first error ends the reading, without a message.
Fetched(device, r, e) ==
    [part \in Parts |->
        IF part \notin Needed(e) \/ device[part] # Unread THEN device[part]
        ELSE IF r # Nothing THEN r
        ELSE IF part = "adapters" /\ device["regs"] # Unread THEN Nothing
        ELSE Unread]

\* Enter: the details of a packet, with what registers can be read.
ViewPacket ==
    \E e \in ToSet(entries) :
        /\ TbmanCommand
        /\ listed' = [p \in DOMAIN listed |-> IF p \in Found(listed, e)
                                              THEN Fetched(listed[p], router[p], e)
                                              ELSE listed[p]]
        /\ IF listed' # listed /\ router[e.place] # Nothing
           THEN RecordOwn(e.place, "regs") ELSE UNCHANGED <<buffer, unread>>
        /\ UNCHANGED entries

-----------------------------------------------------------------------------
Init ==
    /\ filter = All /\ enabled = FALSE /\ buffer = <<>>
    /\ router = [p \in Places |-> Nothing] /\ home = [p \in Places |-> {}]
    /\ traffic = 0 /\ commands = 0 /\ only = All
    /\ pc = [t \in Programs |-> "idle"]
    /\ asked = [t \in Programs |-> All]
    /\ unread = [t \in Tools |-> 0]
    /\ lines = [t \in Tools |-> <<>>]
    /\ cache = [t \in Tools |-> <<>>]
    /\ shown = [t \in Tools |-> <<>>]
    /\ uevents = {} /\ entries = <<>> /\ listed = <<>>

\* A command that a program has started.
EnableStep(t) == AddFilter(t) \/ SetCurrentTracer(t) \/ SetTraceClock(t) \/ DoEnable(t)

DumpStep(t) ==
    \/ FindDevices(t) \/ Fetch(t) \/ Lookup(t)
    \/ ReadRegisters(t) \/ ReadAdapters(t) \/ ReadPaths(t) \/ PrintEntry(t)

Next ==
    \/ \E p \in Places : Packet(p) \/ Plug(p) \/ Unplug(p) \/ UpdateList(p)
    \/ \E t \in Tools : \/ \E d \in Domains \union {All} : StartEnable(t, d)
                         \/ StartDisable(t) \/ Clear(t) \/ StartDump(t)
                         \/ DumpStep(t)
    \/ \E t \in Programs : EnableStep(t)
    \/ EnableTrace \/ ReadEntries \/ ClearTrace \/ ViewPacket

Spec == Init /\ [][Next]_vars

\* A dump that has been started goes on; that anything else happens is left open:
\* packets, routers that come and go, and all other commands.
Fairness == \A t \in Tools : WF_vars(DumpStep(t))

FairSpec == Spec /\ Fairness

-----------------------------------------------------------------------------
(***************************************************************************)
(* Properties.                                                             *)
(***************************************************************************)
IsDevices(f) == DOMAIN f \subseteq Places /\ f \in [DOMAIN f -> [Parts -> Nat]]
Line == [id : Nat, place : Places, names : Nat]

KernelType ==
    /\ filter \in Domains \union {All} /\ enabled \in BOOLEAN
    /\ buffer \in Seq(Entry) /\ Len(buffer) <= MaxBuffer
    /\ router \in [Places -> Nat] /\ home \in [Places -> SUBSET Nat]
    /\ traffic \in Nat

ProgramType ==
    /\ commands \in Nat /\ only \in Domains \union {All}
    /\ pc \in [Programs -> Enabling \union Reading \union {"idle", "disable"}]
    /\ asked \in [Programs -> Domains \union {All}]

DumpType ==
    /\ unread \in [Tools -> 0..Len(buffer)]
    /\ lines \in [Tools -> Seq(Entry)]
    /\ cache = [t \in Tools |-> cache[t]] /\ \A t \in Tools : IsDevices(cache[t])
    /\ shown \in [Tools -> Seq(Line)]
    /\ \A t \in Tools : pc[t] \in Handling => lines[t] # <<>>
    /\ \A t \in Tools : pc[t] \in Asking => Found(cache[t], Head(lines[t])) # {}

TbmanType ==
    uevents \subseteq Places /\ entries \in Seq(Entry) /\ IsDevices(listed)

\* Every variable has its type; no dump has more to fetch than there is, nor
\* handles an entry that it has not fetched or reads a router it does not have.
TypeOK == KernelType /\ ProgramType /\ DumpType /\ TbmanType

\* Tracing that one program has turned on for a domain records packets of that
\* domain only, from the first packet on and whatever write to tracefs fails,
\* until another program enables it differently.
OnlyAskedDomain ==
    \A p \in Places : Recorded(p) => only \in {All, DomainOf[p]}

\* A dump prints the packets in the order in which they were sent and none
\* twice, however the buffer runs over while it reads and whoever empties it.
ShownInOrder ==
    \A t \in Tools : \A i, j \in DOMAIN shown[t] :
        i < j => shown[t][i].id < shown[t][j].id

\* A packet gets its names from registers of a router at the place the packet
\* came from or went to, never from one of another domain with the same route. It
\* need not be the very router of the packet, if that has been replaced; but when
\* tbman has seen that, no name is from what was read of the router before.
NamesOfRouter ==
    /\ \A t \in Tools : \A i \in DOMAIN shown[t] :
         shown[t][i].names \in {Unread, Nothing} \union home[shown[t][i].place]
    /\ \A i \in DOMAIN entries :
         LET place == entries[i].place IN
         /\ Names(listed, entries[i]) \in {Unread, Nothing} \union home[place]
         /\ place \notin uevents => Names(listed, entries[i]) \in {Unread, router[place]}

\* A dump that ends without an error has printed every control packet that is
\* in the buffer then, with what came while it was reading.
NothingMissed ==
    [][\A t \in Tools : pc[t] = "fetch" /\ pc'[t] = "idle" =>
        \A e \in ToSet(buffer) : e.id # 0 /\ e.payload.kind # "unknown" =>
            \E i \in DOMAIN shown[t] : shown[t][i].id = e.id]_vars

\* A dump does not feed on the packets of its own reads: it ends, unless tracing
\* stays on while it reads paths of lane 1 adapters that cannot be read.
DumpEnds ==
    \A t \in Tools :
        \/ []<>(pc[t] \notin Reading)
        \/ []<>(enabled /\ \E p \in Lane1 : router[p] # Nothing)
=============================================================================
