----------------------------- MODULE RouterTools -----------------------------
(***************************************************************************)
(* tbget, tbset and tbdump on the registers and the device ROM of one      *)
(* router, run side by side.                                               *)
(*                                                                         *)
(* A tool reads a file of debugfs at once, works on what it has read, and  *)
(* tbset writes the registers it has marked back, one file after the       *)
(* other; nothing keeps two tools, the router or its user apart meanwhile. *)
(* The kernel writes register by register and stops at the first one that  *)
(* fails; the BufWriter that is dropped then tries once more.              *)
(*                                                                         *)
(* A register is its number in the order in which the files are written.   *)
(***************************************************************************)
EXTENDS RegisterFields, Drom, SequencesExt

CONSTANTS
    Tools,       \* the processes
    Registers,   \* the registers of the router and of one adapter
    SpaceOf,     \* the configuration space of each register
    Named,       \* the registers the metadata has a name for
    MaxAdapter,  \* the register that tells the highest adapter, ROUTER_CS_1
    NumAdapters, \* the highest adapter it tells
    Volatile,    \* those the router may change itself
    Contents,    \* what the registers may hold after a reset
    Lane1,       \* whether the adapter is the second one of a link
    Droms,       \* what the device ROM may hold
    Commands,    \* the command lines each may be started with
    MaxEvents    \* bound on unplugs and changes the router makes itself

Spaces == {"router", "adapter", "path", "counters"}

Regs(space) == {r \in Registers : SpaceOf[r] = space}

\* One register=value of the command line of tbset, or one register of tbget.
Argument == [reg : Int, by : {"offset", "name", "malformed"},
             part : {"whole", "field", "unknown"}, field : Field, bits : Value]

Command == [prog : {"get", "query", "set", "dump"}, adapter : Nat,
            space : Spaces \union {"drom"}, verbose : BOOLEAN,
            from : Int, byName : BOOLEAN, nregs : Nat, args : Seq(Argument)]

\* Without an adapter the space is the router's, or the ROM.
Sensible(c) ==
    /\ c.adapter = 0 => c.space \in {"router", "drom"}
    /\ c.adapter # 0 => c.space # "router"
    /\ c.space = "drom" => c.prog = "dump"
    /\ c.prog = "set" => c.args # <<>>
    /\ \A a \in ToSet(c.args) : a.by = "offset" => a.part = "whole"

ASSUME RegistersAssumption ==
    /\ Registers \subseteq Int
    /\ Named \subseteq Registers /\ Volatile \subseteq Registers
    /\ SpaceOf \in [Registers -> Spaces]
    /\ MaxAdapter \in Regs("router") /\ NumAdapters \in Nat
    /\ Lane1 \in BOOLEAN
ASSUME CommandsAssumption ==
    \A t \in Tools : \A c \in Commands[t] : c \in Command /\ Sensible(c)
ASSUME ContentsAssumption == Contents \subseteq [Registers -> Value]
ASSUME DromsAssumption == \A d \in Droms : IsDrom(d)
ASSUME BoundsAssumption == MaxEvents \in Nat

VARIABLES
    plugged,     \* whether the router is connected
    hw,          \* its registers
    events,      \* unplugs and changes of its own so far
    cmd,         \* the command line of each tool
    pc,          \* where it is
    have,        \* the spaces it has read
    known,       \* the registers it has read
    cache,       \* their values
    marked,      \* those it has marked as changed
    next,        \* the argument it is at
    file,        \* the file it writes
    rom,         \* the device ROM it has read
    offset,      \* where the next entry of the ROM begins
    printed,     \* how often it has printed each byte of the ROM
    shown,       \* the fields it has printed
    undisturbed  \* the registers only it has changed since it read them

routerVars == <<plugged, hw, events>>
readVars   == <<have, known, cache>>
argVars    == <<marked, next, shown>>
romVars    == <<rom, offset, printed>>
toolVars   == <<cmd, pc, readVars, argVars, file, romVars>>
vars       == <<routerVars, toolVars, undisturbed>>

Writing == {"write", "retry"}
Ended   == {"ok", "error", "panic"}
Places  == Writing \union Ended \union
           {"idle", "find", "router", "adapters", "space", "rom", "args", "entries"}

NoCommand == [prog |-> "none"]

\* All of a register.
Whole == [lo |-> 0, hi |-> Width - 1]

-----------------------------------------------------------------------------
(***************************************************************************)
(* The router. What changes a register disturbs the tools that have read   *)
(* it, all but the one that changes it.                                    *)
(***************************************************************************)
Disturb(others) ==
    undisturbed' = [t \in Tools |->
        IF t \in others THEN {r \in undisturbed[t] : hw'[r] = hw[r]}
                        ELSE undisturbed[t]]

Flipped(v, b) == (v \ {b}) \union ({b} \ v)

HardwareChanges ==
    /\ plugged /\ events < MaxEvents
    /\ events' = events + 1
    /\ \E r \in Volatile, b \in Bits : hw' = [hw EXCEPT ![r] = Flipped(@, b)]
    /\ Disturb(Tools)
    /\ UNCHANGED <<plugged, toolVars>>

Unplug ==
    /\ plugged /\ events < MaxEvents
    /\ plugged' = FALSE
    /\ events' = events + 1
    /\ UNCHANGED <<hw, toolVars, undisturbed>>

\* A router that is connected again has been reset.
Plug ==
    /\ ~plugged
    /\ plugged' = TRUE
    /\ hw' \in Contents
    /\ Disturb(Tools)
    /\ UNCHANGED <<events, toolVars>>

-----------------------------------------------------------------------------
(***************************************************************************)
(* How the tools start and read. Any read may fail; a register the kernel  *)
(* cannot read is a line without a value, which is skipped.                *)
(***************************************************************************)
Goto(t, place) == pc' = [pc EXCEPT ![t] = place]

\* A step that nothing comes of but the place it leads to.
Stop(t, place) ==
    /\ Goto(t, place)
    /\ UNCHANGED <<routerVars, cmd, readVars, argVars, file, romVars, undisturbed>>

Start(t) ==
    /\ pc[t] = "idle"
    /\ \E c \in Commands[t] : cmd' = [cmd EXCEPT ![t] = c]
    /\ Goto(t, "find")
    /\ UNCHANGED <<routerVars, readVars, argVars, file, romVars, undisturbed>>

\* What a tool refuses before it reads anything.
Refused(c) ==
    \/ c.prog = "dump" /\ c.adapter # 0 /\ c.space = "drom"
    \/ c.prog = "set" /\ \E a \in ToSet(c.args) : a.by = "malformed"

FindDevice(t) ==
    /\ pc[t] = "find"
    /\ \/ Stop(t, "error")
       \/ plugged /\ ~Refused(cmd[t]) /\ Stop(t, "router")

\* The registers regs of a space, as they are now.
ReadFile(t, space, regs) ==
    /\ regs \subseteq Regs(space)
    /\ have' = [have EXCEPT ![t] = @ \union {space}]
    /\ known' = [known EXCEPT ![t] = @ \union regs]
    /\ cache' = [cache EXCEPT ![t] =
                     [r \in Registers |-> IF r \in regs THEN hw[r] ELSE @[r]]]
    /\ undisturbed' = [undisturbed EXCEPT ![t] = @ \union regs]
    /\ UNCHANGED <<routerVars, cmd, argVars, file, romVars>>

\* read_registers() accesses the first register, whether there is one or not.
ReadRouter(t) ==
    /\ pc[t] = "router"
    /\ \/ Stop(t, "error")
       \/ plugged /\ Stop(t, "panic")
       \/ /\ plugged
          /\ \E regs \in SUBSET Regs("router") : regs # {} /\ ReadFile(t, "router", regs)
          /\ Goto(t, IF cmd[t].adapter # 0 \/ cmd[t].space = "drom"
                     THEN "adapters" ELSE "args")

\* Where a tool goes with the adapters of the router.
FromAdapters(c) ==
    CASE c.space = "drom"                                      -> "rom"
      [] c.space # "drom" /\ c.adapter > NumAdapters           ->
             IF c.prog \in {"get", "set"} THEN "error" ELSE "ok"
      [] c.space = "adapter" /\ c.adapter <= NumAdapters       -> "args"
      [] c.space \in {"path", "counters"} /\ c.adapter <= NumAdapters -> "space"

\* read_adapters() unwraps the number of adapters, and accesses the third
\* register of each. An adapter whose file is not there has no registers.
ReadAdapters(t) ==
    /\ pc[t] = "adapters"
    /\ \/ Stop(t, "error")
       \/ plugged /\ Stop(t, "panic")
       \/ MaxAdapter \notin known[t] /\ Stop(t, "panic")
       \/ MaxAdapter \in known[t] /\ Stop(t, FromAdapters(cmd[t]))
       \/ /\ plugged /\ MaxAdapter \in known[t]
          /\ cmd[t].adapter \in 1..NumAdapters
          /\ \E regs \in SUBSET Regs("adapter") : ReadFile(t, "adapter", regs)
          /\ Goto(t, FromAdapters(cmd[t]))

ClearsCounters(c) == c.prog = "set" /\ c.space = "counters"

\* An error is fine on the second adapter of a link.
ReadSpace(t) ==
    /\ pc[t] = "space"
    /\ ~ClearsCounters(cmd[t])
    /\ \/ Stop(t, IF Lane1 /\ "adapter" \in have[t] THEN "args" ELSE "error")
       \/ /\ plugged
          /\ \E regs \in SUBSET Regs(cmd[t].space) : ReadFile(t, cmd[t].space, regs)
          /\ Goto(t, "args")

-----------------------------------------------------------------------------
(***************************************************************************)
(* The arguments of tbget and tbset, one after the other. What is not      *)
(* found is a warning and nothing else.                                    *)
(***************************************************************************)
\* Mutant: a register that was not read is there, too.
FoundUnread(t, a) == SpaceOf[a.reg] = cmd[t].space

\* Registers of paths and counters have no names.
Found(t, a) ==
    /\ a.reg \in known[t] /\ SpaceOf[a.reg] = cmd[t].space
    /\ \/ a.by = "offset"
       \/ /\ a.by = "name" /\ a.reg \in Named /\ a.part # "unknown"
          /\ cmd[t].space \in {"router", "adapter"}

FieldOf(a) == IF a.part = "whole" THEN Whole ELSE a.field

AtArgument(t) == pc[t] = "args" /\ next[t] \in DOMAIN cmd[t].args

GetArgument(t) ==
    /\ AtArgument(t) /\ cmd[t].prog = "get"
    /\ LET a == cmd[t].args[next[t]] IN
         shown' = [shown EXCEPT ![t] =
             IF Found(t, a)
             THEN @ \union {[reg |-> a.reg, field |-> FieldOf(a),
                             bits |-> FieldValue(cache[t][a.reg], FieldOf(a))]}
             ELSE @]
    /\ next' = [next EXCEPT ![t] = @ + 1]
    /\ UNCHANGED <<routerVars, cmd, pc, readVars, marked, file, romVars, undisturbed>>

\* set_value() marks a register that changes, set_field() any.
Marks(t, a, v) == a.part = "field" \/ v # cache[t][a.reg]

SetArgument(t) ==
    /\ AtArgument(t) /\ cmd[t].prog = "set"
    /\ LET a == cmd[t].args[next[t]]
           v == SetField(cache[t][a.reg], FieldOf(a), a.bits)
       IN  IF Found(t, a)
           THEN /\ cache' = [cache EXCEPT ![t][a.reg] = v]
                /\ marked' = [marked EXCEPT ![t] =
                                  IF Marks(t, a, v) THEN @ \union {a.reg} ELSE @]
           ELSE UNCHANGED <<cache, marked>>
    /\ next' = [next EXCEPT ![t] = @ + 1]
    /\ UNCHANGED <<routerVars, cmd, pc, have, known, shown, file, romVars, undisturbed>>

\* The registers tbdump prints: a number of them from an offset on, or from a
\* register that it has to find by its name.
Dumped(t) ==
    LET regs == {r \in known[t] : SpaceOf[r] = cmd[t].space /\ r >= cmd[t].from}
    IN  {r \in regs : Cardinality({q \in regs : q <= r}) <= cmd[t].nregs}

NoSuchName(t) ==
    /\ cmd[t].byName
    /\ ~(/\ cmd[t].from \in known[t] \intersect Named
         /\ SpaceOf[cmd[t].from] = cmd[t].space)

DumpRegisters(t) ==
    /\ pc[t] = "args" /\ cmd[t].prog = "dump"
    /\ shown' = [shown EXCEPT ![t] =
           IF NoSuchName(t) THEN @
           ELSE {[reg |-> r, field |-> Whole, bits |-> cache[t][r]] : r \in Dumped(t)}]
    /\ Goto(t, IF cmd[t].space \in have[t] /\ NoSuchName(t) THEN "error" ELSE "ok")
    /\ UNCHANGED <<routerVars, cmd, readVars, marked, next, file, romVars, undisturbed>>

FirstFile(c) == IF c.adapter = 0 THEN "router" ELSE "adapter"

\* tbset goes on to write the registers.
FinishArguments(t) ==
    /\ pc[t] = "args"
    /\ \/ cmd[t].prog = "query" /\ Goto(t, "ok") /\ file' = file
       \/ cmd[t].prog = "get" /\ ~AtArgument(t) /\ Goto(t, "ok") /\ file' = file
       \/ /\ cmd[t].prog = "set" /\ ~AtArgument(t) /\ Goto(t, "write")
          /\ file' = [file EXCEPT ![t] = FirstFile(cmd[t])]
    /\ UNCHANGED <<routerVars, cmd, readVars, argVars, romVars, undisturbed>>

-----------------------------------------------------------------------------
(***************************************************************************)
(* How tbset writes.                                                       *)
(***************************************************************************)
ToWrite(t) == {r \in marked[t] : SpaceOf[r] = file[t]}

\* The kernel writes the registers that come before one that fails.
WrittenBefore(t, r) == {q \in ToWrite(t) : q < r}

WriteHw(t, regs) ==
    /\ hw' = [r \in Registers |-> IF r \in regs THEN cache[t][r] ELSE hw[r]]
    /\ Disturb(Tools \ {t})
    /\ UNCHANGED <<plugged, events, cmd, readVars, argVars, romVars>>

\* The next file, of the adapter: its paths.
NextFile(t) ==
    IF file[t] = "adapter"
    THEN Goto(t, "write") /\ file' = [file EXCEPT ![t] = "path"]
    ELSE Goto(t, "ok") /\ file' = file

WriteChanged(t) ==
    /\ pc[t] = "write"
    /\ \/ /\ file[t] \in have[t]
          /\ Stop(t, "error")
       \/ /\ file[t] \notin have[t] \/ plugged
          /\ WriteHw(t, IF file[t] \in have[t] THEN ToWrite(t) ELSE {})
          /\ NextFile(t)
       \/ /\ file[t] \in have[t] /\ plugged
          /\ \E r \in ToWrite(t) : WriteHw(t, WrittenBefore(t, r))
          /\ Goto(t, "retry") /\ file' = file

\* Mutant: the write is tried again until it works.
RetryForever(t) ==
    /\ pc[t] = "retry"
    /\ \/ ~plugged /\ WriteHw(t, {})
       \/ plugged /\ \E r \in ToWrite(t) : WriteHw(t, WrittenBefore(t, r))
       \/ plugged /\ WriteHw(t, ToWrite(t))
    /\ Goto(t, "write") /\ file' = file

\* The writer is dropped: it writes what it still holds, whatever comes of it.
Retry(t) ==
    /\ pc[t] = "retry"
    /\ \/ ~plugged /\ WriteHw(t, {})
       \/ plugged /\ \E r \in ToWrite(t) : WriteHw(t, WrittenBefore(t, r))
       \/ plugged /\ WriteHw(t, ToWrite(t))
    /\ Goto(t, "error") /\ file' = file

\* The counters are cleared at once; adapter registers, none of which has been
\* marked, are written afterwards. A clear that fails is tried again, too.
ClearCounters(t) ==
    /\ pc[t] = "space"
    /\ ClearsCounters(cmd[t])
    /\ \/ Stop(t, "error")
       \/ /\ plugged
          /\ hw' = [r \in Registers |-> IF SpaceOf[r] = "counters" THEN {} ELSE hw[r]]
          /\ Disturb(Tools \ {t})
          /\ \/ Goto(t, "error") /\ file' = file
             \/ Goto(t, "write") /\ file' = [file EXCEPT ![t] = FirstFile(cmd[t])]
          /\ UNCHANGED <<plugged, events, cmd, readVars, argVars, romVars>>

-----------------------------------------------------------------------------
(***************************************************************************)
(* The device ROM.                                                         *)
(***************************************************************************)
PrintBytes(t, from, to) ==
    printed' = [printed EXCEPT ![t] =
        [b \in DOMAIN @ |-> IF b \in from..to THEN @[b] + 1 ELSE @[b]]]

RomStep == UNCHANGED <<routerVars, cmd, readVars, argVars, file, undisturbed>>

\* The ROM is parsed as a whole. Without -vv its bytes are printed and no
\* more; otherwise the header is, and the first entry is taken to be there.
ReadDrom(t) ==
    /\ pc[t] = "rom"
    /\ \/ Stop(t, "error")
       \/ /\ plugged
          /\ \E d \in Droms :
               LET upto == IF cmd[t].verbose THEN HeaderSize(d) ELSE d.size IN
               /\ Accepted(d)
               /\ rom' = [rom EXCEPT ![t] = d]
               /\ printed' = [printed EXCEPT ![t] =
                      [b \in 0..(d.size - 1) |-> IF b < upto THEN 1 ELSE 0]]
               /\ offset' = [offset EXCEPT ![t] = upto]
               /\ Goto(t, IF ~cmd[t].verbose THEN "ok"
                          ELSE IF upto < d.size THEN "entries" ELSE "panic")
          /\ RomStep

\* Mutant: an entry ends where the next one begins.
NextEntryInclusive(t) ==
    /\ pc[t] = "entries"
    /\ IF offset[t] >= rom[t].size
       THEN Goto(t, "ok") /\ UNCHANGED romVars
       ELSE IF Fits(rom[t], offset[t]) /\ Parses(rom[t].at[offset[t]])
       THEN LET len == rom[t].at[offset[t]].len IN
            /\ PrintBytes(t, offset[t], offset[t] + len)
            /\ offset' = [offset EXCEPT ![t] = @ + len]
            /\ UNCHANGED <<pc, rom>>
       ELSE Goto(t, "panic") /\ UNCHANGED romVars
    /\ RomStep

\* An entry without length is printed as an unknown one, and is the next one
\* again: the tool takes this step for ever.
NextEntry(t) ==
    /\ pc[t] = "entries"
    /\ IF offset[t] >= rom[t].size
       THEN Goto(t, "ok") /\ UNCHANGED romVars
       ELSE IF Fits(rom[t], offset[t]) /\ Parses(rom[t].at[offset[t]])
       THEN LET len == rom[t].at[offset[t]].len IN
            /\ PrintBytes(t, offset[t], offset[t] + len - 1)
            /\ offset' = [offset EXCEPT ![t] = @ + len]
            /\ UNCHANGED <<pc, rom>>
       ELSE Goto(t, "panic") /\ UNCHANGED romVars
    /\ RomStep

-----------------------------------------------------------------------------
Init ==
    /\ plugged = TRUE /\ events = 0
    /\ hw \in Contents
    /\ cmd = [t \in Tools |-> NoCommand]
    /\ pc = [t \in Tools |-> "idle"]
    /\ have = [t \in Tools |-> {}] /\ known = [t \in Tools |-> {}]
    /\ cache = [t \in Tools |-> [r \in Registers |-> {}]]
    /\ marked = [t \in Tools |-> {}]
    /\ next = [t \in Tools |-> 1]
    /\ file = [t \in Tools |-> "router"]
    /\ offset = [t \in Tools |-> 0]
    /\ rom = [t \in Tools |-> NoDrom]
    /\ printed = [t \in Tools |-> [b \in {} |-> 0]]
    /\ shown = [t \in Tools |-> {}]
    /\ undisturbed = [t \in Tools |-> {}]

Read(t) == FindDevice(t) \/ ReadRouter(t) \/ ReadAdapters(t) \/ ReadSpace(t)

Work(t) == GetArgument(t) \/ SetArgument(t) \/ DumpRegisters(t) \/ FinishArguments(t)

Write(t) == WriteChanged(t) \/ Retry(t) \/ ClearCounters(t)

Step(t) == Read(t) \/ Work(t) \/ Write(t) \/ ReadDrom(t) \/ NextEntry(t)

Next ==
    \/ HardwareChanges \/ Unplug \/ Plug
    \/ \E t \in Tools : Start(t) \/ Step(t)

Spec == Init /\ [][Next]_vars

\* A tool that has been started goes on: no step of it waits for anything.
FairSpec == Spec /\ \A t \in Tools : WF_vars(Step(t))

-----------------------------------------------------------------------------
(***************************************************************************)
(* Properties.                                                             *)
(***************************************************************************)
Shown == [reg : Registers, field : Field, bits : Value]

\* Every variable has its type; only what has been read is marked.
TypeOK ==
    /\ plugged \in BOOLEAN /\ events \in Nat
    /\ hw \in [Registers -> Value]
    /\ \A t \in Tools : cmd[t] \in Commands[t] \union {NoCommand}
    /\ cmd = [t \in Tools |-> cmd[t]]
    /\ pc \in [Tools -> Places]
    /\ have \in [Tools -> SUBSET Spaces]
    /\ known \in [Tools -> SUBSET Registers]
    /\ cache \in [Tools -> [Registers -> Value]]
    /\ marked \in [Tools -> SUBSET Registers]
    /\ next \in [Tools -> Nat \ {0}]
    /\ file \in [Tools -> Spaces]
    /\ offset \in [Tools -> Nat]
    /\ rom \in [Tools -> Droms \union {NoDrom}]
    /\ printed = [t \in Tools |-> printed[t]]
    /\ \A t \in Tools : printed[t] \in [0..(rom[t].size - 1) -> Nat]
    /\ shown \in [Tools -> SUBSET Shown]
    /\ undisturbed \in [Tools -> SUBSET Registers]
    /\ \A t \in Tools : /\ pc[t] # "idle" => cmd[t] # NoCommand
                        /\ marked[t] \subseteq known[t]
                        /\ undisturbed[t] \subseteq known[t]

\* The arguments of tbset that name r, of those it has got to.
Naming(t, r) ==
    {i \in DOMAIN cmd[t].args :
         i < next[t] /\ cmd[t].args[i].reg = r /\ Found(t, cmd[t].args[i])}

NamedBits(t, r) == UNION {Mask(FieldOf(cmd[t].args[i])) : i \in Naming(t, r)}

TouchedBits(t, r) ==
    UNION {Touched(FieldOf(cmd[t].args[i]), cmd[t].args[i].bits) : i \in Naming(t, r)}

\* A tbset that nobody interferes with clears no bit outside the fields it was
\* given, and sets none but those of values too wide for their field: when it
\* writes the registers of the router, of an adapter or of its paths, a failed
\* write and the second attempt of the writer included. Each step of a tool that
\* writes leads to another place or another file.
OthersKept ==
    [][\A t \in Tools : \A r \in undisturbed[t] :
        pc[t] \in Writing /\ <<pc[t], file[t]>>' # <<pc[t], file[t]>> =>
            /\ hw[r] \ hw'[r] \subseteq NamedBits(t, r)
            /\ hw'[r] \ hw[r] \subseteq TouchedBits(t, r)]_vars

\* No argument behind the i-th one reaches into its field.
Stands(t, i) ==
    LET a == cmd[t].args[i] IN
    \A j \in Naming(t, a.reg) :
        j > i => Mask(FieldOf(a)) \intersect
                     Touched(FieldOf(cmd[t].args[j]), cmd[t].args[j].bits) = {}

\* What a tool has told is what the hardware holds, where nobody else changed
\* it since the tool read it: a tbset that ended without an error has entered
\* every value it found a register for, though it writes whole registers and
\* skips those it takes for unchanged; what tbget and tbdump have printed is
\* the field that was asked for.
HardwareAsTold ==
    \A t \in Tools :
        /\ pc[t] = "ok" /\ cmd[t].prog = "set" =>
             \A r \in undisturbed[t] : \A i \in Naming(t, r) :
                 Stands(t, i) =>
                     LET a == cmd[t].args[i] IN
                     FieldValue(hw[r], FieldOf(a)) = Truncated(a.bits, FieldOf(a))
        /\ \A s \in shown[t] :
             s.reg \in undisturbed[t] => FieldValue(hw[s.reg], s.field) = s.bits

\* tbdump has come to an entry that does not take it any further.
Stuck(t) ==
    pc[t] = "entries" /\ offset[t] < rom[t].size /\ rom[t].at[offset[t]].len = 0

\* No byte of a ROM is printed twice, a dump that ends well has printed every
\* one, and it panics or gets stuck at no ROM whose entries fit and whose names
\* are UTF-8.
PrintedOnce ==
    \A t \in Tools :
        /\ \A b \in DOMAIN printed[t] : printed[t][b] <= 1
        /\ pc[t] = "ok" /\ cmd[t].space = "drom" =>
             \A b \in DOMAIN printed[t] : printed[t][b] = 1
        /\ Stuck(t) \/ (rom[t] # NoDrom /\ pc[t] = "panic") => ~WellFormed(rom[t])

\* A tool ends, unless a device ROM has an entry without length.
EachToolEnds ==
    \A t \in Tools : pc[t] # "idle" ~> (pc[t] \in Ended \/ Stuck(t))
=============================================================================
