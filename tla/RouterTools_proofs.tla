------------------------- MODULE RouterTools_proofs -------------------------
(***************************************************************************)
(* Proofs about tbget, tbset and tbdump, for every number of tools, set of *)
(* registers, layout of fields and device ROM.                             *)
(***************************************************************************)
EXTENDS RouterTools, TLAPS

-----------------------------------------------------------------------------
(***************************************************************************)
(* Values and fields.                                                      *)
(***************************************************************************)
\* set_field() and field_value() stay within the register.
LEMMA FieldTypes ==
    ASSUME NEW v \in Value, NEW x \in Value, NEW f \in Field
    PROVE  SetField(v, f, x) \in Value /\ FieldValue(v, f) \in Value
BY DEF Value, SetField, FieldValue, ShiftLeft, ShiftRight

LEMMA WholeIsField == Whole \in Field
BY WidthAssumption DEF Whole, Field, Bits

\* field_value() returns what set_field() has entered, as far as it fits.
LEMMA FieldEntered ==
    ASSUME NEW v \in Value, NEW x \in Value, NEW f \in Field
    PROVE  FieldValue(SetField(v, f, x), f) = Truncated(x, f)
<1>1. f.lo \in Int /\ f.hi \in Int /\ f.lo >= 0 /\ f.hi <= Width - 1 /\ f.lo <= f.hi
    BY WidthAssumption DEF Field, Bits
<1>2. x \subseteq 0..(Width - 1) /\ v \subseteq 0..(Width - 1)
    BY DEF Value, Bits
<1>3. ASSUME NEW b \in FieldValue(SetField(v, f, x), f)
      PROVE  b \in Truncated(x, f)
    <2>1. b \in Bits /\ b + f.lo \in SetField(v, f, x) /\ b + f.lo \in f.lo..f.hi
        BY <1>3 DEF FieldValue, ShiftRight, Mask
    <2>2. b + f.lo \in ShiftLeft(x, f.lo)
        BY <2>1 DEF SetField, Mask
    <2>3. (b + f.lo) - f.lo \in x
        BY <2>2 DEF ShiftLeft
    <2> QED BY <1>1, <2>1, <2>3, WidthAssumption DEF Truncated, Bits
<1>4. ASSUME NEW b \in Truncated(x, f)
      PROVE  b \in FieldValue(SetField(v, f, x), f)
    <2>1. b \in x /\ b \in Int /\ b >= 0 /\ b <= f.hi - f.lo
        BY <1>1, <1>4 DEF Truncated
    <2>2. b + f.lo \in Bits /\ b \in Bits /\ b + f.lo \in f.lo..f.hi
        BY <1>1, <2>1, WidthAssumption DEF Bits
    <2>3. (b + f.lo) - f.lo = b
        BY <1>1, <2>1
    <2>4. b + f.lo \in ShiftLeft(x, f.lo)
        BY <2>1, <2>2, <2>3 DEF ShiftLeft
    <2> QED BY <2>2, <2>4 DEF FieldValue, SetField, ShiftRight, Mask
<1> QED BY <1>3, <1>4

\* A field keeps its value when set_field() reaches none of its bits.
LEMMA FieldKept ==
    ASSUME NEW v \in Value, NEW x \in Value, NEW f \in Field, NEW g \in Field,
           Mask(g) \intersect Touched(f, x) = {}
    PROVE  FieldValue(SetField(v, f, x), g) = FieldValue(v, g)
<1>1. SetField(v, f, x) \intersect Mask(g) = v \intersect Mask(g)
    BY DEF SetField, Touched
<1> QED BY <1>1 DEF FieldValue

\* What set_field() does to a register: the field reads as the bits of the value
\* that fit. No bit outside the field is cleared, and none is set there but
\* those of a value too wide for it, which is not masked. So any other field
\* that the value does not reach reads as before.
THEOREM FieldRoundTrip ==
    ASSUME NEW v \in Value, NEW x \in Value, NEW f \in Field
    PROVE  /\ FieldValue(SetField(v, f, x), f) = Truncated(x, f)
           /\ v \ SetField(v, f, x) \subseteq Mask(f)
           /\ SetField(v, f, x) \ v \subseteq ShiftLeft(x, f.lo)
           /\ \A g \in Field : Mask(g) \intersect Touched(f, x) = {} =>
                  FieldValue(SetField(v, f, x), g) = FieldValue(v, g)
<1>1. /\ v \ SetField(v, f, x) \subseteq Mask(f)
      /\ SetField(v, f, x) \ v \subseteq ShiftLeft(x, f.lo)
    BY DEF SetField
<1> QED BY <1>1, FieldEntered, FieldKept

-----------------------------------------------------------------------------
(***************************************************************************)
(* The course of a tool: what it has and has not done where it is. Until   *)
(* it comes to its arguments it has not marked or shown anything; what it  *)
(* marks is in the space of its command, which the files it writes cover.  *)
(***************************************************************************)
Reading == {"idle", "find", "router", "adapters", "space", "rom"}

Course(t) ==
    /\ pc[t] = "idle" => known[t] = {}
    /\ pc[t] \in Reading =>
         /\ next[t] = 1 /\ marked[t] = {} /\ shown[t] = {} /\ rom[t] = NoDrom
         /\ \A r \in known[t] : SpaceOf[r] \in {"router", "adapter"}
    /\ pc[t] = "adapters" => cmd[t].adapter # 0 \/ cmd[t].space = "drom"
    /\ pc[t] = "space" => cmd[t].space \in {"path", "counters"}
    /\ pc[t] \in {"rom", "entries"} => cmd[t].space = "drom"
    /\ pc[t] = "args" => cmd[t].space # "drom" /\ ~ClearsCounters(cmd[t])
    /\ pc[t] \in Writing =>
         /\ cmd[t].prog = "set"
         /\ file[t] \in IF cmd[t].space = "router" THEN {"router"} ELSE {"adapter", "path"}
    /\ pc[t] # "idle" =>
         /\ ClearsCounters(cmd[t]) => next[t] = 1 /\ marked[t] = {}
         /\ marked[t] # {} => cmd[t].prog = "set"
         /\ shown[t] # {} => cmd[t].prog \in {"get", "dump"}
         /\ \A r \in marked[t] : SpaceOf[r] = cmd[t].space
    /\ \A r \in known[t] : SpaceOf[r] \in have[t]

CourseOK == \A t \in Tools : Course(t)

-----------------------------------------------------------------------------
(***************************************************************************)
(* Types.                                                                  *)
(***************************************************************************)
\* A tool that has been started has a sensible command line.
LEMMA CommandTypes ==
    ASSUME TypeOK, NEW t \in Tools, pc[t] # "idle"
    PROVE  /\ cmd[t] \in Commands[t] /\ cmd[t] \in Command /\ Sensible(cmd[t])
           /\ \A i \in DOMAIN cmd[t].args : cmd[t].args[i] \in Argument
<1>1. cmd[t] \in Commands[t]
    BY DEF TypeOK
<1>2. cmd[t] \in Command /\ Sensible(cmd[t])
    BY <1>1, CommandsAssumption
<1>3. cmd[t].args \in Seq(Argument)
    BY <1>2 DEF Command
<1> QED BY <1>1, <1>2, <1>3

LEMMA ArgumentTypes ==
    ASSUME NEW a \in Argument
    PROVE  FieldOf(a) \in Field /\ a.bits \in Value
BY WholeIsField DEF FieldOf, Argument

LEMMA TypeInit == Init => TypeOK
BY WidthAssumption, ContentsAssumption, RegistersAssumption
   DEF Init, TypeOK, Places, Writing, Ended, Spaces, NoDrom, Shown, Value

LEMMA RouterType ==
    ASSUME TypeOK, HardwareChanges \/ Unplug \/ Plug
    PROVE  TypeOK'
<1>1. hw' \in [Registers -> Value]
    <2>1. CASE HardwareChanges
        <3>1. \A r \in Volatile, b \in Bits : Flipped(hw[r], b) \in Value
            BY RegistersAssumption DEF TypeOK, Flipped, Value
        <3>2. PICK r \in Volatile, b \in Bits : hw' = [hw EXCEPT ![r] = Flipped(@, b)]
            BY <2>1 DEF HardwareChanges
        <3> QED BY <3>1, <3>2, RegistersAssumption DEF TypeOK
    <2>2. CASE Unplug
        BY <2>2 DEF Unplug, TypeOK
    <2>3. CASE Plug
        BY <2>3, ContentsAssumption DEF Plug
    <2> QED BY <2>1, <2>2, <2>3
<1>2. plugged' \in BOOLEAN
    BY DEF HardwareChanges, Unplug, Plug, TypeOK
<1>3. events' \in Nat
    BY DEF HardwareChanges, Unplug, Plug, TypeOK
<1>4. UNCHANGED toolVars
    BY DEF HardwareChanges, Unplug, Plug
<1>5. /\ undisturbed' \in [Tools -> SUBSET Registers]
      /\ \A t \in Tools : undisturbed'[t] \subseteq undisturbed[t]
    <2>1. Disturb(Tools) \/ undisturbed' = undisturbed
        BY DEF HardwareChanges, Unplug, Plug
    <2> QED BY <2>1 DEF Disturb, TypeOK
<1> QED BY <1>1, <1>2, <1>3, <1>4, <1>5 DEF TypeOK, toolVars, readVars, argVars, romVars

\* What a step of a tool leaves alone keeps its type.
LEMMA StopType ==
    ASSUME TypeOK, NEW t \in Tools, NEW p \in Places \ {"idle"}, Stop(t, p), pc[t] # "idle"
    PROVE  TypeOK'
BY DEF Stop, Goto, TypeOK, routerVars, readVars, argVars, romVars

LEMMA ReadFileType ==
    ASSUME TypeOK, NEW t \in Tools, NEW space \in Spaces, NEW regs \in SUBSET Registers,
           NEW p \in Places \ {"idle"},
           ReadFile(t, space, regs), Goto(t, p), pc[t] # "idle"
    PROVE  TypeOK'
<1>1. cache' \in [Tools -> [Registers -> Value]]
    BY DEF ReadFile, TypeOK
<1>2. have' \in [Tools -> SUBSET Spaces] /\ known' \in [Tools -> SUBSET Registers]
    BY DEF ReadFile, TypeOK
<1>3. undisturbed' \in [Tools -> SUBSET Registers]
    BY DEF ReadFile, TypeOK
<1>4. pc' \in [Tools -> Places] /\ \A u \in Tools : pc'[u] # "idle" => cmd'[u] # NoCommand
    BY DEF ReadFile, Goto, TypeOK
<1>5. \A u \in Tools : marked'[u] \subseteq known'[u] /\ undisturbed'[u] \subseteq known'[u]
    BY DEF ReadFile, TypeOK, argVars
<1> QED BY <1>1, <1>2, <1>3, <1>4, <1>5 DEF ReadFile, TypeOK, routerVars, argVars, romVars

\* With adapters there is a place to go to.
LEMMA FromAdaptersType ==
    ASSUME TypeOK, CourseOK, NEW t \in Tools, pc[t] = "adapters"
    PROVE  LET c == cmd[t] IN
           \/ FromAdapters(c) = "rom" /\ c.space = "drom"
           \/ FromAdapters(c) = "error"
           \/ FromAdapters(c) = "ok" /\ c.prog \notin {"get", "set"} /\ c.space # "drom"
           \/ FromAdapters(c) = "args" /\ c.space = "adapter"
           \/ FromAdapters(c) = "space" /\ c.space \in {"path", "counters"}
<1>1. cmd[t] \in Command /\ Sensible(cmd[t])
    BY CommandTypes
<1>2. cmd[t].adapter # 0 \/ cmd[t].space = "drom"
    BY DEF CourseOK, Course
<1>3. cmd[t].adapter \in Nat /\ NumAdapters \in Nat /\ cmd[t].space \in Spaces \union {"drom"}
    BY <1>1, RegistersAssumption DEF Command
<1> QED BY <1>1, <1>2, <1>3 DEF FromAdapters, Sensible, Spaces

LEMMA ReadType ==
    ASSUME TypeOK, CourseOK, NEW t \in Tools, Read(t) \/ Start(t)
    PROVE  TypeOK'
<1>1. CASE Start(t)
    <2>1. PICK c \in Commands[t] : cmd' = [cmd EXCEPT ![t] = c]
        BY <1>1 DEF Start
    <2>2. c # NoCommand
        BY CommandsAssumption DEF Command, NoCommand
    <2>3. cmd' = [u \in Tools |-> cmd'[u]] /\ cmd'[t] = c
          /\ \A u \in Tools \ {t} : cmd'[u] = cmd[u]
        BY <2>1 DEF TypeOK
    <2>4. \A u \in Tools : cmd'[u] \in Commands[u] \union {NoCommand}
        BY <2>3 DEF TypeOK
    <2>5. pc' \in [Tools -> Places] /\ \A u \in Tools \ {t} : pc'[u] = pc[u]
        BY <1>1 DEF Start, Goto, TypeOK, Places
    <2>6. \A u \in Tools : pc'[u] # "idle" => cmd'[u] # NoCommand
        BY <2>2, <2>3, <2>5 DEF TypeOK
    <2>7. UNCHANGED <<routerVars, readVars, argVars, file, romVars, undisturbed>>
        BY <1>1 DEF Start
    <2> QED BY <2>3, <2>4, <2>5, <2>6, <2>7 DEF TypeOK, routerVars, readVars, argVars, romVars
<1>2. CASE FindDevice(t)
    BY <1>2, StopType DEF FindDevice, Places, Ended
<1>3. CASE ReadRouter(t)
    <2>1. pc[t] # "idle"
        BY <1>3 DEF ReadRouter
    <2>2. {"error", "panic", "args", "adapters"} \subseteq Places \ {"idle"} /\ "router" \in Spaces
        BY DEF Places, Ended, Spaces
    <2>3. CASE Stop(t, "error") \/ Stop(t, "panic")
        BY <2>1, <2>2, <2>3, StopType
    <2>4. CASE \E regs \in SUBSET Regs("router"), p \in {"args", "adapters"} :
                   ReadFile(t, "router", regs) /\ Goto(t, p)
        BY <2>1, <2>2, <2>4, ReadFileType DEF Regs
    <2> QED BY <1>3, <2>3, <2>4 DEF ReadRouter
<1>4. CASE ReadAdapters(t)
    <2>1. FromAdapters(cmd[t]) \in {"rom", "error", "ok", "args", "space"}
        BY <1>4, FromAdaptersType DEF ReadAdapters
    <2>2. pc[t] # "idle"
        BY <1>4 DEF ReadAdapters
    <2>3. {"error", "panic", FromAdapters(cmd[t])} \subseteq Places \ {"idle"} /\ "adapter" \in Spaces
        BY <2>1 DEF Places, Ended, Spaces
    <2>4. CASE \E p \in {"error", "panic", FromAdapters(cmd[t])} : Stop(t, p)
        BY <2>2, <2>3, <2>4, StopType
    <2>5. CASE \E regs \in SUBSET Regs("adapter") :
                   ReadFile(t, "adapter", regs) /\ Goto(t, FromAdapters(cmd[t]))
        BY <2>2, <2>3, <2>5, ReadFileType DEF Regs
    <2> QED BY <1>4, <2>4, <2>5 DEF ReadAdapters
<1>5. CASE ReadSpace(t)
    <2>1. pc[t] = "space"
        BY <1>5 DEF ReadSpace
    <2>2. {"error", "args"} \subseteq Places \ {"idle"} /\ cmd[t].space \in Spaces
        BY <2>1 DEF Places, Ended, Spaces, CourseOK, Course
    <2>3. CASE \E p \in {"error", "args"} : Stop(t, p)
        BY <2>1, <2>2, <2>3, StopType
    <2>4. CASE \E regs \in SUBSET Regs(cmd[t].space) :
                   ReadFile(t, cmd[t].space, regs) /\ Goto(t, "args")
        BY <2>1, <2>2, <2>4, ReadFileType DEF Regs
    <2> QED BY <1>5, <2>3, <2>4 DEF ReadSpace
<1> QED BY <1>1, <1>2, <1>3, <1>4, <1>5 DEF Read

\* tbset marks the register of an argument that it has found, or does not.
LEMMA Markings ==
    ASSUME TypeOK, NEW t \in Tools, SetArgument(t), Found(t, cmd[t].args[next[t]])
    PROVE  \E m \in {{}, {cmd[t].args[next[t]].reg}} :
               marked' = [marked EXCEPT ![t] = @ \union m]
<1> DEFINE a == cmd[t].args[next[t]]
           v == SetField(cache[t][a.reg], FieldOf(a), a.bits)
<1>1. marked' = [marked EXCEPT ![t] = IF Marks(t, a, v) THEN @ \union {a.reg} ELSE @]
    BY DEF SetArgument
<1>2. DOMAIN marked = Tools
    BY DEF TypeOK
<1> HIDE DEF a, v
<1>3. CASE Marks(t, a, v)
    BY <1>1, <1>2, <1>3 DEF a
<1>4. CASE ~Marks(t, a, v)
    <2>1. marked' = [marked EXCEPT ![t] = @ \union {}]
        BY <1>1, <1>2, <1>4
    <2> QED BY <2>1
<1> QED BY <1>3, <1>4

LEMMA WorkType ==
    ASSUME TypeOK, NEW t \in Tools, Work(t)
    PROVE  TypeOK'
<1>1. pc[t] # "idle"
    BY DEF Work, GetArgument, SetArgument, DumpRegisters, FinishArguments, AtArgument
<1>2. CASE GetArgument(t)
    <2> DEFINE a == cmd[t].args[next[t]]
               s == [reg |-> a.reg, field |-> FieldOf(a),
                     bits |-> FieldValue(cache[t][a.reg], FieldOf(a))]
    <2>1. a \in Argument
        BY <1>1, <1>2, CommandTypes DEF GetArgument, AtArgument
    <2>2. Found(t, a) => s \in Shown
        <3> SUFFICES ASSUME Found(t, a) PROVE s \in Shown
            OBVIOUS
        <3>1. a.reg \in Registers /\ cache[t][a.reg] \in Value
            BY DEF Found, TypeOK
        <3>2. FieldValue(cache[t][a.reg], FieldOf(a)) \in Value /\ FieldOf(a) \in Field
            BY <2>1, <3>1, ArgumentTypes, FieldTypes DEF Argument
        <3> QED BY <3>1, <3>2 DEF Shown
    <2>3. shown' = [shown EXCEPT ![t] = IF Found(t, a) THEN @ \union {s} ELSE @]
        BY <1>2 DEF GetArgument
    <2>4. shown' \in [Tools -> SUBSET Shown]
        BY <2>2, <2>3 DEF TypeOK
    <2>5. next' \in [Tools -> Nat \ {0}]
        <3>1. next' = [next EXCEPT ![t] = @ + 1] /\ next \in [Tools -> Nat \ {0}]
            BY <1>2 DEF GetArgument, TypeOK
        <3> QED BY <3>1
    <2> QED BY <1>2, <2>4, <2>5 DEF GetArgument, TypeOK, routerVars, readVars, romVars
<1>3. CASE SetArgument(t)
    <2> DEFINE a == cmd[t].args[next[t]]
               v == SetField(cache[t][a.reg], FieldOf(a), a.bits)
    <2>1. a \in Argument
        BY <1>1, <1>3, CommandTypes DEF SetArgument, AtArgument
    <2>2. cache' \in [Tools -> [Registers -> Value]] /\ marked' \in [Tools -> SUBSET Registers]
          /\ \A u \in Tools : marked'[u] \subseteq known[u]
        <3>1. CASE Found(t, a)
            <4>1. a.reg \in Registers /\ a.reg \in known[t]
                BY <3>1 DEF Found, TypeOK
            <4>2. cache[t][a.reg] \in Value
                BY <4>1 DEF TypeOK
            <4>3. v \in Value
                BY <2>1, <4>2, ArgumentTypes, FieldTypes DEF Argument
            <4>4. cache' = [cache EXCEPT ![t][a.reg] = v]
                BY <1>3, <3>1 DEF SetArgument
            <4>5. /\ cache \in [Tools -> [Registers -> Value]]
                  /\ marked \in [Tools -> SUBSET Registers]
                  /\ \A u \in Tools : marked[u] \subseteq known[u]
                BY DEF TypeOK
            <4> HIDE DEF a, v
            <4>6. cache' \in [Tools -> [Registers -> Value]]
                BY <4>1, <4>3, <4>4, <4>5
            <4>7. PICK m \in {{}, {a.reg}} : marked' = [marked EXCEPT ![t] = @ \union m]
                BY <1>3, <3>1, Markings DEF a
            <4>8. marked' \in [Tools -> SUBSET Registers]
                  /\ \A u \in Tools : marked'[u] \subseteq known[u]
                BY <4>1, <4>5, <4>7
            <4> QED BY <4>6, <4>8
        <3>2. CASE ~Found(t, a)
            BY <1>3, <3>2 DEF SetArgument, TypeOK
        <3> QED BY <3>1, <3>2
    <2>3. next' \in [Tools -> Nat \ {0}]
        <3>1. next' = [next EXCEPT ![t] = @ + 1] /\ next \in [Tools -> Nat \ {0}]
            BY <1>3 DEF SetArgument, TypeOK
        <3> QED BY <3>1
    <2>4. UNCHANGED <<routerVars, cmd, pc, have, known, shown, file, romVars, undisturbed>>
        BY <1>3 DEF SetArgument
    <2> QED BY <2>2, <2>3, <2>4 DEF TypeOK, routerVars, romVars
<1>4. CASE DumpRegisters(t)
    <2>1. \A r \in Dumped(t) : [reg |-> r, field |-> Whole,
                                 bits |-> cache[t][r]] \in Shown
        BY WholeIsField DEF Dumped, Shown, TypeOK
    <2>2. shown' \in [Tools -> SUBSET Shown]
        BY <1>4, <2>1 DEF DumpRegisters, TypeOK
    <2>3. pc' \in [Tools -> Places] /\ \A u \in Tools : pc'[u] # "idle" => cmd[u] # NoCommand
        BY <1>1, <1>4 DEF DumpRegisters, Goto, TypeOK, Places, Ended
    <2> QED BY <1>4, <2>2, <2>3 DEF DumpRegisters, TypeOK, routerVars, readVars, romVars
<1>5. CASE FinishArguments(t)
    <2>1. pc' \in [Tools -> Places] /\ \A u \in Tools : pc'[u] # "idle" => cmd[u] # NoCommand
        BY <1>1, <1>5 DEF FinishArguments, Goto, TypeOK, Places, Ended, Writing
    <2>2. file' \in [Tools -> Spaces]
        BY <1>5 DEF FinishArguments, FirstFile, TypeOK, Spaces
    <2> QED BY <1>5, <2>1, <2>2 DEF FinishArguments, TypeOK, routerVars, readVars, argVars, romVars
<1> QED BY <1>2, <1>3, <1>4, <1>5 DEF Work

\* What a write changes in the router and disturbs in the other tools.
LEMMA WriteHwType ==
    ASSUME TypeOK, NEW t \in Tools, NEW regs, WriteHw(t, regs)
    PROVE  /\ hw' \in [Registers -> Value]
           /\ undisturbed' \in [Tools -> SUBSET Registers]
           /\ \A u \in Tools : undisturbed'[u] \subseteq undisturbed[u]
<1>1. hw' \in [Registers -> Value]
    BY DEF WriteHw, TypeOK
<1>2. undisturbed' = [u \in Tools |->
          IF u \in Tools \ {t} THEN {r \in undisturbed[u] : hw'[r] = hw[r]}
                              ELSE undisturbed[u]]
    BY DEF WriteHw, Disturb
<1> QED BY <1>1, <1>2 DEF TypeOK

LEMMA WriteType ==
    ASSUME TypeOK, NEW t \in Tools, Write(t)
    PROVE  TypeOK'
<1>1. pc[t] # "idle"
    BY DEF Write, WriteChanged, Retry, ClearCounters
<1>2. ASSUME NEW p \in Places \ {"idle"}, Goto(t, p)
      PROVE  /\ pc' \in [Tools -> Places]
             /\ (UNCHANGED cmd => \A u \in Tools : pc'[u] # "idle" => cmd'[u] # NoCommand)
    BY <1>1, <1>2 DEF Goto, TypeOK
<1>3. {"error", "ok", "write", "retry"} \subseteq Places \ {"idle"}
    BY DEF Places, Writing, Ended
<1>4. ASSUME NEW regs, WriteHw(t, regs), NEW p \in Places \ {"idle"}, Goto(t, p),
             file' \in [Tools -> Spaces]
      PROVE  TypeOK'
    <2>1. UNCHANGED <<plugged, events, cmd, readVars, argVars, romVars>>
        BY <1>4 DEF WriteHw
    <2> QED BY <1>2, <1>4, <2>1, WriteHwType DEF TypeOK, readVars, argVars, romVars
<1>5. CASE WriteChanged(t)
    <2>1. CASE Stop(t, "error")
        BY <1>1, <1>3, <2>1, StopType
    <2>2. CASE \E regs \in SUBSET Registers : WriteHw(t, regs) /\ NextFile(t)
        <3>1. file' \in [Tools -> Spaces]
            BY <2>2 DEF NextFile, TypeOK, Spaces
        <3>2. Goto(t, "write") \/ Goto(t, "ok")
            BY <2>2 DEF NextFile
        <3> QED BY <1>3, <1>4, <2>2, <3>1, <3>2
    <2>3. CASE /\ \E regs \in SUBSET Registers : WriteHw(t, regs)
               /\ Goto(t, "retry") /\ file' = file
        <3>1. file' \in [Tools -> Spaces]
            BY <2>3 DEF TypeOK
        <3> QED BY <1>3, <1>4, <2>3, <3>1
    <2>4. ToWrite(t) \subseteq Registers /\ \A r : WrittenBefore(t, r) \subseteq Registers
        BY DEF ToWrite, WrittenBefore, TypeOK
    <2> QED BY <1>5, <2>1, <2>2, <2>3, <2>4 DEF WriteChanged
<1>6. CASE Retry(t)
    <2>1. \E regs : WriteHw(t, regs)
        BY <1>6 DEF Retry
    <2>2. Goto(t, "error") /\ file' \in [Tools -> Spaces]
        BY <1>6 DEF Retry, TypeOK
    <2> QED BY <1>3, <1>4, <2>1, <2>2
<1>7. CASE ClearCounters(t)
    <2>1. CASE Stop(t, "error")
        BY <1>1, <1>3, <2>1, StopType
    <2>2. CASE ~Stop(t, "error")
        <3>1. hw' = [r \in Registers |-> IF SpaceOf[r] = "counters" THEN {} ELSE hw[r]]
            BY <1>7, <2>2 DEF ClearCounters
        <3>2. hw' \in [Registers -> Value]
            BY <3>1 DEF TypeOK, Value
        <3>3. Disturb(Tools \ {t}) /\ UNCHANGED <<plugged, events, cmd, readVars, argVars, romVars>>
            BY <1>7, <2>2 DEF ClearCounters
        <3>4. /\ undisturbed' \in [Tools -> SUBSET Registers]
              /\ \A u \in Tools : undisturbed'[u] \subseteq undisturbed[u]
            BY <3>3 DEF Disturb, TypeOK
        <3>5. file' \in [Tools -> Spaces]
            BY <1>7, <2>2 DEF ClearCounters, FirstFile, TypeOK, Spaces
        <3>6. Goto(t, "error") \/ Goto(t, "write")
            BY <1>7, <2>2 DEF ClearCounters
        <3>7. pc' \in [Tools -> Places] /\ \A u \in Tools : pc'[u] # "idle" => cmd'[u] # NoCommand
            BY <1>2, <1>3, <3>3, <3>6
        <3> QED BY <3>2, <3>3, <3>4, <3>5, <3>7 DEF TypeOK, readVars, argVars, romVars
    <2> QED BY <2>1, <2>2
<1> QED BY <1>5, <1>6, <1>7 DEF Write

LEMMA DromTypes ==
    ASSUME NEW d \in Droms \union {NoDrom}
    PROVE  /\ d.size \in Nat
           /\ \A o \in 0..(d.size - 1) : d.at[o] \in Entry
BY DromsAssumption DEF IsDrom, NoDrom

LEMMA RomType ==
    ASSUME TypeOK, NEW t \in Tools, ReadDrom(t) \/ NextEntry(t)
    PROVE  TypeOK'
<1>1. pc[t] # "idle"
    BY DEF ReadDrom, NextEntry
<1>2. CASE ReadDrom(t)
    <2>1. CASE Stop(t, "error")
        BY <1>1, <2>1, StopType DEF Places, Ended
    <2>2. CASE ~Stop(t, "error")
        <3> DEFINE upto(d) == IF cmd[t].verbose THEN HeaderSize(d) ELSE d.size
        <3>1. PICK d \in Droms :
                /\ rom' = [rom EXCEPT ![t] = d]
                /\ printed' = [printed EXCEPT ![t] =
                       [b \in 0..(d.size - 1) |-> IF b < upto(d) THEN 1 ELSE 0]]
                /\ offset' = [offset EXCEPT ![t] = upto(d)]
                /\ Goto(t, IF ~cmd[t].verbose THEN "ok"
                           ELSE IF upto(d) < d.size THEN "entries" ELSE "panic")
            BY <1>2, <2>2 DEF ReadDrom
        <3>2. upto(d) \in Nat
            BY DromTypes DEF HeaderSize
        <3>3. rom' \in [Tools -> Droms \union {NoDrom}] /\ offset' \in [Tools -> Nat]
            BY <3>1, <3>2 DEF TypeOK
        <3>4. printed' = [u \in Tools |-> printed'[u]]
            BY <3>1 DEF TypeOK
        <3>5. \A u \in Tools : printed'[u] \in [0..(rom'[u].size - 1) -> Nat]
            <4>1. printed'[t] = [b \in 0..(d.size - 1) |-> IF b < upto(d) THEN 1 ELSE 0]
                BY <3>1 DEF TypeOK
            <4>2. rom'[t] = d
                BY <3>1 DEF TypeOK
            <4>3. \A u \in Tools \ {t} : printed'[u] = printed[u] /\ rom'[u] = rom[u]
                BY <3>1 DEF TypeOK
            <4>4. printed'[t] \in [0..(rom'[t].size - 1) -> Nat]
                BY <4>1, <4>2
            <4>5. \A u \in Tools \ {t} : printed'[u] \in [0..(rom'[u].size - 1) -> Nat]
                BY <4>3 DEF TypeOK
            <4> QED BY <4>4, <4>5
        <3>6. pc' \in [Tools -> Places] /\ \A u \in Tools : pc'[u] # "idle" => cmd[u] # NoCommand
            BY <1>1, <3>1 DEF Goto, TypeOK, Places, Ended
        <3>7. RomStep
            BY <1>2, <2>2 DEF ReadDrom
        <3> QED BY <3>3, <3>4, <3>5, <3>6, <3>7 DEF RomStep, TypeOK, routerVars, readVars, argVars
    <2> QED BY <2>1, <2>2
<1>3. CASE NextEntry(t)
    <2>1. pc' \in [Tools -> Places] /\ \A u \in Tools : pc'[u] # "idle" => cmd[u] # NoCommand
        BY <1>1, <1>3 DEF NextEntry, Goto, TypeOK, Places, Ended
    <2>2. CASE UNCHANGED romVars
        BY <1>3, <2>1, <2>2 DEF NextEntry, RomStep, TypeOK, routerVars, readVars, argVars, romVars
    <2>3. CASE ~UNCHANGED romVars
        <3> DEFINE len == rom[t].at[offset[t]].len
        <3>1. offset[t] < rom[t].size /\ rom' = rom /\ offset' = [offset EXCEPT ![t] = @ + len]
              /\ PrintBytes(t, offset[t], offset[t] + len - 1)
            <4>1. ~(offset[t] >= rom[t].size)
                BY <1>3, <2>3 DEF NextEntry
            <4>2. offset[t] \in Nat /\ rom[t].size \in Nat
                BY DromTypes DEF TypeOK
            <4>3. /\ rom' = rom /\ offset' = [offset EXCEPT ![t] = @ + len]
                  /\ PrintBytes(t, offset[t], offset[t] + len - 1)
                BY <1>3, <2>3, <4>1, Zenon DEF NextEntry
            <4>4. offset[t] < rom[t].size
                BY <4>1, <4>2
            <4> QED BY <4>3, <4>4, Zenon
        <3>2. offset[t] \in 0..(rom[t].size - 1)
            <4>1. rom[t] \in Droms \union {NoDrom} /\ offset[t] \in Nat
                BY DEF TypeOK
            <4>2. rom[t].size \in Nat
                BY <4>1, DromTypes
            <4> QED BY <3>1, <4>1, <4>2
        <3>3. len \in Nat
            BY <3>2, DromTypes DEF TypeOK, Entry
        <3>4. offset' \in [Tools -> Nat]
            BY <3>1, <3>3 DEF TypeOK
        <3>5. printed' = [u \in Tools |-> printed'[u]]
              /\ \A u \in Tools \ {t} : printed'[u] = printed[u]
            BY <3>1 DEF PrintBytes, TypeOK
        <3>6. printed'[t] = [b \in DOMAIN printed[t] |->
                  IF b \in offset[t]..(offset[t] + len - 1) THEN printed[t][b] + 1 ELSE printed[t][b]]
            BY <3>1 DEF PrintBytes, TypeOK
        <3>7. printed'[t] \in [0..(rom[t].size - 1) -> Nat]
            <4>1. printed[t] \in [0..(rom[t].size - 1) -> Nat]
                BY DEF TypeOK
            <4>2. ASSUME NEW T
                  PROVE  [b \in DOMAIN printed[t] |->
                             IF b \in T THEN printed[t][b] + 1 ELSE printed[t][b]]
                           \in [0..(rom[t].size - 1) -> Nat]
                <5> DEFINE S == 0..(rom[t].size - 1)
                <5>1. printed[t] \in [S -> Nat]
                    BY <4>1
                <5> HIDE DEF S
                <5>2. DOMAIN printed[t] = S /\ \A b \in S : printed[t][b] + 1 \in Nat
                    BY <5>1
                <5> QED BY <5>1, <5>2 DEF S
            <4> DEFINE T == offset[t]..(offset[t] + len - 1)
            <4>3. printed'[t] = [b \in DOMAIN printed[t] |->
                      IF b \in T THEN printed[t][b] + 1 ELSE printed[t][b]]
                BY <3>6
            <4> HIDE DEF T
            <4> QED BY <4>2, <4>3
        <3>8. \A u \in Tools : printed'[u] \in [0..(rom'[u].size - 1) -> Nat]
            BY <3>1, <3>5, <3>7 DEF TypeOK
        <3> QED BY <1>3, <2>1, <3>1, <3>4, <3>5, <3>8 DEF NextEntry, RomStep, TypeOK, routerVars, readVars, argVars
    <2> QED BY <2>2, <2>3
<1> QED BY <1>2, <1>3

LEMMA TypeStep == TypeOK /\ CourseOK /\ [Next]_vars => TypeOK'
<1> SUFFICES ASSUME TypeOK, CourseOK, [Next]_vars PROVE TypeOK'
    OBVIOUS
<1>1. CASE UNCHANGED vars
    BY <1>1 DEF TypeOK, vars, routerVars, toolVars, readVars, argVars, romVars
<1>2. CASE HardwareChanges \/ Unplug \/ Plug
    BY <1>2, RouterType
<1>3. CASE \E t \in Tools : Start(t) \/ Step(t)
    BY <1>3, ReadType, WorkType, WriteType, RomType DEF Step
<1> QED BY <1>1, <1>2, <1>3 DEF Next

-----------------------------------------------------------------------------
(***************************************************************************)
(* What a tool sees of the steps of the others.                            *)
(***************************************************************************)
Same(u) ==
    /\ cmd'[u] = cmd[u] /\ pc'[u] = pc[u]
    /\ have'[u] = have[u] /\ known'[u] = known[u] /\ cache'[u] = cache[u]
    /\ marked'[u] = marked[u] /\ next'[u] = next[u] /\ shown'[u] = shown[u]
    /\ file'[u] = file[u]
    /\ rom'[u] = rom[u] /\ offset'[u] = offset[u] /\ printed'[u] = printed[u]
    /\ \A r \in undisturbed'[u] : r \in undisturbed[u] /\ hw'[r] = hw[r]

\* A register that is changed is no longer undisturbed.
LEMMA RouterSame ==
    ASSUME TypeOK, HardwareChanges \/ Unplug \/ Plug, NEW u \in Tools
    PROVE  Same(u)
<1>1. UNCHANGED toolVars
    BY DEF HardwareChanges, Unplug, Plug
<1>2. \/ Disturb(Tools)
      \/ undisturbed' = undisturbed /\ hw' = hw
    BY DEF HardwareChanges, Unplug, Plug
<1>3. \A r \in undisturbed'[u] : r \in undisturbed[u] /\ hw'[r] = hw[r]
    BY <1>2 DEF Disturb
<1> QED BY <1>1, <1>3 DEF Same, toolVars, readVars, argVars, romVars

LEMMA ToolSame ==
    ASSUME TypeOK, NEW t \in Tools, Start(t) \/ Step(t), NEW u \in Tools \ {t}
    PROVE  Same(u)
<1>1. ASSUME NEW p, Stop(t, p)
      PROVE  Same(u)
    BY <1>1 DEF Stop, Goto, TypeOK, Same, routerVars, readVars, argVars, romVars
<1>2. ASSUME NEW space, NEW regs, NEW p, ReadFile(t, space, regs), Goto(t, p)
      PROVE  Same(u)
    BY <1>2 DEF ReadFile, Goto, TypeOK, Same, routerVars, argVars, romVars
<1>3. ASSUME NEW regs, NEW p, WriteHw(t, regs), Goto(t, p), file'[u] = file[u]
      PROVE  Same(u)
    <2>1. \A r \in undisturbed'[u] : r \in undisturbed[u] /\ hw'[r] = hw[r]
        BY <1>3 DEF WriteHw, Disturb
    <2>2. UNCHANGED <<cmd, readVars, argVars, romVars>>
        BY <1>3 DEF WriteHw
    <2>3. pc'[u] = pc[u]
        BY <1>3 DEF Goto, TypeOK
    <2> QED BY <1>3, <2>1, <2>2, <2>3 DEF Same, readVars, argVars, romVars
<1>4. CASE Start(t)
    BY <1>4 DEF Start, Goto, TypeOK, Same, routerVars, readVars, argVars, romVars
<1>5. CASE Read(t)
    <2>1. CASE FindDevice(t)
        BY <1>1, <2>1 DEF FindDevice
    <2>2. CASE ReadRouter(t)
        BY <1>1, <1>2, <2>2 DEF ReadRouter
    <2>3. CASE ReadAdapters(t)
        BY <1>1, <1>2, <2>3 DEF ReadAdapters
    <2>4. CASE ReadSpace(t)
        BY <1>1, <1>2, <2>4 DEF ReadSpace
    <2> QED BY <1>5, <2>1, <2>2, <2>3, <2>4 DEF Read
<1>6. CASE Work(t)
    <2>1. CASE GetArgument(t)
        BY <2>1 DEF GetArgument, TypeOK, Same, routerVars, readVars, romVars
    <2>2. CASE SetArgument(t)
        <3>1. cache'[u] = cache[u] /\ marked'[u] = marked[u]
            BY <2>2 DEF SetArgument, TypeOK
        <3> QED BY <2>2, <3>1 DEF SetArgument, TypeOK, Same, routerVars, romVars
    <2>3. CASE DumpRegisters(t)
        BY <2>3 DEF DumpRegisters, Goto, TypeOK, Same, routerVars, readVars, romVars
    <2>4. CASE FinishArguments(t)
        BY <2>4 DEF FinishArguments, Goto, TypeOK, Same, routerVars, readVars, argVars, romVars
    <2> QED BY <1>6, <2>1, <2>2, <2>3, <2>4 DEF Work
<1>7. CASE Write(t)
    <2>1. CASE WriteChanged(t)
        <3>1. CASE Stop(t, "error")
            BY <1>1, <3>1
        <3>2. CASE \E regs : WriteHw(t, regs) /\ NextFile(t)
            <4>1. file'[u] = file[u] /\ \E p : Goto(t, p)
                BY <3>2 DEF NextFile, TypeOK
            <4> QED BY <1>3, <3>2, <4>1
        <3>3. CASE (\E regs : WriteHw(t, regs)) /\ Goto(t, "retry") /\ file' = file
            BY <1>3, <3>3
        <3> QED BY <2>1, <3>1, <3>2, <3>3 DEF WriteChanged
    <2>2. CASE Retry(t)
        BY <1>3, <2>2 DEF Retry
    <2>3. CASE ClearCounters(t)
        <3>1. CASE Stop(t, "error")
            BY <1>1, <3>1
        <3>2. CASE ~Stop(t, "error")
            <4>1. Disturb(Tools \ {t}) /\ UNCHANGED <<cmd, readVars, argVars, romVars>>
                BY <2>3, <3>2 DEF ClearCounters
            <4>2. \A r \in undisturbed'[u] : r \in undisturbed[u] /\ hw'[r] = hw[r]
                BY <4>1 DEF Disturb
            <4>3. file'[u] = file[u] /\ pc'[u] = pc[u]
                BY <2>3, <3>2 DEF ClearCounters, Goto, TypeOK
            <4> QED BY <4>1, <4>2, <4>3 DEF Same, readVars, argVars, romVars
        <3> QED BY <3>1, <3>2
    <2> QED BY <1>7, <2>1, <2>2, <2>3 DEF Write
<1>8. CASE ReadDrom(t)
    <2>1. CASE Stop(t, "error")
        BY <1>1, <2>1
    <2>2. CASE ~Stop(t, "error")
        <3>1. rom'[u] = rom[u] /\ printed'[u] = printed[u] /\ offset'[u] = offset[u] /\ pc'[u] = pc[u]
            BY <1>8, <2>2 DEF ReadDrom, Goto, TypeOK
        <3>2. RomStep
            BY <1>8, <2>2 DEF ReadDrom
        <3> QED BY <3>1, <3>2 DEF RomStep, Same, routerVars, readVars, argVars
    <2> QED BY <2>1, <2>2
<1>9. CASE NextEntry(t)
    <2>1. rom'[u] = rom[u] /\ printed'[u] = printed[u] /\ offset'[u] = offset[u] /\ pc'[u] = pc[u]
        BY <1>9 DEF NextEntry, PrintBytes, Goto, TypeOK, romVars
    <2> QED BY <1>9, <2>1 DEF NextEntry, RomStep, Same, routerVars, readVars, argVars
<1> QED BY <1>4, <1>5, <1>6, <1>7, <1>8, <1>9 DEF Step

-----------------------------------------------------------------------------
(***************************************************************************)
(* Every step keeps to the course.                                         *)
(***************************************************************************)
LEMMA CourseInit == Init => CourseOK
BY DEF Init, CourseOK, Course, Reading, Writing, NoCommand

LEMMA SameCourse ==
    ASSUME NEW u \in Tools, Course(u), Same(u)
    PROVE  Course(u)'
BY DEF Course, Same

\* A step that nothing comes of leads to where nothing is asked, or to what
\* the command asks for.
LEMMA StopCourse ==
    ASSUME TypeOK, NEW t \in Tools, Course(t), pc[t] # "idle", NEW p, Stop(t, p),
           \/ p \in Ended
           \/ p = "router" /\ pc[t] \in Reading
           \/ p = "rom" /\ pc[t] \in Reading /\ cmd[t].space = "drom"
           \/ p = "space" /\ pc[t] \in Reading /\ cmd[t].space \in {"path", "counters"}
           \/ p = "args" /\ cmd[t].space # "drom" /\ ~ClearsCounters(cmd[t])
    PROVE  Course(t)'
<1>1. UNCHANGED <<cmd, readVars, argVars, file, romVars>> /\ pc'[t] = p
    BY DEF Stop, Goto, TypeOK
<1> QED BY <1>1 DEF Course, Reading, Writing, Ended, readVars, argVars, romVars

LEMMA ReadFileCourse ==
    ASSUME TypeOK, NEW t \in Tools, Course(t), pc[t] \in Reading \ {"idle"},
           NEW space, NEW regs, NEW p, ReadFile(t, space, regs), Goto(t, p),
           p = "args" \/ space \in {"router", "adapter"},
           \/ p \in {"error", "ok"}
           \/ p = "adapters" /\ (cmd[t].adapter # 0 \/ cmd[t].space = "drom")
           \/ p = "rom" /\ cmd[t].space = "drom"
           \/ p = "space" /\ cmd[t].space \in {"path", "counters"}
           \/ p = "args" /\ cmd[t].space # "drom" /\ ~ClearsCounters(cmd[t])
    PROVE  Course(t)'
<1>1. UNCHANGED <<cmd, argVars, file, romVars>> /\ pc'[t] = p
    BY DEF ReadFile, Goto, TypeOK
<1>2. have'[t] = have[t] \union {space} /\ known'[t] = known[t] \union regs
    BY DEF ReadFile, TypeOK
<1>3. \A r \in regs : SpaceOf[r] = space
    BY DEF ReadFile, Regs
<1> QED BY <1>1, <1>2, <1>3 DEF Course, Reading, Writing, argVars, romVars

LEMMA ReadCourse ==
    ASSUME TypeOK, CourseOK, NEW t \in Tools, Start(t) \/ Read(t)
    PROVE  Course(t)'
<1>1. Course(t)
    BY DEF CourseOK
<1>2. CASE Start(t)
    <2>1. UNCHANGED <<readVars, argVars, file, romVars>> /\ pc'[t] = "find" /\ pc[t] = "idle"
        BY <1>2 DEF Start, Goto, TypeOK
    <2> QED BY <1>1, <2>1 DEF Course, Reading, Writing, readVars, argVars, romVars
<1>3. ASSUME pc[t] # "idle"
      PROVE  cmd[t] \in Command /\ Sensible(cmd[t])
    BY <1>3, CommandTypes
<1>4. CASE FindDevice(t)
    BY <1>1, <1>4, StopCourse DEF FindDevice, Ended, Reading
<1>5. CASE ReadRouter(t)
    <2>1. pc[t] = "router"
        BY <1>5 DEF ReadRouter
    <2>2. CASE Stop(t, "error") \/ Stop(t, "panic")
        BY <1>1, <2>1, <2>2, StopCourse DEF Ended
    <2>3. CASE ~(Stop(t, "error") \/ Stop(t, "panic"))
        <3> DEFINE p == IF cmd[t].adapter # 0 \/ cmd[t].space = "drom" THEN "adapters" ELSE "args"
        <3>1. PICK regs : ReadFile(t, "router", regs) /\ Goto(t, p)
            BY <1>5, <2>3 DEF ReadRouter
        <3>2. p = "args" => ~ClearsCounters(cmd[t])
            BY <1>3, <2>1 DEF Sensible, ClearsCounters
        <3> QED BY <1>1, <2>1, <3>1, <3>2, ReadFileCourse DEF Reading
    <2> QED BY <2>2, <2>3
<1>6. CASE ReadAdapters(t)
    <2>1. pc[t] = "adapters"
        BY <1>6 DEF ReadAdapters
    <2>2. CASE Stop(t, "error") \/ Stop(t, "panic")
        BY <1>1, <2>1, <2>2, StopCourse DEF Ended
    <2>3. CASE Stop(t, FromAdapters(cmd[t]))
        <3>1. FromAdapters(cmd[t]) = "args" => ~ClearsCounters(cmd[t]) /\ cmd[t].space # "drom"
            BY <2>1, FromAdaptersType DEF ClearsCounters
        <3> QED BY <1>1, <2>1, <2>3, <3>1, StopCourse, FromAdaptersType DEF Ended, Reading
    <2>4. CASE \E regs : ReadFile(t, "adapter", regs) /\ Goto(t, FromAdapters(cmd[t]))
        <3>1. FromAdapters(cmd[t]) = "args" => ~ClearsCounters(cmd[t]) /\ cmd[t].space # "drom"
            BY <2>1, FromAdaptersType DEF ClearsCounters
        <3> QED BY <1>1, <2>1, <2>4, <3>1, ReadFileCourse, FromAdaptersType DEF Reading
    <2> QED BY <1>6, <2>2, <2>3, <2>4 DEF ReadAdapters
<1>7. CASE ReadSpace(t)
    <2>1. pc[t] = "space" /\ ~ClearsCounters(cmd[t]) /\ cmd[t].space # "drom"
        BY <1>1, <1>7 DEF ReadSpace, Course
    <2>2. CASE Stop(t, "error") \/ Stop(t, "args")
        BY <1>1, <2>1, <2>2, StopCourse DEF Ended
    <2>3. CASE \E regs : ReadFile(t, cmd[t].space, regs) /\ Goto(t, "args")
        BY <1>1, <2>1, <2>3, ReadFileCourse DEF Reading
    <2> QED BY <1>7, <2>2, <2>3 DEF ReadSpace
<1> QED BY <1>2, <1>4, <1>5, <1>6, <1>7 DEF Read

LEMMA WorkCourse ==
    ASSUME TypeOK, CourseOK, NEW t \in Tools, Work(t)
    PROVE  Course(t)'
<1>1. pc[t] = "args" /\ Course(t)
    BY DEF CourseOK, Work, GetArgument, SetArgument, DumpRegisters, FinishArguments, AtArgument
<1>2. cmd[t] \in Command /\ Sensible(cmd[t])
    BY <1>1, CommandTypes
<1>3. CASE GetArgument(t)
    <2>1. UNCHANGED <<cmd, pc, readVars, marked, file, romVars>> /\ cmd[t].prog = "get"
        BY <1>3 DEF GetArgument
    <2> QED BY <1>1, <2>1 DEF Course, Reading, Writing, readVars, romVars, ClearsCounters
<1>4. CASE SetArgument(t)
    <2>1. UNCHANGED <<cmd, pc, have, known, shown, file, romVars>> /\ cmd[t].prog = "set"
        BY <1>4 DEF SetArgument
    <2>2. \A r \in marked'[t] : r \in marked[t] \/ SpaceOf[r] = cmd[t].space
        <3> DEFINE a == cmd[t].args[next[t]]
        <3>1. CASE Found(t, a)
            <4>1. SpaceOf[a.reg] = cmd[t].space
                BY <3>1 DEF Found
            <4>2. PICK m \in {{}, {a.reg}} : marked' = [marked EXCEPT ![t] = @ \union m]
                BY <1>4, <3>1, Markings
            <4>3. marked'[t] = marked[t] \union m
                BY <4>2 DEF TypeOK
            <4> QED BY <4>1, <4>2, <4>3
        <3>2. CASE ~Found(t, a)
            BY <1>4, <3>2 DEF SetArgument
        <3> QED BY <3>1, <3>2
    <2> QED BY <1>1, <2>1, <2>2 DEF Course, Reading, Writing, romVars, ClearsCounters
<1>5. CASE DumpRegisters(t)
    <2>1. UNCHANGED <<cmd, readVars, marked, next, file, romVars>> /\ cmd[t].prog = "dump"
        BY <1>5 DEF DumpRegisters
    <2>2. pc'[t] \in {"error", "ok"}
        BY <1>5 DEF DumpRegisters, Goto, TypeOK
    <2> QED BY <1>1, <2>1, <2>2 DEF Course, Reading, Writing, readVars, romVars
<1>6. CASE FinishArguments(t)
    <2>1. UNCHANGED <<cmd, readVars, argVars, romVars>>
        BY <1>6 DEF FinishArguments
    <2>2. \/ pc'[t] = "ok"
          \/ cmd[t].prog = "set" /\ pc'[t] = "write" /\ file'[t] = FirstFile(cmd[t])
        BY <1>6 DEF FinishArguments, Goto, TypeOK
    <2>3. FirstFile(cmd[t]) = IF cmd[t].space = "router" THEN "router" ELSE "adapter"
        BY <1>1, <1>2 DEF FirstFile, Sensible, Course
    <2> QED BY <1>1, <2>1, <2>2, <2>3 DEF Course, Reading, Writing, readVars, argVars, romVars
<1> QED BY <1>3, <1>4, <1>5, <1>6 DEF Work

LEMMA WriteCourse ==
    ASSUME TypeOK, CourseOK, NEW t \in Tools, Write(t)
    PROVE  Course(t)'
<1>1. Course(t) /\ pc[t] \in {"write", "retry", "space"}
    BY DEF CourseOK, Write, WriteChanged, Retry, ClearCounters
<1>2. cmd[t] \in Command /\ Sensible(cmd[t])
    BY <1>1, CommandTypes
<1>3. CASE Stop(t, "error")
    BY <1>1, <1>3, StopCourse DEF Ended
<1>4. CASE ~Stop(t, "error")
    <2>1. UNCHANGED <<cmd, readVars, argVars, romVars>>
        BY <1>4 DEF Write, WriteChanged, Retry, ClearCounters, WriteHw
    <2>2. \/ pc'[t] \in {"ok", "error"}
          \/ pc[t] \in Writing /\ pc'[t] \in Writing /\ file'[t] = file[t]
          \/ pc[t] \in Writing /\ pc'[t] = "write" /\ file[t] = "adapter" /\ file'[t] = "path"
          \/ pc[t] = "space" /\ ClearsCounters(cmd[t]) /\ pc'[t] = "write" /\ file'[t] = FirstFile(cmd[t])
        BY <1>4 DEF Write, WriteChanged, Retry, ClearCounters, NextFile, Goto, TypeOK, Writing
    <2>3. ClearsCounters(cmd[t]) => cmd[t].prog = "set" /\ FirstFile(cmd[t]) = "adapter"
                                    /\ cmd[t].space = "counters"
        BY <1>2 DEF ClearsCounters, Sensible, FirstFile
    <2> QED BY <1>1, <2>1, <2>2, <2>3 DEF Course, Reading, Writing, readVars, argVars, romVars
<1> QED BY <1>3, <1>4

LEMMA RomCourse ==
    ASSUME TypeOK, CourseOK, NEW t \in Tools, ReadDrom(t) \/ NextEntry(t)
    PROVE  Course(t)'
<1>1. Course(t) /\ pc[t] \in {"rom", "entries"}
    BY DEF CourseOK, ReadDrom, NextEntry
<1>2. CASE Stop(t, "error")
    BY <1>1, <1>2, StopCourse DEF Ended
<1>3. CASE ~Stop(t, "error")
    <2>1. UNCHANGED <<cmd, readVars, argVars, file>>
        BY <1>3 DEF ReadDrom, NextEntry, RomStep
    <2>2. pc'[t] \in {"ok", "panic", "entries"}
        BY <1>1, <1>3 DEF ReadDrom, NextEntry, Goto, TypeOK
    <2> QED BY <1>1, <2>1, <2>2 DEF Course, Reading, Writing, readVars, argVars
<1> QED BY <1>2, <1>3

LEMMA CourseStep == TypeOK /\ CourseOK /\ [Next]_vars => CourseOK'
<1> SUFFICES ASSUME TypeOK, CourseOK, [Next]_vars PROVE CourseOK'
    OBVIOUS
<1>1. CASE UNCHANGED vars
    BY <1>1 DEF CourseOK, Course, vars, toolVars, readVars, argVars, romVars
<1>2. CASE HardwareChanges \/ Unplug \/ Plug
    BY <1>2, RouterSame, SameCourse DEF CourseOK
<1>3. ASSUME NEW t \in Tools, Start(t) \/ Step(t)
      PROVE  CourseOK'
    <2>1. Course(t)'
        BY <1>3, ReadCourse, WorkCourse, WriteCourse, RomCourse DEF Step
    <2>2. \A u \in Tools \ {t} : Course(u)'
        BY <1>3, ToolSame, SameCourse DEF CourseOK
    <2> QED BY <2>1, <2>2 DEF CourseOK
<1> QED BY <1>1, <1>2, <1>3 DEF Next

\* Every variable has its type, and only registers that were read are marked.
THEOREM TypeCorrect == Spec => []TypeOK
<1>1. Init => TypeOK /\ CourseOK
    BY TypeInit, CourseInit
<1>2. TypeOK /\ CourseOK /\ [Next]_vars => (TypeOK /\ CourseOK)'
    BY TypeStep, CourseStep
<1> QED BY <1>1, <1>2, PTL DEF Spec

-----------------------------------------------------------------------------
(***************************************************************************)
(* The device ROM. What lies below the offset has been printed once, and   *)
(* the offset is a cut of every series of entries that the ROM may be.     *)
(***************************************************************************)
RomOK(t) ==
    /\ \A b \in DOMAIN printed[t] : printed[t][b] = IF b < offset[t] THEN 1 ELSE 0
    /\ pc[t] = "ok" /\ cmd[t].space = "drom" => offset[t] >= rom[t].size
    /\ pc[t] = "entries" =>
         \A cuts \in SUBSET (HeaderSize(rom[t])..rom[t].size) :
             CutsEntries(rom[t], cuts) => offset[t] \in cuts
    /\ pc[t] = "panic" /\ rom[t] # NoDrom => ~WellFormed(rom[t])

LEMMA RomInit == Init => \A t \in Tools : RomOK(t)
BY DEF Init, RomOK, NoCommand

LEMMA SameRom ==
    ASSUME NEW u \in Tools, RomOK(u), Same(u)
    PROVE  RomOK(u)'
BY DEF RomOK, Same

\* Without the ROM a tool does not say that it has printed it.
LEMMA OtherRom ==
    ASSUME TypeOK, CourseOK, NEW t \in Tools, RomOK(t),
           Start(t) \/ Read(t) \/ Work(t) \/ Write(t)
    PROVE  RomOK(t)'
<1>1. Course(t)
    BY DEF CourseOK
<1>2. ASSUME UNCHANGED <<romVars, cmd>>, pc'[t] # "entries",
             pc'[t] = "panic" => rom[t] = NoDrom,
             pc'[t] = "ok" => cmd[t].space # "drom"
      PROVE  RomOK(t)'
    BY <1>2 DEF RomOK, romVars
<1>3. ASSUME pc[t] # "idle"
      PROVE  cmd[t] \in Command /\ Sensible(cmd[t])
    BY <1>3, CommandTypes
<1>4. CASE Start(t)
    <2>1. UNCHANGED romVars /\ pc'[t] = "find"
        BY <1>4 DEF Start, Goto, TypeOK
    <2> QED BY <2>1 DEF RomOK, romVars
<1>5. CASE Read(t)
    <2>1. UNCHANGED <<romVars, cmd>>
        BY <1>5 DEF Read, FindDevice, ReadRouter, ReadAdapters, ReadSpace, Stop, ReadFile
    <2>2. rom[t] = NoDrom
        BY <1>1, <1>5 DEF Read, FindDevice, ReadRouter, ReadAdapters, ReadSpace, Course, Reading
    <2>3. CASE pc[t] = "adapters"
        <3>1. pc'[t] \in {"error", "panic", FromAdapters(cmd[t])}
            BY <1>5, <2>3 DEF Read, FindDevice, ReadRouter, ReadAdapters, ReadSpace, Stop, Goto, TypeOK
        <3>2. /\ FromAdapters(cmd[t]) \in {"rom", "error", "ok", "args", "space"}
              /\ FromAdapters(cmd[t]) = "ok" => cmd[t].space # "drom"
            BY <2>3, FromAdaptersType
        <3> QED BY <1>2, <2>1, <2>2, <3>1, <3>2
    <2>4. CASE pc[t] # "adapters"
        <3>1. pc'[t] \in {"error", "panic", "router", "adapters", "args"}
            BY <1>5, <2>4 DEF Read, FindDevice, ReadRouter, ReadAdapters, ReadSpace, Stop, Goto, TypeOK
        <3> QED BY <1>2, <2>1, <2>2, <3>1
    <2> QED BY <2>3, <2>4
<1>6. CASE Work(t)
    <2>1. pc[t] = "args" /\ UNCHANGED <<romVars, cmd>>
        BY <1>6 DEF Work, GetArgument, SetArgument, DumpRegisters, FinishArguments, AtArgument
    <2>2. cmd[t].space # "drom"
        BY <1>1, <2>1 DEF Course
    <2>3. pc'[t] \in {"args", "ok", "error", "write"}
        BY <1>6, <2>1 DEF Work, GetArgument, SetArgument, DumpRegisters, FinishArguments, Goto, TypeOK
    <2> QED BY <1>2, <2>1, <2>2, <2>3
<1>7. CASE Write(t)
    <2>1. pc[t] \in {"write", "retry", "space"} /\ UNCHANGED <<romVars, cmd>>
        BY <1>7 DEF Write, WriteChanged, Retry, ClearCounters, Stop, WriteHw
    <2>2. pc'[t] \in {"ok", "error", "write", "retry"}
        BY <1>7 DEF Write, WriteChanged, Retry, ClearCounters, NextFile, Stop, Goto, TypeOK
    <2>3. cmd[t].space # "drom"
        BY <1>1, <1>3, <2>1 DEF Course, Writing, Sensible
    <2> QED BY <1>2, <2>1, <2>2, <2>3
<1> QED BY <1>4, <1>5, <1>6, <1>7

LEMMA ReadDromRom ==
    ASSUME TypeOK, CourseOK, NEW t \in Tools, RomOK(t), ReadDrom(t)
    PROVE  RomOK(t)'
<1>1. CASE Stop(t, "error")
    BY <1>1 DEF RomOK, Stop, Goto, TypeOK, romVars
<1>2. CASE ~Stop(t, "error")
    <2> DEFINE upto(d) == IF cmd[t].verbose THEN HeaderSize(d) ELSE d.size
    <2>1. PICK d \in Droms :
            /\ rom' = [rom EXCEPT ![t] = d]
            /\ printed' = [printed EXCEPT ![t] =
                   [b \in 0..(d.size - 1) |-> IF b < upto(d) THEN 1 ELSE 0]]
            /\ offset' = [offset EXCEPT ![t] = upto(d)]
            /\ Goto(t, IF ~cmd[t].verbose THEN "ok"
                       ELSE IF upto(d) < d.size THEN "entries" ELSE "panic")
        BY <1>2 DEF ReadDrom
    <2>2. rom'[t] = d /\ offset'[t] = upto(d)
          /\ printed'[t] = [b \in 0..(d.size - 1) |-> IF b < upto(d) THEN 1 ELSE 0]
        BY <2>1 DEF TypeOK
    <2>3. d.size \in Nat /\ HeaderSize(d) \in Nat
        BY DromTypes DEF HeaderSize
    <2>4. pc'[t] = IF ~cmd[t].verbose THEN "ok"
                   ELSE IF upto(d) < d.size THEN "entries" ELSE "panic"
        BY <2>1 DEF Goto, TypeOK
    <2>5. \A b \in DOMAIN printed'[t] : printed'[t][b] = IF b < offset'[t] THEN 1 ELSE 0
        BY <2>2
    <2>6. pc'[t] = "ok" => offset'[t] >= rom'[t].size
        BY <2>2, <2>3, <2>4
    <2>7. pc'[t] = "entries" =>
            \A cuts : CutsEntries(rom'[t], cuts) => offset'[t] \in cuts
        BY <2>2, <2>4 DEF CutsEntries
    <2>8. pc'[t] = "panic" => ~WellFormed(rom'[t])
        BY <2>2, <2>3, <2>4 DEF WellFormed
    <2> QED BY <2>5, <2>6, <2>7, <2>8 DEF RomOK
<1> QED BY <1>1, <1>2

LEMMA NextEntryRom ==
    ASSUME TypeOK, CourseOK, NEW t \in Tools, RomOK(t), NextEntry(t)
    PROVE  RomOK(t)'
<1> DEFINE d == rom[t]
           o == offset[t]
           len == d.at[o].len
<1>1. d.size \in Nat /\ o \in Nat /\ pc[t] = "entries"
      /\ \A i \in 0..(d.size - 1) : d.at[i] \in Entry
    <2>1. d \in Droms \union {NoDrom} /\ o \in Nat
        BY DEF TypeOK
    <2> QED BY <2>1, DromTypes DEF NextEntry
<1>2. CASE o >= d.size
    <2>1. pc'[t] = "ok" /\ UNCHANGED romVars
        BY <1>2 DEF NextEntry, Goto, TypeOK
    <2> QED BY <1>2, <2>1 DEF RomOK, romVars
<1>3. CASE ~(o >= d.size)
    <2>1. o \in 0..(d.size - 1) /\ len \in Nat
        BY <1>1, <1>3 DEF Entry
    <2>2. ASSUME NEW cuts \in SUBSET (HeaderSize(d)..d.size), CutsEntries(d, cuts)
          PROVE  len > 0 /\ o + len \in cuts /\ o + len <= d.size /\ Parses(d.at[o])
        <3>1. o \in cuts \ {d.size}
            BY <1>1, <2>1, <2>2 DEF RomOK
        <3>2. len > 0 /\ o + len \in cuts /\ Parses(d.at[o])
            BY <2>2, <3>1 DEF CutsEntries
        <3>3. o + len \in HeaderSize(d)..d.size
            BY <3>2
        <3>4. HeaderSize(d) \in Nat
            BY DEF HeaderSize
        <3>5. o + len <= d.size
            BY <1>1, <2>1, <3>3, <3>4
        <3> QED BY <3>2, <3>5
    <2>3. CASE Fits(d, o) /\ Parses(d.at[o])
        <3>1. /\ PrintBytes(t, o, o + len - 1) /\ offset' = [offset EXCEPT ![t] = @ + len]
              /\ UNCHANGED <<pc, rom, cmd>>
            BY <1>3, <2>3, Zenon DEF NextEntry, RomStep
        <3>2. offset'[t] = o + len /\ rom'[t] = d /\ pc'[t] = "entries"
            BY <1>1, <3>1 DEF TypeOK
        <3>3. printed'[t] = [b \in DOMAIN printed[t] |->
                  IF b \in o..(o + len - 1) THEN printed[t][b] + 1 ELSE printed[t][b]]
            BY <3>1 DEF PrintBytes, TypeOK
        <3>4. DOMAIN printed[t] = 0..(d.size - 1)
            BY DEF TypeOK
        <3>5. ASSUME NEW b \in DOMAIN printed'[t]
              PROVE  printed'[t][b] = IF b < offset'[t] THEN 1 ELSE 0
            <4>1. b \in DOMAIN printed[t] /\ b \in Int
                BY <1>1, <3>3, <3>4, <3>5
            <4>2. printed[t][b] = IF b < o THEN 1 ELSE 0
                BY <4>1 DEF RomOK
            <4>3. printed'[t][b] = IF b \in o..(o + len - 1) THEN printed[t][b] + 1 ELSE printed[t][b]
                BY <3>3, <4>1
            <4> HIDE DEF len, o, d
            <4> QED BY <1>1, <2>1, <3>2, <4>1, <4>2, <4>3
        <3>6. \A cuts \in SUBSET (HeaderSize(rom'[t])..rom'[t].size) :
                 CutsEntries(rom'[t], cuts) => offset'[t] \in cuts
            BY <2>2, <3>2
        <3> QED BY <3>2, <3>5, <3>6 DEF RomOK
    <2>4. CASE ~(Fits(d, o) /\ Parses(d.at[o]))
        <3>1. pc'[t] = "panic" /\ UNCHANGED <<romVars, cmd>>
            BY <1>3, <2>4 DEF NextEntry, Goto, TypeOK, RomStep
        <3>2. ~WellFormed(d)
            BY <2>2, <2>4 DEF WellFormed, Fits
        <3> QED BY <3>1, <3>2 DEF RomOK, romVars
    <2> QED BY <2>3, <2>4
<1> QED BY <1>2, <1>3

LEMMA RomStepOK ==
    TypeOK /\ CourseOK /\ (\A t \in Tools : RomOK(t)) /\ [Next]_vars => (\A t \in Tools : RomOK(t))'
<1> SUFFICES ASSUME TypeOK, CourseOK, \A t \in Tools : RomOK(t), [Next]_vars, NEW u \in Tools
             PROVE  RomOK(u)'
    OBVIOUS
<1>1. CASE UNCHANGED vars
    BY <1>1 DEF RomOK, vars, toolVars, romVars
<1>2. CASE HardwareChanges \/ Unplug \/ Plug
    BY <1>2, RouterSame, SameRom
<1>3. ASSUME NEW t \in Tools, Start(t) \/ Step(t)
      PROVE  RomOK(u)'
    <2>1. CASE u = t
        BY <1>3, <2>1, OtherRom, ReadDromRom, NextEntryRom DEF Step
    <2>2. CASE u # t
        BY <1>3, <2>2, ToolSame, SameRom
    <2> QED BY <2>1, <2>2
<1> QED BY <1>1, <1>2, <1>3 DEF Next

\* No byte of a device ROM is printed twice; a dump that ends well has printed
\* them all, and it panics or gets stuck at no ROM whose entries fit and whose
\* names are UTF-8.
THEOREM EveryByteOnce == Spec => []PrintedOnce
<1>1. Init => TypeOK /\ CourseOK /\ \A t \in Tools : RomOK(t)
    BY TypeInit, CourseInit, RomInit
<1>2. TypeOK /\ CourseOK /\ (\A t \in Tools : RomOK(t)) /\ [Next]_vars
      => (TypeOK /\ CourseOK /\ \A t \in Tools : RomOK(t))'
    BY TypeStep, CourseStep, RomStepOK
<1>3. TypeOK /\ (\A t \in Tools : RomOK(t)) => PrintedOnce
    <2> SUFFICES ASSUME TypeOK, NEW t \in Tools, RomOK(t)
                 PROVE  /\ \A b \in DOMAIN printed[t] : printed[t][b] <= 1
                        /\ pc[t] = "ok" /\ cmd[t].space = "drom" =>
                             \A b \in DOMAIN printed[t] : printed[t][b] = 1
                        /\ Stuck(t) \/ (rom[t] # NoDrom /\ pc[t] = "panic")
                             => ~WellFormed(rom[t])
        BY DEF PrintedOnce
    <2>1. DOMAIN printed[t] = 0..(rom[t].size - 1) /\ rom[t].size \in Nat /\ offset[t] \in Nat
        <3>1. rom[t] \in Droms \union {NoDrom} /\ offset[t] \in Nat
              /\ DOMAIN printed[t] = 0..(rom[t].size - 1)
            BY DEF TypeOK
        <3> QED BY <3>1, DromTypes
    <2>2. \A b \in DOMAIN printed[t] : printed[t][b] = IF b < offset[t] THEN 1 ELSE 0
        BY DEF RomOK
    <2>3. pc[t] = "ok" /\ cmd[t].space = "drom" => offset[t] >= rom[t].size
        BY DEF RomOK
    <2>4. ASSUME Stuck(t), WellFormed(rom[t])
          PROVE  FALSE
        <3>1. PICK cuts \in SUBSET (HeaderSize(rom[t])..rom[t].size) : CutsEntries(rom[t], cuts)
            BY <2>4 DEF WellFormed
        <3>2. offset[t] \in cuts \ {rom[t].size}
            BY <2>1, <2>4, <3>1 DEF RomOK, Stuck
        <3>3. rom[t].at[offset[t]].len > 0
            BY <3>1, <3>2 DEF CutsEntries
        <3> QED BY <2>4, <3>3 DEF Stuck
    <2>5. rom[t] # NoDrom /\ pc[t] = "panic" => ~WellFormed(rom[t])
        BY DEF RomOK
    <2>6. \A b \in DOMAIN printed[t] : printed[t][b] <= 1
        BY <2>2
    <2>7. pc[t] = "ok" /\ cmd[t].space = "drom" => \A b \in DOMAIN printed[t] : printed[t][b] = 1
        BY <2>1, <2>2, <2>3
    <2> QED BY <2>4, <2>5, <2>6, <2>7
<1> QED BY <1>1, <1>2, <1>3, PTL DEF Spec

-----------------------------------------------------------------------------
(***************************************************************************)
(* The registers. Where nobody else has changed a register since the tool  *)
(* read it, its own copy differs from it in the bits it was told to enter, *)
(* and only until the register is written.                                 *)
(***************************************************************************)
Kept(t) ==
    \A r \in undisturbed[t] :
        /\ \A b \in hw[r] \ cache[t][r] :
             \E i \in Naming(t, r) : b \in Mask(FieldOf(cmd[t].args[i]))
        /\ \A b \in cache[t][r] \ hw[r] :
             \E i \in Naming(t, r) : b \in Touched(FieldOf(cmd[t].args[i]), cmd[t].args[i].bits)
        /\ r \notin marked[t] => hw[r] = cache[t][r]

Entered(t) ==
    cmd[t].prog = "set" =>
        \A r \in known[t] : \A i \in Naming(t, r) :
            Stands(t, i) =>
                LET a == cmd[t].args[i] IN
                FieldValue(cache[t][r], FieldOf(a)) = Truncated(a.bits, FieldOf(a))

ShownOK(t) ==
    \A s \in shown[t] : s.reg \in undisturbed[t] => FieldValue(hw[s.reg], s.field) = s.bits

Written(t) ==
    \A r \in marked[t] \intersect undisturbed[t] :
        \/ pc[t] \in Writing /\ file[t] = "path" /\ SpaceOf[r] = "adapter"
        \/ pc[t] = "ok" /\ cmd[t].prog = "set"
        => hw[r] = cache[t][r]

HwOK(t) == Kept(t) /\ Entered(t) /\ ShownOK(t) /\ Written(t)

LEMMA HwInit == Init => \A t \in Tools : HwOK(t)
BY DEF Init, HwOK, Kept, Entered, ShownOK, Written, NoCommand

\* The arguments a tool has got to do not depend on anything else.
LEMMA NamingFrame ==
    ASSUME NEW t, cmd'[t] = cmd[t], known'[t] = known[t], next'[t] = next[t]
    PROVE  /\ \A r : Naming(t, r)' = Naming(t, r)
           /\ \A i : Stands(t, i)' <=> Stands(t, i)
<1>1. \A r : Naming(t, r)' = Naming(t, r)
    BY DEF Naming, Found
<1> QED BY <1>1 DEF Stands

LEMMA ArgumentsCounted ==
    ASSUME TypeOK, NEW t \in Tools, pc[t] # "idle"
    PROVE  DOMAIN cmd[t].args \subseteq Nat \ {0}
<1>1. cmd[t] \in Command
    BY CommandTypes
<1> QED BY <1>1 DEF Command

LEMMA SameHw ==
    ASSUME TypeOK, TypeOK', NEW u \in Tools, HwOK(u), Same(u)
    PROVE  HwOK(u)'
<1>1. /\ \A r : Naming(u, r)' = Naming(u, r)
      /\ \A i : Stands(u, i)' <=> Stands(u, i)
    BY NamingFrame DEF Same
<1>2. \A r \in undisturbed'[u] : r \in undisturbed[u] /\ hw'[r] = hw[r]
    BY DEF Same
<1>3. Kept(u)'
    BY <1>1, <1>2 DEF HwOK, Kept, Same
<1>4. Entered(u)'
    BY <1>1 DEF HwOK, Entered, Same
<1>5. ShownOK(u)'
    BY <1>2 DEF HwOK, ShownOK, Same
<1>6. Written(u)'
    BY <1>2 DEF HwOK, Written, Same
<1> QED BY <1>3, <1>4, <1>5, <1>6 DEF HwOK

\* A step that neither reads nor writes registers.
LEMMA QuietHw ==
    ASSUME NEW t \in Tools, HwOK(t),
           UNCHANGED <<hw, cmd, known, cache, marked, next, undisturbed>>,
           ShownOK(t)',
           pc'[t] \in Writing => file'[t] # "path",
           pc'[t] = "ok" => cmd[t].prog # "set"
    PROVE  HwOK(t)'
<1>1. /\ \A r : Naming(t, r)' = Naming(t, r)
      /\ \A i : Stands(t, i)' <=> Stands(t, i)
    BY NamingFrame
<1>2. Kept(t)'
    BY <1>1 DEF HwOK, Kept
<1>3. Entered(t)'
    BY <1>1 DEF HwOK, Entered
<1>4. Written(t)'
    BY DEF HwOK, Written
<1> QED BY <1>2, <1>3, <1>4 DEF HwOK

LEMMA ReadFileHw ==
    ASSUME TypeOK, TypeOK', CourseOK, NEW t \in Tools, HwOK(t), pc[t] \in Reading \ {"idle"},
           NEW space, NEW regs, ReadFile(t, space, regs), pc'[t] # "idle"
    PROVE  HwOK(t)'
<1>1. next[t] = 1 /\ marked[t] = {} /\ shown[t] = {}
    BY DEF CourseOK, Course
<1>2. UNCHANGED <<hw, cmd, marked, next, shown>>
    BY DEF ReadFile, routerVars, argVars
<1>3. \A r : Naming(t, r)' = {}
    <2>1. DOMAIN cmd[t].args \subseteq Nat \ {0}
        BY ArgumentsCounted
    <2> QED BY <1>1, <1>2, <2>1 DEF Naming
<1>4. undisturbed'[t] = undisturbed[t] \union regs
      /\ cache'[t] = [r \in Registers |-> IF r \in regs THEN hw[r] ELSE cache[t][r]]
    BY DEF ReadFile, TypeOK
<1>5. \A r \in undisturbed[t] : hw[r] = cache[t][r]
    BY <1>1 DEF HwOK, Kept
<1>6. \A r \in undisturbed'[t] : r \in Registers
    BY DEF TypeOK
<1>7. Kept(t)'
    BY <1>1, <1>2, <1>4, <1>5, <1>6 DEF Kept
<1>8. Entered(t)' /\ ShownOK(t)' /\ Written(t)'
    BY <1>1, <1>2, <1>3 DEF Entered, ShownOK, Written
<1> QED BY <1>7, <1>8 DEF HwOK

\* An argument that has been dealt with is named from then on, no other is.
LEMMA NamingGrows ==
    ASSUME TypeOK, NEW t \in Tools, AtArgument(t),
           cmd'[t] = cmd[t], known'[t] = known[t], next'[t] = next[t] + 1
    PROVE  LET a == cmd[t].args[next[t]] IN
           \A r : Naming(t, r)' = Naming(t, r)
                     \union {i \in {next[t]} : a.reg = r /\ Found(t, a)}
<1>1. DOMAIN cmd[t].args \subseteq Nat \ {0} /\ next[t] \in Nat /\ next[t] \in DOMAIN cmd[t].args
    BY ArgumentsCounted DEF AtArgument, TypeOK
<1>2. \A a : Found(t, a)' <=> Found(t, a)
    BY DEF Found
<1>3. \A i \in DOMAIN cmd[t].args : i < next[t] + 1 <=> i < next[t] \/ i = next[t]
    BY <1>1
<1> QED BY <1>1, <1>2, <1>3 DEF Naming

LEMMA GetHw ==
    ASSUME TypeOK, CourseOK, NEW t \in Tools, HwOK(t), GetArgument(t)
    PROVE  HwOK(t)'
<1> DEFINE a == cmd[t].args[next[t]]
<1>1. /\ AtArgument(t) /\ cmd[t].prog = "get" /\ pc[t] = "args"
      /\ UNCHANGED <<hw, cmd, pc, known, cache, marked, file, undisturbed>>
      /\ next'[t] = next[t] + 1
    BY DEF GetArgument, AtArgument, TypeOK, routerVars, readVars
<1>2. marked[t] = {}
    BY <1>1 DEF CourseOK, Course
<1>3. \A r : Naming(t, r) \subseteq Naming(t, r)'
    BY <1>1, NamingGrows
<1>4. Kept(t)'
    BY <1>1, <1>3 DEF HwOK, Kept
<1>5. Entered(t)' /\ Written(t)'
    BY <1>1, <1>2 DEF Entered, Written
<1>6. ShownOK(t)'
    <2>1. shown'[t] = IF Found(t, a)
                      THEN shown[t] \union {[reg |-> a.reg, field |-> FieldOf(a),
                                             bits |-> FieldValue(cache[t][a.reg], FieldOf(a))]}
                      ELSE shown[t]
        BY DEF GetArgument, TypeOK
    <2>2. \A r \in undisturbed[t] : hw[r] = cache[t][r]
        BY <1>2 DEF HwOK, Kept
    <2> SUFFICES ASSUME NEW s \in shown'[t], s.reg \in undisturbed[t]
                 PROVE  FieldValue(hw[s.reg], s.field) = s.bits
        BY <1>1 DEF ShownOK
    <2>3. CASE s \in shown[t]
        BY <2>3 DEF HwOK, ShownOK
    <2>4. CASE s = [reg |-> a.reg, field |-> FieldOf(a),
                    bits |-> FieldValue(cache[t][a.reg], FieldOf(a))]
        <3> HIDE DEF a
        <3>1. s.reg = a.reg /\ s.field = FieldOf(a)
              /\ s.bits = FieldValue(cache[t][a.reg], FieldOf(a))
            BY <2>4
        <3>2. hw[a.reg] = cache[t][a.reg]
            BY <2>2, <3>1
        <3> QED BY <3>1, <3>2
    <2> QED BY <2>1, <2>3, <2>4
<1> QED BY <1>4, <1>5, <1>6 DEF HwOK

LEMMA DumpHw ==
    ASSUME TypeOK, CourseOK, NEW t \in Tools, HwOK(t), DumpRegisters(t)
    PROVE  HwOK(t)'
<1>1. /\ cmd[t].prog = "dump" /\ pc[t] = "args"
      /\ UNCHANGED <<hw, cmd, known, cache, marked, next, undisturbed>>
      /\ pc'[t] \in {"error", "ok"}
    BY DEF DumpRegisters, Goto, TypeOK, routerVars, readVars
<1>2. marked[t] = {}
    BY <1>1 DEF CourseOK, Course
<1>3. \A r \in undisturbed[t] : hw[r] = cache[t][r]
    BY <1>2 DEF HwOK, Kept
<1>4. \/ shown'[t] = shown[t]
      \/ shown'[t] = {[reg |-> r, field |-> Whole, bits |-> FieldValue(cache[t][r], Whole)] :
                          r \in Dumped(t)}
    <2>1. \A r \in Registers : FieldValue(cache[t][r], Whole) = cache[t][r]
        <3> SUFFICES ASSUME NEW v \in Value PROVE FieldValue(v, Whole) = v
            BY DEF TypeOK
        <3>1. \A b \in Bits : b + 0 = b
            BY WidthAssumption DEF Bits
        <3> QED BY <3>1, WidthAssumption DEF FieldValue, Whole, ShiftRight, Mask, Value, Bits
    <2>2. Dumped(t) \subseteq Registers
        BY DEF Dumped, TypeOK
    <2>3. \/ shown'[t] = shown[t]
          \/ shown'[t] = {[reg |-> r, field |-> Whole, bits |-> cache[t][r]] : r \in Dumped(t)}
        BY DEF DumpRegisters, TypeOK
    <2> QED BY <2>1, <2>2, <2>3
<1>5. ShownOK(t)'
    BY <1>1, <1>3, <1>4 DEF HwOK, ShownOK
<1> QED BY <1>1, <1>5, QuietHw DEF Writing

LEMMA SetHw ==
    ASSUME TypeOK, TypeOK', CourseOK, NEW t \in Tools, HwOK(t), SetArgument(t)
    PROVE  HwOK(t)'
<1> DEFINE n == next[t]
           a == cmd[t].args[n]
           f == FieldOf(a)
           v == SetField(cache[t][a.reg], f, a.bits)
<1>1. /\ AtArgument(t) /\ cmd[t].prog = "set" /\ pc[t] = "args"
      /\ UNCHANGED <<hw, cmd, pc, known, shown, file, undisturbed>>
      /\ next'[t] = next[t] + 1 /\ next[t] \in Nat
    BY DEF SetArgument, AtArgument, TypeOK, routerVars
<1>2. shown[t] = {}
    BY <1>1 DEF CourseOK, Course
<1>3. \A r : Naming(t, r)' = Naming(t, r) \union {i \in {n} : a.reg = r /\ Found(t, a)}
    BY <1>1, NamingGrows
<1>4. ShownOK(t)' /\ Written(t)'
    BY <1>1, <1>2 DEF ShownOK, Written, Writing
<1>5. CASE ~Found(t, a)
    <2>1. UNCHANGED <<cache, marked>>
        BY <1>5 DEF SetArgument
    <2>2. \A r : Naming(t, r)' = Naming(t, r)
        BY <1>3, <1>5
    <2>3. \A i : Stands(t, i)' <=> Stands(t, i)
        BY <1>1, <2>2 DEF Stands
    <2>4. Kept(t)' /\ Entered(t)'
        BY <1>1, <2>1, <2>2, <2>3 DEF HwOK, Kept, Entered
    <2> QED BY <1>4, <2>4 DEF HwOK
<1>6. CASE Found(t, a)
    <2>1. a.reg \in known[t] /\ a.reg \in Registers /\ a \in Argument
        <3>1. a \in Argument
            BY <1>1, CommandTypes DEF AtArgument
        <3> QED BY <1>6, <3>1 DEF Found, TypeOK
    <2>2. cache[t][a.reg] \in Value /\ f \in Field /\ a.bits \in Value
        BY <2>1, ArgumentTypes DEF TypeOK
    <2>3. /\ cache'[t] = [cache[t] EXCEPT ![a.reg] = v]
          /\ marked'[t] = IF Marks(t, a, v) THEN marked[t] \union {a.reg} ELSE marked[t]
        <3>1. /\ cache' = [cache EXCEPT ![t][a.reg] = v]
              /\ marked' = [marked EXCEPT ![t] =
                                IF Marks(t, a, v) THEN @ \union {a.reg} ELSE @]
            BY <1>6 DEF SetArgument
        <3>2. DOMAIN cache = Tools /\ DOMAIN marked = Tools
            BY DEF TypeOK
        <3> HIDE DEF a, v
        <3> QED BY <3>1, <3>2
    <2>4. cache'[t][a.reg] = v /\ \A r \in Registers \ {a.reg} : cache'[t][r] = cache[t][r]
        <3>1. DOMAIN cache[t] = Registers
            BY DEF TypeOK
        <3> HIDE DEF a, v
        <3> QED BY <2>1, <2>3, <3>1
    <2>5. \A r : /\ r = a.reg => n \in Naming(t, r)'
                 /\ Naming(t, r) \subseteq Naming(t, r)'
        BY <1>3, <1>6
    <2>6. Kept(t)'
        <3> SUFFICES ASSUME NEW r \in undisturbed[t]
                     PROVE  /\ \A b \in hw[r] \ cache'[t][r] :
                                 \E i \in Naming(t, r)' : b \in Mask(FieldOf(cmd[t].args[i]))
                            /\ \A b \in cache'[t][r] \ hw[r] :
                                 \E i \in Naming(t, r)' :
                                     b \in Touched(FieldOf(cmd[t].args[i]), cmd[t].args[i].bits)
                            /\ r \notin marked'[t] => hw[r] = cache'[t][r]
            BY <1>1 DEF Kept
        <3>1. /\ \A b \in hw[r] \ cache[t][r] :
                   \E i \in Naming(t, r) : b \in Mask(FieldOf(cmd[t].args[i]))
              /\ \A b \in cache[t][r] \ hw[r] :
                   \E i \in Naming(t, r) :
                       b \in Touched(FieldOf(cmd[t].args[i]), cmd[t].args[i].bits)
              /\ r \notin marked[t] => hw[r] = cache[t][r]
            BY DEF HwOK, Kept
        <3>2. r \in Registers
            BY DEF TypeOK
        <3>3. CASE r # a.reg
            BY <2>3, <2>4, <2>5, <3>1, <3>2, <3>3
        <3>4. CASE r = a.reg
            <4>1. \A b : /\ b \in cache[t][r] \ v => b \in Mask(f)
                         /\ b \in v \ cache[t][r] => b \in Touched(f, a.bits)
                BY <3>4 DEF SetField, Touched
            <4>2. r \notin marked'[t] => v = cache[t][r] /\ r \notin marked[t]
                BY <2>3, <3>4 DEF Marks
            <4>3. \A b \in hw[r] \ v : \E i \in Naming(t, r)' : b \in Mask(FieldOf(cmd[t].args[i]))
                <5>1. \A b \in hw[r] \ v : b \in Mask(f) \/ b \in hw[r] \ cache[t][r]
                    BY <4>1
                <5> QED BY <2>5, <3>1, <3>4, <5>1, Zenon
            <4>4. \A b \in v \ hw[r] : \E i \in Naming(t, r)' :
                      b \in Touched(FieldOf(cmd[t].args[i]), cmd[t].args[i].bits)
                <5>1. \A b \in v \ hw[r] : b \in Touched(f, a.bits) \/ b \in cache[t][r] \ hw[r]
                    BY <4>1
                <5> QED BY <2>5, <3>1, <3>4, <5>1, Zenon
            <4> QED BY <2>4, <3>1, <3>4, <4>2, <4>3, <4>4
        <3> QED BY <3>3, <3>4
    <2>7. Entered(t)'
        <3> SUFFICES ASSUME NEW r \in known[t], NEW i \in Naming(t, r)', Stands(t, i)'
                     PROVE  LET c == cmd[t].args[i] IN
                            FieldValue(cache'[t][r], FieldOf(c)) = Truncated(c.bits, FieldOf(c))
            BY <1>1 DEF Entered
        <3> DEFINE c == cmd[t].args[i]
        <3>1. r \in Registers /\ i \in DOMAIN cmd[t].args /\ c.reg = r
            BY <1>1 DEF TypeOK, Naming
        <3>2. CASE i = n
            BY <2>2, <2>4, <3>1, <3>2, FieldEntered
        <3>3. CASE i # n
            <4>1. i \in Naming(t, r) /\ i < n
                BY <1>3, <3>3 DEF Naming
            <4>2. Stands(t, i)
                BY <1>1, <2>5 DEF Stands
            <4>3. FieldValue(cache[t][r], FieldOf(c)) = Truncated(c.bits, FieldOf(c))
                BY <1>1, <4>1, <4>2 DEF HwOK, Entered
            <4>4. CASE r # a.reg
                BY <2>4, <3>1, <4>3, <4>4
            <4>5. CASE r = a.reg
                <5>1. n > i
                    BY <1>1, <3>1, <4>1, ArgumentsCounted
                <5>2. Mask(FieldOf(c)) \intersect Touched(f, a.bits) = {}
                    <6>1. \A j \in Naming(t, r)' :
                              j > i => Mask(FieldOf(c)) \intersect
                                           Touched(FieldOf(cmd[t].args[j]), cmd[t].args[j].bits) = {}
                        BY <1>1, <3>1 DEF Stands
                    <6> QED BY <2>5, <4>5, <5>1, <6>1
                <5>3. FieldOf(c) \in Field
                    BY <1>1, <3>1, CommandTypes, ArgumentTypes
                <5> HIDE DEF f, v, c
                <5>4. FieldValue(v, FieldOf(c)) = FieldValue(cache[t][r], FieldOf(c))
                    BY <2>2, <4>5, <5>2, <5>3, FieldKept DEF v
                <5> QED BY <2>4, <4>3, <4>5, <5>4 DEF c
            <4> QED BY <4>4, <4>5
        <3> QED BY <3>2, <3>3
    <2> QED BY <1>4, <2>6, <2>7 DEF HwOK
<1> QED BY <1>5, <1>6

\* A write brings registers of the router up to the tool's own copy.
LEMMA WriteHwHw ==
    ASSUME TypeOK, NEW t \in Tools, HwOK(t), shown[t] = {}, NEW regs, WriteHw(t, regs)
    PROVE  /\ Kept(t)' /\ Entered(t)' /\ ShownOK(t)'
           /\ undisturbed'[t] = undisturbed[t]
           /\ \A r \in undisturbed[t] :
                /\ hw'[r] = cache[t][r] \/ hw'[r] = hw[r]
                /\ r \in regs => hw'[r] = cache[t][r]
                /\ hw[r] = cache[t][r] => hw'[r] = cache[t][r]
<1>1. UNCHANGED <<cmd, known, cache, marked, next, shown>>
    BY DEF WriteHw, readVars, argVars
<1>2. undisturbed'[t] = undisturbed[t]
    BY DEF WriteHw, Disturb
<1>3. \A r \in undisturbed[t] : hw'[r] = IF r \in regs THEN cache[t][r] ELSE hw[r]
    BY DEF WriteHw, TypeOK
<1>4. /\ \A r : Naming(t, r)' = Naming(t, r)
      /\ \A i : Stands(t, i)' <=> Stands(t, i)
    BY <1>1, NamingFrame
<1>5. Kept(t)'
    BY <1>1, <1>2, <1>3, <1>4 DEF HwOK, Kept
<1>6. Entered(t)' /\ ShownOK(t)'
    BY <1>1, <1>4 DEF HwOK, Entered, ShownOK
<1> QED BY <1>2, <1>3, <1>5, <1>6

\* A file that is written holds all that was marked in it.
LEMMA WriteChangedHw ==
    ASSUME TypeOK, CourseOK, NEW t \in Tools, HwOK(t), WriteChanged(t), ~Stop(t, "error")
    PROVE  HwOK(t)'
<1>1. pc[t] = "write" /\ Course(t) /\ cmd[t].prog = "set" /\ shown[t] = {}
    BY DEF WriteChanged, CourseOK, Course, Writing
<1>2. UNCHANGED <<cmd, cache, marked>>
    BY DEF WriteChanged, WriteHw, readVars, argVars
<1>3. \E regs : WriteHw(t, regs)
    BY DEF WriteChanged
<1>4. CASE NextFile(t) /\ WriteHw(t, IF file[t] \in have[t] THEN ToWrite(t) ELSE {})
    <2> DEFINE regs == IF file[t] \in have[t] THEN ToWrite(t) ELSE {}
    <2>1. \A r \in marked[t] : SpaceOf[r] = file[t] => r \in regs
        BY <1>1 DEF ToWrite, Course, TypeOK
    <2>2. \A r \in marked[t] : SpaceOf[r] = cmd[t].space
        BY <1>1 DEF Course
    <2>3. cmd[t].space = "counters" /\ cmd[t].prog = "set" => marked[t] = {}
        BY <1>1 DEF Course, ClearsCounters
    <2>4. \A r \in marked[t] \intersect undisturbed[t] : SpaceOf[r] = file[t] => hw'[r] = cache[t][r]
        BY <1>1, <1>4, <2>1, WriteHwHw
    <2>5. cmd[t] \in Command /\ Sensible(cmd[t])
        BY <1>1, CommandTypes
    <2>6. cmd[t].space \in Spaces
        BY <1>1, <2>5 DEF Command, Sensible
    <2>7. CASE file[t] = "adapter"
        <3>1. pc'[t] = "write"
            BY <1>4, <2>7 DEF NextFile, Goto, TypeOK
        <3>2. Written(t)'
            BY <1>1, <1>2, <1>3, <2>4, <2>7, <3>1, WriteHwHw DEF Written
        <3> QED BY <1>1, <1>3, <3>2, WriteHwHw DEF HwOK
    <2>8. CASE file[t] # "adapter"
        <3>1. pc'[t] = "ok"
            BY <1>4, <2>8 DEF NextFile, Goto, TypeOK
        <3>2. \/ file[t] = "router" /\ cmd[t].space = "router"
              \/ file[t] = "path" /\ cmd[t].space \in {"adapter", "path", "counters"}
            <4>1. file[t] \in IF cmd[t].space = "router" THEN {"router"} ELSE {"adapter", "path"}
                BY <1>1 DEF Course, Writing
            <4> QED BY <2>6, <2>8, <4>1 DEF Spaces
        <3>3. ASSUME NEW r \in marked[t] \intersect undisturbed[t]
              PROVE  hw'[r] = cache[t][r]
            <4>1. CASE SpaceOf[r] = file[t]
                BY <2>4, <4>1
            <4>2. CASE SpaceOf[r] # file[t]
                <5>1. file[t] = "path" /\ SpaceOf[r] = "adapter"
                    BY <1>1, <2>2, <2>3, <3>2, <4>2
                <5>2. hw[r] = cache[t][r]
                    BY <1>1, <5>1 DEF HwOK, Written, Writing
                <5> QED BY <1>1, <1>3, <5>2, WriteHwHw
            <4> QED BY <4>1, <4>2
        <3>4. Written(t)'
            BY <1>1, <1>2, <1>3, <3>3, WriteHwHw DEF Written
        <3> QED BY <1>1, <1>3, <3>4, WriteHwHw DEF HwOK
    <2> QED BY <2>7, <2>8
<1>5. CASE Goto(t, "retry") /\ file' = file
    <2>1. pc'[t] = "retry"
        BY <1>5 DEF Goto, TypeOK
    <2>2. Written(t)'
        BY <1>1, <1>2, <1>3, <1>5, <2>1, WriteHwHw DEF Written, HwOK, Writing
    <2> QED BY <1>1, <1>3, <2>2, WriteHwHw DEF HwOK
<1> QED BY <1>4, <1>5 DEF WriteChanged

LEMMA WriteStepHw ==
    ASSUME TypeOK, TypeOK', CourseOK, NEW t \in Tools, HwOK(t), Write(t)
    PROVE  HwOK(t)'
<1>1. CASE Stop(t, "error")
    <2>1. UNCHANGED <<hw, cmd, known, cache, marked, next, undisturbed, shown>> /\ pc'[t] = "error"
        BY <1>1 DEF Stop, Goto, TypeOK, routerVars, readVars, argVars
    <2>2. ShownOK(t)'
        BY <2>1 DEF HwOK, ShownOK
    <2> QED BY <2>1, <2>2, QuietHw DEF Writing
<1>2. CASE WriteChanged(t) /\ ~Stop(t, "error")
    BY <1>2, WriteChangedHw
<1>3. CASE Retry(t)
    <2>1. \E regs : WriteHw(t, regs)
        BY <1>3 DEF Retry
    <2>2. pc'[t] = "error" /\ shown[t] = {}
        <3>1. pc[t] = "retry" /\ pc' = [pc EXCEPT ![t] = "error"] /\ DOMAIN pc = Tools
            BY <1>3 DEF Retry, Goto, TypeOK
        <3>2. cmd[t].prog = "set" /\ (shown[t] # {} => cmd[t].prog \in {"get", "dump"})
            BY <3>1 DEF CourseOK, Course, Writing
        <3> QED BY <3>1, <3>2
    <2>3. Written(t)'
        BY <2>2 DEF Written, Writing
    <2> QED BY <2>1, <2>2, <2>3, WriteHwHw DEF HwOK
<1>4. CASE ClearCounters(t) /\ ~Stop(t, "error")
    <2>1. /\ UNCHANGED <<cmd, known, cache, marked, next, shown>>
          /\ hw' = [r \in Registers |-> IF SpaceOf[r] = "counters" THEN {} ELSE hw[r]]
          /\ Disturb(Tools \ {t})
        BY <1>4 DEF ClearCounters, readVars, argVars
    <2>2. undisturbed'[t] = undisturbed[t]
        BY <2>1 DEF Disturb
    <2>3. marked[t] = {} /\ shown[t] = {} /\ \A r \in known[t] : SpaceOf[r] \in {"router", "adapter"}
        BY <1>4 DEF ClearCounters, CourseOK, Course, Reading
    <2>4. \A r \in undisturbed[t] : hw'[r] = hw[r]
        BY <2>1, <2>3 DEF TypeOK
    <2>5. /\ \A r : Naming(t, r)' = Naming(t, r)
          /\ \A i : Stands(t, i)' <=> Stands(t, i)
        BY <2>1, NamingFrame
    <2>6. Kept(t)'
        BY <2>1, <2>2, <2>4, <2>5 DEF HwOK, Kept
    <2>7. Entered(t)' /\ ShownOK(t)' /\ Written(t)'
        BY <2>1, <2>3, <2>5 DEF HwOK, Entered, ShownOK, Written
    <2> QED BY <2>6, <2>7 DEF HwOK
<1> QED BY <1>1, <1>2, <1>3, <1>4 DEF Write, Retry

LEMMA ReadStepHw ==
    ASSUME TypeOK, TypeOK', CourseOK, NEW t \in Tools, HwOK(t), Start(t) \/ Read(t)
    PROVE  HwOK(t)'
<1>1. CASE Start(t)
    <2>1. undisturbed[t] = {} /\ marked[t] = {} /\ shown[t] = {} /\ known[t] = {}
        BY <1>1 DEF Start, CourseOK, Course, Reading, TypeOK
    <2>2. UNCHANGED <<undisturbed, known, marked, shown>>
        BY <1>1 DEF Start, readVars, argVars
    <2> QED BY <2>1, <2>2 DEF HwOK, Kept, Entered, ShownOK, Written
<1>2. ASSUME NEW p, Stop(t, p), p \notin Writing, p = "ok" => cmd[t].prog # "set"
      PROVE  HwOK(t)'
    <2>1. UNCHANGED <<hw, cmd, known, cache, marked, next, undisturbed, shown>> /\ pc'[t] = p
        BY <1>2 DEF Stop, Goto, TypeOK, routerVars, readVars, argVars
    <2>2. ShownOK(t)'
        BY <2>1 DEF HwOK, ShownOK
    <2> QED BY <1>2, <2>1, <2>2, QuietHw
<1>3. ASSUME NEW space, NEW regs, ReadFile(t, space, regs), NEW p, Goto(t, p), p # "idle",
             pc[t] \in Reading \ {"idle"}
      PROVE  HwOK(t)'
    <2>1. pc'[t] # "idle"
        BY <1>3 DEF Goto, TypeOK
    <2> QED BY <1>3, <2>1, ReadFileHw
<1>4. CASE FindDevice(t)
    BY <1>2, <1>4 DEF FindDevice, Writing
<1>5. CASE ReadRouter(t)
    BY <1>2, <1>3, <1>5 DEF ReadRouter, Writing, Reading
<1>6. CASE ReadAdapters(t)
    <2>1. pc[t] = "adapters"
        BY <1>6 DEF ReadAdapters
    <2>2. /\ FromAdapters(cmd[t]) \in {"rom", "error", "ok", "args", "space"}
          /\ FromAdapters(cmd[t]) = "ok" => cmd[t].prog # "set"
        BY <2>1, FromAdaptersType
    <2>3. CASE \E p \in {"error", "panic", FromAdapters(cmd[t])} : Stop(t, p)
        BY <1>2, <2>2, <2>3 DEF Writing
    <2>4. CASE \E regs : ReadFile(t, "adapter", regs) /\ Goto(t, FromAdapters(cmd[t]))
        BY <1>3, <2>1, <2>2, <2>4 DEF Reading
    <2> QED BY <1>6, <2>3, <2>4 DEF ReadAdapters
<1>7. CASE ReadSpace(t)
    BY <1>2, <1>3, <1>7 DEF ReadSpace, Writing, Reading
<1> QED BY <1>1, <1>4, <1>5, <1>6, <1>7 DEF Read

LEMMA OtherStepHw ==
    ASSUME TypeOK, TypeOK', CourseOK, NEW t \in Tools, HwOK(t),
           Work(t) \/ ReadDrom(t) \/ NextEntry(t)
    PROVE  HwOK(t)'
<1>1. CASE FinishArguments(t)
    <2>1. /\ UNCHANGED <<hw, cmd, known, cache, marked, next, undisturbed, shown>>
          /\ pc'[t] = "ok" => cmd[t].prog # "set"
          /\ pc'[t] \in Writing => file'[t] # "path"
        BY <1>1 DEF FinishArguments, FirstFile, Goto, TypeOK, Writing, routerVars, readVars, argVars
    <2>2. ShownOK(t)'
        BY <2>1 DEF HwOK, ShownOK
    <2> QED BY <2>1, <2>2, QuietHw
<1>2. CASE ReadDrom(t) \/ NextEntry(t)
    <2>1. UNCHANGED <<hw, cmd, known, cache, marked, next, undisturbed, shown>>
        BY <1>2 DEF ReadDrom, NextEntry, Stop, RomStep, routerVars, readVars, argVars
    <2>2. pc[t] \in {"rom", "entries"} /\ pc'[t] \notin Writing
        BY <1>2 DEF ReadDrom, NextEntry, Stop, Goto, TypeOK, Writing
    <2>3. cmd[t].prog # "set"
        BY <2>2, CommandTypes DEF CourseOK, Course, Sensible
    <2>4. ShownOK(t)'
        BY <2>1 DEF HwOK, ShownOK
    <2> QED BY <2>1, <2>2, <2>3, <2>4, QuietHw
<1> QED BY <1>1, <1>2, GetHw, SetHw, DumpHw DEF Work

LEMMA HwStep ==
    TypeOK /\ CourseOK /\ (\A t \in Tools : HwOK(t)) /\ [Next]_vars => (\A t \in Tools : HwOK(t))'
<1> SUFFICES ASSUME TypeOK, CourseOK, \A t \in Tools : HwOK(t), [Next]_vars, NEW u \in Tools
             PROVE  HwOK(u)'
    OBVIOUS
<1>1. TypeOK'
    BY TypeStep
<1>2. CASE UNCHANGED vars
    <2>1. Same(u)
        BY <1>2 DEF Same, vars, routerVars, toolVars, readVars, argVars, romVars
    <2> QED BY <1>1, <2>1, SameHw
<1>3. CASE HardwareChanges \/ Unplug \/ Plug
    BY <1>1, <1>3, RouterSame, SameHw
<1>4. ASSUME NEW t \in Tools, Start(t) \/ Step(t)
      PROVE  HwOK(u)'
    <2>1. CASE u = t
        BY <1>1, <1>4, <2>1, ReadStepHw, OtherStepHw, WriteStepHw DEF Step
    <2>2. CASE u # t
        BY <1>1, <1>4, <2>2, ToolSame, SameHw
    <2> QED BY <2>1, <2>2
<1> QED BY <1>2, <1>3, <1>4 DEF Next

LEMMA RegistersInvariant == Spec => [](TypeOK /\ CourseOK /\ \A t \in Tools : HwOK(t))
<1>1. Init => TypeOK /\ CourseOK /\ \A t \in Tools : HwOK(t)
    BY TypeInit, CourseInit, HwInit
<1>2. TypeOK /\ CourseOK /\ (\A t \in Tools : HwOK(t)) /\ [Next]_vars
      => (TypeOK /\ CourseOK /\ \A t \in Tools : HwOK(t))'
    BY TypeStep, CourseStep, HwStep
<1> QED BY <1>1, <1>2, PTL DEF Spec

\* A tbset that ended well has entered what it was told, and what tbget and
\* tbdump have printed is what the router holds, where nobody else changed it.
THEOREM ToldTheTruth == Spec => []HardwareAsTold
<1>1. TypeOK /\ (\A t \in Tools : HwOK(t)) => HardwareAsTold
    <2> SUFFICES ASSUME TypeOK, NEW t \in Tools, HwOK(t)
                 PROVE  /\ pc[t] = "ok" /\ cmd[t].prog = "set" =>
                             \A r \in undisturbed[t] : \A i \in Naming(t, r) :
                                 Stands(t, i) =>
                                     LET a == cmd[t].args[i] IN
                                     FieldValue(hw[r], FieldOf(a)) = Truncated(a.bits, FieldOf(a))
                        /\ \A s \in shown[t] :
                             s.reg \in undisturbed[t] => FieldValue(hw[s.reg], s.field) = s.bits
        BY DEF HardwareAsTold
    <2>1. ASSUME pc[t] = "ok", cmd[t].prog = "set", NEW r \in undisturbed[t]
          PROVE  hw[r] = cache[t][r] /\ r \in known[t]
        BY <2>1 DEF HwOK, Kept, Written, TypeOK
    <2>2. \A s \in shown[t] : s.reg \in undisturbed[t] => FieldValue(hw[s.reg], s.field) = s.bits
        BY DEF HwOK, ShownOK
    <2> QED BY <2>1, <2>2 DEF HwOK, Entered
<1> QED BY <1>1, RegistersInvariant, PTL

\* Bits that nobody asked tbset to change stay as they are when it writes the
\* files of the router, of an adapter and of its paths, one after the other, a
\* write that fails and its second attempt included.
THEOREM OthersUntouched == Spec => OthersKept
<1>1. TypeOK /\ CourseOK /\ (\A t \in Tools : HwOK(t)) /\ [Next]_vars =>
        (\A t \in Tools : \A r \in undisturbed[t] :
            pc[t] \in Writing /\ <<pc[t], file[t]>>' # <<pc[t], file[t]>> =>
                /\ hw[r] \ hw'[r] \subseteq NamedBits(t, r)
                /\ hw'[r] \ hw[r] \subseteq TouchedBits(t, r))
    <2> SUFFICES ASSUME TypeOK, CourseOK, NEW t \in Tools, HwOK(t), [Next]_vars,
                        NEW r \in undisturbed[t], pc[t] \in Writing,
                        pc'[t] # pc[t] \/ file'[t] # file[t]
                 PROVE  /\ hw[r] \ hw'[r] \subseteq NamedBits(t, r)
                        /\ hw'[r] \ hw[r] \subseteq TouchedBits(t, r)
        OBVIOUS
    <2>1. Start(t) \/ Step(t)
        <3>1. ~(UNCHANGED vars) /\ ~HardwareChanges /\ ~Unplug /\ ~Plug
            BY DEF vars, toolVars, HardwareChanges, Unplug, Plug
        <3>2. PICK u \in Tools : Start(u) \/ Step(u)
            BY <3>1 DEF Next
        <3>3. u = t
            BY <3>2, ToolSame DEF Same
        <3> QED BY <3>2, <3>3
    <2>2. Write(t)
        BY <2>1 DEF Writing, Start, Step, Read, Work, FindDevice, ReadRouter, ReadAdapters, ReadSpace,
                    GetArgument, SetArgument, AtArgument, DumpRegisters, FinishArguments,
                    ReadDrom, NextEntry
    <2>3. hw'[r] = hw[r] \/ hw'[r] = cache[t][r]
        <3>1. UNCHANGED hw \/ \E regs : WriteHw(t, regs)
            BY <2>2 DEF Writing, Write, WriteChanged, Retry, ClearCounters, Stop, routerVars
        <3> QED BY <3>1 DEF WriteHw, TypeOK
    <2>4. /\ \A b \in hw[r] \ cache[t][r] : b \in NamedBits(t, r)
          /\ \A b \in cache[t][r] \ hw[r] : b \in TouchedBits(t, r)
        BY DEF HwOK, Kept, NamedBits, TouchedBits
    <2> QED BY <2>3, <2>4
<1> QED BY <1>1, RegistersInvariant, PTL DEF Spec, OthersKept
=============================================================================
