--------------------------- MODULE CrosMux_proofs ---------------------------
(***************************************************************************)
(* Proofs about CrosMux, for any set of adapters the tool is run for.      *)
(*                                                                         *)
(* The mux fits the partner in every state because of what is known at     *)
(* each command of a mode change: the mux is in safe mode while the mode   *)
(* is entered, and the partner is in that mode when the mux is set for it. *)
(***************************************************************************)
EXTENDS CrosMux, TLAPS

\* What is known before the mode is entered and before the mux is set.
Underway ==
    /\ pc # "idle" => result = "none"
    /\ pc \in {"mode", "mux"} => target # "Safe"
    /\ pc = "mode" /\ port \notin refused => mux[port] = {"safe"}
    /\ pc = "mux" /\ port \notin refused => mux[port] = {"safe"} /\ mode[port] = target

Inv == TypeOK /\ Underway /\ MuxFitsMode /\ ReportedIsEntered

\* The flags the tool sets for a mode are read back as that mode.
LEMMA FlagsOfMode == \A m \in Targets : FlagsToAltmode(AltmodeToFlags[m]) = m
<1>1. FlagsToAltmode({"safe"}) = "Safe"
    BY DEF FlagsToAltmode
<1>2. FlagsToAltmode({"usb"}) = "Usb"
    BY DEF FlagsToAltmode
<1>3. FlagsToAltmode({"usb4"}) = "Usb4"
    BY DEF FlagsToAltmode
<1>4. FlagsToAltmode({"dp"}) = "DisplayPort"
    BY DEF FlagsToAltmode
<1>5. FlagsToAltmode({"tbt"}) = "Thunderbolt"
    BY DEF FlagsToAltmode
<1>. QED BY <1>1, <1>2, <1>3, <1>4, <1>5 DEF Targets, AltModes, AltmodeToFlags

\* So are the flags the controller sets up itself.
LEMMA FlagsNegotiated ==
    \A m \in AltModes : \A flags \in Negotiated(m) :
        flags \subseteq Flags /\ FlagsToAltmode(flags) = m
<1>1. FlagsToAltmode({"dp", "usb"}) = "DisplayPort"
    BY DEF FlagsToAltmode
<1>. QED BY <1>1, FlagsOfMode DEF Negotiated, AltModes, Targets, AltmodeToFlags, Flags

\* The flags of a mode are flags.
LEMMA FlagsAreFlags == AltmodeToFlags \in [Targets -> SUBSET Flags]
BY DEF AltmodeToFlags, Targets, AltModes, Flags

\* The safe mode the mux is put into is read back as such.
LEMMA SafeIsSafe == FlagsToAltmode({"safe"}) = "Safe" /\ {"safe"} \in SUBSET Flags
BY FlagsOfMode DEF Targets, AltmodeToFlags, Flags

LEMMA InvInit == Init => Inv
<1>. SUFFICES ASSUME Init PROVE Inv
    OBVIOUS
<1>1. TypeOK
    BY DEF Init, TypeOK, Flags, AltModes
<1>2. FlagsToAltmode({"usb"}) = "Usb"
    BY FlagsOfMode DEF Targets, AltModes, AltmodeToFlags
<1>. QED BY <1>1, <1>2 DEF Init, Inv, Underway, MuxFitsMode, ReportedIsEntered

LEMMA InvStep == Inv /\ [Next]_vars => Inv'
<1>. SUFFICES ASSUME Inv, [Next]_vars PROVE Inv'
    OBVIOUS
<1>. USE DEF Inv
<1>1. ASSUME NEW a \in Adapters, NEW m \in Targets, EnterMode(a, m)
      PROVE Inv'
    <2>1. CASE /\ a \in DOMAIN AddressToPort
               /\ port' = AddressToPort[a] /\ target' = m
               /\ IF FlagsToAltmode(mux[port']) = m
                  THEN Return ELSE pc' = "safe" /\ result' = "none"
        <3>1. port' \in Ports
            BY <2>1 DEF Ports
        <3>2. TypeOK'
            BY <1>1, <2>1, <3>1 DEF EnterMode, TypeOK, Return
        <3>. QED BY <1>1, <2>1, <3>1, <3>2
                 DEF EnterMode, TypeOK, Underway, MuxFitsMode, ReportedIsEntered, Return
    <2>2. CASE /\ target' = m
               /\ result' = "error" /\ UNCHANGED <<pc, port>>
        BY <1>1, <2>2 DEF EnterMode, TypeOK, Underway, MuxFitsMode, ReportedIsEntered
    <2>. QED BY <1>1, <2>1, <2>2 DEF EnterMode
<1>2. CASE SetSafe
    BY <1>2, SafeIsSafe
    DEF SetSafe, Command, SetMux, Return, Continue,
        TypeOK, Underway, MuxFitsMode, ReportedIsEntered
<1>3. CASE EnterOrExit
    <2>1. target \in AltModes
        BY <1>3 DEF EnterOrExit, TypeOK, Underway, Targets
    <2>. QED BY <1>3, <2>1, SafeIsSafe
             DEF EnterOrExit, Command, Continue,
                 TypeOK, Underway, MuxFitsMode, ReportedIsEntered
<1>4. CASE SetMode
    <2>1. /\ AltmodeToFlags[target] \in SUBSET Flags
          /\ FlagsToAltmode(AltmodeToFlags[target]) = target
        BY FlagsAreFlags, FlagsOfMode DEF TypeOK
    <2>. QED BY <1>4, <2>1, SafeIsSafe
             DEF SetMode, Command, SetMux, Return,
                 TypeOK, Underway, MuxFitsMode, ReportedIsEntered
<1>5. CASE Kill
    BY <1>5 DEF Kill, TypeOK, Underway, MuxFitsMode, ReportedIsEntered
<1>6. ASSUME NEW p \in Ports, NEW m \in AltModes, Connect(p, m)
      PROVE Inv'
    <2>1. PICK flags \in Negotiated(m) : mux' = [mux EXCEPT ![p] = flags]
        BY <1>6 DEF Connect
    <2>2. flags \in SUBSET Flags /\ FlagsToAltmode(flags) = m
        BY <2>1, FlagsNegotiated
    <2>. QED BY <1>6, <2>1, <2>2
             DEF Connect, TypeOK, Underway, MuxFitsMode, ReportedIsEntered
<1>7. CASE UNCHANGED vars
    BY <1>7 DEF vars, TypeOK, Underway, MuxFitsMode, ReportedIsEntered
<1>. QED BY <1>1, <1>2, <1>3, <1>4, <1>5, <1>6, <1>7 DEF Next, Tool

\* Every step that changes the mode of a partner finds the mux in safe mode.
LEMMA SafeStep ==
    Inv /\ [Next]_vars =>
        [ pc # "idle" =>
              \A p \in Ports \ refused : mode'[p] # mode[p] => mux[p] = {"safe"} ]_vars
<1>. SUFFICES ASSUME Inv, Next, pc # "idle",
                     NEW p \in Ports \ refused, mode'[p] # mode[p]
              PROVE mux[p] = {"safe"}
    OBVIOUS
<1>1. ~ UNCHANGED mode
    OBVIOUS
<1>2. EnterOrExit
    BY <1>1 DEF Next, Tool, EnterMode, SetSafe, SetMode, Kill, Connect
<1>3. mode' = [mode EXCEPT ![port] = target]
    BY <1>1, <1>2 DEF EnterOrExit, Command
<1>4. p = port
    BY <1>3 DEF Inv, TypeOK
<1>. QED BY <1>2, <1>4 DEF EnterOrExit, Inv, Underway

LEMMA Invariant == Spec => []Inv
BY InvInit, InvStep, PTL DEF Spec

\* Every variable keeps its type, whatever commands fail or are cut short.
THEOREM TypeCorrect == Spec => []TypeOK
<1>1. Inv => TypeOK
    BY DEF Inv
<1>. QED BY <1>1, Invariant, PTL

\* The mux set by set_mux_mode() is safe or fits the mode of the partner, also
\* after enter_mode() has failed or was killed between two commands.
THEOREM MuxAlwaysFits == Spec => []MuxFitsMode
<1>1. Inv => MuxFitsMode
    BY DEF Inv
<1>. QED BY <1>1, Invariant, PTL

\* The mode tbpd reports as entered is the mode of mux and partner.
THEOREM ReportIsTrue == Spec => []ReportedIsEntered
<1>1. Inv => ReportedIsEntered
    BY DEF Inv
<1>. QED BY <1>1, Invariant, PTL

\* enter_mode() changes the mode of a partner behind a mux in safe mode only.
THEOREM AlwaysSafeWhileChanging == Spec => SafeWhileChanging
BY SafeStep, Invariant, PTL DEF Spec, SafeWhileChanging
=============================================================================
