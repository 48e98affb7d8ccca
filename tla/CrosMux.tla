------------------------------ MODULE CrosMux ------------------------------
(***************************************************************************)
(* tbpd putting a Type-C port into another mode through the embedded       *)
(* controller of a Chromebook.                                             *)
(*                                                                         *)
(* A mode change is a sequence of commands: the mux of the port goes to    *)
(* safe mode, the mode is entered (or all modes are exited), the mux is    *)
(* set for the mode. Any command may fail, with or without effect, and the *)
(* tool may be killed between two of them; it is then simply run again.    *)
(* The controller may also refuse a command: the ioctl succeeds and        *)
(* reports it in a field of the command that is not looked at.             *)
(***************************************************************************)
EXTENDS Naturals

CONSTANT
    Adapters  \* adapters of the host router the tool is run for

ASSUME AdaptersAssumption == Adapters \subseteq Nat

AltModes == {"Usb", "Usb4", "DisplayPort", "Thunderbolt"}
Targets  == AltModes \union {"Safe"}
Flags    == {"usb", "dp", "safe", "tbt", "usb4"}

\* The lane 0 adapters of the host router that belong to a Type-C port.
AddressToPort == [a \in {1, 3} |-> IF a = 1 THEN 0 ELSE 1]

Ports == {AddressToPort[a] : a \in DOMAIN AddressToPort}

\* The flags are looked at in this order; DisplayPort may go with USB.
FlagsToAltmode(flags) ==
    CASE "dp" \in flags -> "DisplayPort"
      [] "dp" \notin flags /\ "safe" \in flags -> "Safe"
      [] flags \intersect {"dp", "safe"} = {} /\ "tbt" \in flags -> "Thunderbolt"
      [] flags \intersect {"dp", "safe", "tbt"} = {} /\ "usb4" \in flags -> "Usb4"
      [] OTHER -> "Usb"

AltmodeToFlags ==
    [Safe |-> {"safe"}, Usb |-> {"usb"}, Usb4 |-> {"usb4"},
     DisplayPort |-> {"dp"}, Thunderbolt |-> {"tbt"}]

\* What the controller sets up on its own when a partner is connected.
Negotiated(mode) ==
    IF mode = "DisplayPort" THEN {{"dp"}, {"dp", "usb"}} ELSE {AltmodeToFlags[mode]}

VARIABLES
    mux,    \* the mux flags of each port
    mode,   \* the mode the partner of each port is in
    pc,     \* the command the tool sends next, or "idle"
    port,   \* the port it was run for
    target, \* the mode it was asked for
    result, \* how it has ended
    refused \* the ports a command was refused for since a partner was connected

vars == <<mux, mode, pc, port, target, result, refused>>

SetMux(flags) == mux' = [mux EXCEPT ![port] = flags]

(***************************************************************************)
(* A command to the controller: done, the ioctl failed, which ends the     *)
(* tool, or refused, which goes unnoticed.                                 *)
(***************************************************************************)
Command(effect, nothing, next) ==
    \/ effect /\ next /\ UNCHANGED refused
    \/ /\ effect \/ nothing
       /\ pc' = "idle" /\ result' = "error" /\ UNCHANGED refused
    \/ nothing /\ next /\ refused' = refused \union {port}

Continue(step) == pc' = step /\ UNCHANGED result
Return == pc' = "idle" /\ result' = "ok"

-----------------------------------------------------------------------------
\* Mutant: the mode is entered without safe mode.
EnterModeAtOnce(a, m) ==
    /\ pc = "idle" /\ a \in DOMAIN AddressToPort
    /\ port' = AddressToPort[a] /\ target' = m
    /\ IF FlagsToAltmode(mux[port']) = m THEN Return ELSE pc' = "mode" /\ result' = "none"
    /\ UNCHANGED <<mux, mode, refused>>

\* tbpd -m: enter_mode(), as far as the mode the port is in.
EnterMode(a, m) ==
    /\ pc = "idle"
    /\ \/ /\ a \in DOMAIN AddressToPort
          /\ port' = AddressToPort[a] /\ target' = m
          /\ IF FlagsToAltmode(mux[port']) = m
             THEN Return ELSE pc' = "safe" /\ result' = "none"
       \* No port of that address, or its mux information was not read.
       \/ /\ target' = m
          /\ result' = "error" /\ UNCHANGED <<pc, port>>
    /\ UNCHANGED <<mux, mode, refused>>

\* Mutant: safe mode is not the end when it is what was asked for.
SetSafeGoesOn ==
    /\ pc = "safe"
    /\ Command(SetMux({"safe"}), UNCHANGED mux, Continue("mode"))
    /\ UNCHANGED <<mode, port, target>>

SetSafe ==
    /\ pc = "safe"
    /\ Command(SetMux({"safe"}), UNCHANGED mux,
               IF target = "Safe" THEN Return ELSE Continue("mode"))
    /\ UNCHANGED <<mode, port, target>>

\* Mutant: the mode is not entered when the mux is set.
EnterOrExitSkipped ==
    /\ pc = "mode"
    /\ pc' = "mux"
    /\ UNCHANGED <<mux, mode, port, target, result, refused>>

\* exit_modes() for native USB, enter_mode() for the others.
EnterOrExit ==
    /\ pc = "mode"
    /\ Command(mode' = [mode EXCEPT ![port] = target], UNCHANGED mode, Continue("mux"))
    /\ UNCHANGED <<mux, port, target>>

SetMode ==
    /\ pc = "mux"
    /\ Command(SetMux(AltmodeToFlags[target]), UNCHANGED mux, Return)
    /\ UNCHANGED <<mode, port, target>>

\* The tool is killed.
Kill ==
    /\ pc # "idle"
    /\ pc' = "idle"
    /\ UNCHANGED <<mux, mode, port, target, result, refused>>

\* A partner is connected while the tool is not running.
Connect(p, m) ==
    /\ pc = "idle"
    /\ mode' = [mode EXCEPT ![p] = m]
    /\ \E flags \in Negotiated(m) : mux' = [mux EXCEPT ![p] = flags]
    /\ result' = "none"
    /\ refused' = refused \ {p}
    /\ UNCHANGED <<pc, port, target>>

-----------------------------------------------------------------------------
Init ==
    /\ mode = [p \in Ports |-> "Usb"]
    /\ mux = [p \in Ports |-> {"usb"}]
    /\ pc = "idle" /\ result = "none"
    /\ port \in Ports /\ target \in Targets
    /\ refused = {}

Tool == SetSafe \/ EnterOrExit \/ SetMode

Next ==
    \/ \E a \in Adapters, m \in Targets : EnterMode(a, m)
    \/ Tool \/ Kill
    \/ \E p \in Ports, m \in AltModes : Connect(p, m)

Spec == Init /\ [][Next]_vars

-----------------------------------------------------------------------------
(***************************************************************************)
(* Properties.                                                             *)
(***************************************************************************)
\* Every variable has its type.
TypeOK ==
    /\ mux \in [Ports -> SUBSET Flags]
    /\ mode \in [Ports -> AltModes]
    /\ pc \in {"idle", "safe", "mode", "mux"}
    /\ port \in Ports /\ target \in Targets
    /\ result \in {"none", "ok", "error"}
    /\ refused \subseteq Ports

\* The mux is in safe mode while the tool changes the mode of the partner:
\* enter_mode() puts it there first. Nobody notices when that was refused.
SafeWhileChanging ==
    [][ pc # "idle" =>
          \A p \in Ports \ refused : mode'[p] # mode[p] => mux[p] = {"safe"} ]_vars

\* The mux is never set for a mode the partner is not in: after any sequence of
\* failed, killed and repeated changes it is in safe mode or fits.
MuxFitsMode ==
    \A p \in Ports \ refused : FlagsToAltmode(mux[p]) \in {"Safe", mode[p]}

\* When tbpd reports the mode as entered, mux and partner are in it, also when
\* it found nothing to do.
ReportedIsEntered ==
    result = "ok" /\ port \notin refused =>
        /\ FlagsToAltmode(mux[port]) = target
        /\ target # "Safe" => mode[port] = target
=============================================================================
