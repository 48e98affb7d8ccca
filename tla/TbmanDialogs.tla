---------------------------- MODULE TbmanDialogs ----------------------------
(***************************************************************************)
(* The dialogs of tbman while routers come and go.                         *)
(*                                                                         *)
(* The screen is a stack of layers: the main view with the device list at  *)
(* the bottom, and on top of it dialogs that were opened for the selected  *)
(* router, dialogs opened from those, help and messages. Keys go to the    *)
(* topmost layer; callbacks of the monitor thread change the list whatever *)
(* is on top of it, and close dialogs of routers that are gone. A dialog   *)
(* does not keep the router it was opened for: whatever it does next, it   *)
(* does to the router that is selected then.                               *)
(*                                                                         *)
(* A read that fails with an error becomes a message. A read that works    *)
(* but leaves registers out, as the kernel does with those it cannot       *)
(* access, panics: the code unwraps or indexes what it expects. That is    *)
(* what may happen to a router in Flawed, and to one that has been         *)
(* unplugged while it is still in the list.                                *)
(*                                                                         *)
(* The list itself is TbmanDevices; here it is the set of routers listed   *)
(* and the one selected, and a router listed is not announced again.       *)
(***************************************************************************)
EXTENDS Integers, FiniteSetsExt, SequencesExt

CONSTANTS
    Routers,   \* the routers, by rank in the list
    Changing,  \* those whose attributes may change while they are connected
    Flawed,    \* those that, or whose parent, the kernel does not report in
               \* full: registers, paths or DROM are not as the code expects
    MaxLayers  \* bound on the layers that pile up, messages not counted

ASSUME RoutersAssumption == Routers \subseteq Nat /\ IsFiniteSet(Routers)
ASSUME ChangingAssumption == Changing \subseteq Routers
ASSUME FlawedAssumption == Flawed \subseteq Routers
ASSUME BoundsAssumption == MaxLayers \in Nat

None == -1

DeviceDialogs == {"adapters", "paths", "registers", "tmu", "drom"}
LogDialogs    == {"trace", "events"}
Kinds == {"main", "no_devices", "detail", "prompt", "help", "info"}
             \union DeviceDialogs \union LogDialogs

VARIABLES
    listed,     \* the routers in the list
    selected,   \* the router that is selected, or None
    known,      \* the listed routers whose adapters have been read
    gone,       \* the listed routers that have been unplugged
    layers,     \* the layers, bottom first: their kind and the router they show
    startup,    \* the monitor thread found no router and has yet to say so
    adding,     \* the routers refresh_devices() has queued
    failures,   \* the messages of failed reads that wait to be shown
    status,     \* "running", "quit" or "panic"
    calm        \* the routers have kept to Calm so far

listVars == <<listed, selected, known>>
queueVars == <<startup, adding, failures>>
vars == <<listVars, layers, queueVars, status, gone, calm>>

Top == Last(layers).kind

IsOpen(kinds) == \E i \in DOMAIN layers : layers[i].kind \in kinds

Running(kinds) == status = "running" /\ Top \in kinds

\* add_layer(): what the user opens is bounded by MaxLayers.
Opened(kind) == Append(layers, [kind |-> kind, of |-> selected])

Open(kind) == Len(layers) < MaxLayers /\ layers' = Opened(kind)

\* A message goes on top at once, whatever is there.
Message == layers' = Append(layers, [kind |-> "info", of |-> None])

\* sink.send(): the message becomes a callback.
QueueFailure == Len(layers) + failures < MaxLayers /\ failures' = failures + 1

Panic == status' = "panic" /\ UNCHANGED <<listVars, layers, queueVars>>

\* Reading a router whose registers are not all there: regs[0] of the router or
\* regs[2] of an adapter, the number of its adapters or of the upstream one, the
\* adapter a path leads to, a register of the TMU. Whether they were read before
\* and are still in the Device is left out.
ReadPanics(r) == r \in Flawed \union gone /\ Panic

-----------------------------------------------------------------------------
(***************************************************************************)
(* Closing dialogs from the program: when the dialog is anywhere on the    *)
(* stack, the topmost layer is removed.                                    *)
(***************************************************************************)
\* Mutant: close_dialog() does not look for the dialog.
CloseDialogAlways(kinds, stack) == Front(stack)

CloseDialog(kinds, stack) ==
    IF \E i \in DOMAIN stack : stack[i].kind \in kinds THEN Front(stack) ELSE stack

CloseAnyDialog(stack) == CloseDialog(DeviceDialogs \union {"no_devices"}, stack)

(***************************************************************************)
(* What the callbacks do to the list.                                      *)
(***************************************************************************)
\* cursive selects the item before the one that is removed, or the first.
Neighbour(r) ==
    LET others == listed \ {r}
        before == {s \in others : s < r}
    IN  CASE before # {} -> Max(before)
          [] before = {} /\ others # {} -> Min(others)
          [] OTHER -> None

AddDevice(r) ==
    /\ listed' = listed \union {r}
    /\ selected' = IF selected = None THEN r ELSE selected
    /\ known' = known \ {r}
    /\ layers' = CloseDialog({"no_devices"}, layers)

\* Mutant: remove_device() looks at the selection after the removal.
RemoveDeviceLate(r) ==
    /\ listed' = listed \ {r}
    /\ selected' = IF selected = r THEN Neighbour(r) ELSE selected
    /\ known' = known \ {r}
    /\ layers' = IF listed \ {r} = {} THEN CloseAnyDialog(layers) ELSE layers

RemoveDevice(r) ==
    /\ listed' = listed \ {r}
    /\ selected' = IF selected = r THEN Neighbour(r) ELSE selected
    /\ known' = known \ {r}
    /\ LET rest == IF selected = r THEN CloseAnyDialog(layers) ELSE layers
       IN  layers' = IF listed \ {r} = {} THEN CloseAnyDialog(rest) ELSE rest

\* update_adapter_view() and update_path_view(), when their dialog is open:
\* read_adapters() of the selected router, and a message when it fails.
UpdateViews(kinds, has) ==
    \/ IsOpen(kinds) /\ ReadPanics(selected)
    \/ /\ \/ /\ IsOpen(kinds) /\ selected # None
             /\ known' = has \union {selected}
             /\ UNCHANGED failures
          \/ /\ IsOpen(kinds) /\ selected # None
             /\ QueueFailure
             /\ known' = has
          \/ /\ ~IsOpen(kinds) \/ selected = None
             /\ known' = has
             /\ UNCHANGED failures
       /\ UNCHANGED <<listed, selected, layers, startup, adding, status>>

\* update_device_list() replaces the Device, and what has been read is gone.
\* r is None for the change of a domain.
Change(r) == UpdateViews({"adapters", "paths"}, known \ {r})

-----------------------------------------------------------------------------
(***************************************************************************)
(* Callbacks. The one of the monitor thread that no router was found comes *)
(* before its events.                                                      *)
(***************************************************************************)
ShowNoDevices ==
    /\ status = "running" /\ startup
    /\ startup' = FALSE
    /\ layers' = Append(layers, [kind |-> "no_devices", of |-> None])
    /\ UNCHANGED <<listVars, adding, failures, status>>

HandleAdd(r) ==
    /\ status = "running" /\ ~startup /\ r \notin listed
    /\ AddDevice(r)
    /\ UNCHANGED <<queueVars, status>>

HandleRemove(r) ==
    /\ status = "running" /\ ~startup
    /\ RemoveDevice(r)
    /\ UNCHANGED <<queueVars, status>>

HandleChange(r) ==
    /\ status = "running" /\ ~startup
    /\ Change(r)

\* An add_device() that refresh_devices() has queued.
RefreshAdd(r) ==
    /\ status = "running" /\ r \in adding
    /\ adding' = adding \ {r}
    /\ \/ r \notin listed /\ AddDevice(r)
       \* A second item for the router, behind the one that is there.
       \/ /\ r \in listed /\ UNCHANGED listVars
          /\ layers' = CloseDialog({"no_devices"}, layers)
    /\ UNCHANGED <<startup, failures, status>>

ShowFailure ==
    /\ status = "running" /\ failures > 0
    /\ failures' = failures - 1
    /\ Message
    /\ UNCHANGED <<listVars, startup, adding, status>>

-----------------------------------------------------------------------------
(***************************************************************************)
(* Keys of the main view.                                                  *)
(***************************************************************************)
Move(r) ==
    /\ Running({"main"})
    /\ r \in listed /\ r # selected
    /\ selected' = r
    /\ UNCHANGED <<listed, known, layers, queueVars, status>>

\* authorize_device(): a message when it fails; when it works, the list learns
\* so from the event. Its domain, that of a router unplugged, may not be found.
AuthorizeDevice ==
    /\ Running({"main"}) /\ selected # None
    /\ \/ Message /\ UNCHANGED <<listVars, queueVars, status>>
       \/ selected \in gone /\ Panic

\* enable_trace() changes the title, or shows a message.
EnableTrace ==
    /\ Running({"main"})
    /\ Message
    /\ UNCHANGED <<listVars, queueVars, status>>

\* refresh_devices(), of which an error of find_devices(), unwrapped, is left out.
RefreshDevices ==
    /\ Running({"main"})
    /\ listed' = {} /\ selected' = None /\ known' = {}
    /\ \E found \in SUBSET Routers : adding' = found
    /\ UNCHANGED <<layers, startup, failures, status>>

\* build_adapters() and build_paths() open the dialog and fill it.
BuildAdaptersOrPaths ==
    /\ Running({"main"}) /\ listed # {}
    /\ \/ /\ \E kind \in {"adapters", "paths"} : Open(kind)
          /\ \/ known' = known \union {selected} /\ UNCHANGED failures
             \/ QueueFailure /\ UNCHANGED known
          /\ UNCHANGED <<listed, selected, startup, adding, status>>
       \/ ReadPanics(selected)

\* Mutant: build_registers() opens the dialog without reading the adapters.
BuildRegistersUnread ==
    /\ Running({"main"}) /\ listed # {}
    /\ \E kind \in {"registers", "drom"} : Open(kind)
    /\ UNCHANGED <<listVars, queueVars, status>>

\* build_registers() and build_drom() read first and open when that worked.
BuildRegistersOrDrom ==
    /\ Running({"main"}) /\ listed # {}
    /\ \/ /\ \/ /\ \E kind \in {"registers", "drom"} : Open(kind)
                /\ known' = known \union {selected}
             \/ Message /\ UNCHANGED known
             \* The adapters were read, the DROM was not.
             \/ Message /\ known' = known \union {selected}
          /\ UNCHANGED <<listed, selected, queueVars, status>>
       \/ ReadPanics(selected)

\* build_tmu() opens the dialog and reads; the message is on top of it.
BuildTmu ==
    /\ Running({"main"}) /\ listed # {}
    /\ \/ /\ Len(layers) < MaxLayers
          /\ \/ layers' = Opened("tmu") /\ known' = known \union {selected}
             \/ /\ layers' = Append(Opened("tmu"), [kind |-> "info", of |-> None])
                /\ known' \in {known, known \union {selected}}
          /\ UNCHANGED <<listed, selected, queueVars, status>>
       \/ ReadPanics(selected)

\* build_trace() and build_events() need no router.
BuildLog ==
    /\ Running({"main"})
    /\ \/ \E kind \in LogDialogs : Open(kind)
       \/ Message
    /\ UNCHANGED <<listVars, queueVars, status>>

Quit ==
    \* q and Esc reach the global callback when the layer does not take them.
    /\ Running({"main", "no_devices", "info"})
    /\ status' = "quit"
    /\ UNCHANGED <<listVars, layers, queueVars>>

-----------------------------------------------------------------------------
(***************************************************************************)
(* Keys of the dialogs.                                                    *)
(***************************************************************************)
\* Every dialog can be closed; the named ones close_dialog() themselves.
Close ==
    /\ Running(Kinds \ {"main"})
    /\ layers' = Front(layers)
    /\ UNCHANGED <<listVars, queueVars, status>>

\* F1 opens the help of the layer, or the one of the main view.
Help ==
    /\ Running(Kinds)
    /\ Open("help")
    /\ UNCHANGED <<listVars, queueVars, status>>

\* Enter shows an item of the dialog. view_packet() may read the adapters of
\* any router. view_path() looks up the adapters of the path in the selected
\* router, which has other ones when the path is of another router.
ViewDetail ==
    /\ Running({"paths", "registers", "drom"} \union LogDialogs)
    /\ Top = "paths" => selected # None
    /\ \/ /\ Open("detail")
          /\ \/ UNCHANGED known
             \/ /\ Top = "trace"
                /\ \E r \in listed : known' = known \union {r}
          /\ UNCHANGED <<listed, selected, queueVars, status>>
       \/ Top = "trace" /\ \E r \in listed : ReadPanics(r)
       \/ Top = "paths" /\ Last(layers).of # selected /\ selected \in known /\ Panic

\* search_registers(), jump_trace() and the popup of a choice.
Prompt ==
    /\ Running({"registers", "trace"})
    /\ Open("prompt")
    /\ UNCHANGED <<listVars, queueVars, status>>

\* F5 in the adapters and the paths dialog.
UpdateView ==
    /\ Running({"adapters", "paths"})
    /\ UpdateViews({Top}, known)

\* F5 in the TMU dialog, which expects a selected router.
ReadTmu ==
    /\ Running({"tmu"})
    /\ \/ selected = None /\ Panic
       \/ ReadPanics(selected)
       \/ /\ selected # None
          /\ \/ known' = known \union {selected} /\ UNCHANGED layers
             \/ known' \in {known, known \union {selected}} /\ Message
          /\ UNCHANGED <<listed, selected, queueVars, status>>

\* selected_adapter(): the adapter chosen in the dialog is one of the selected
\* router, whose adapters have been read; another router may not have it.
AdapterMissing(dialog) == selected \notin known \/ dialog.of # selected

\* F5, and the choice of a config space or an adapter. Of a router without any
\* valid adapter, none is chosen.
ReadSelectedRegisters ==
    /\ Running({"registers"})
    /\ selected # None
    /\ \/ AdapterMissing(Last(layers)) /\ Panic
       \/ ReadPanics(selected)
       \/ /\ selected \in known
          /\ UNCHANGED layers \/ Message
          /\ UNCHANGED <<listVars, queueVars, status>>

\* F7: write_changed() expects a selected router and, unless the router space
\* is chosen, its adapter; read_registers() follows when it worked.
WriteSelectedRegisters ==
    /\ Running({"registers"})
    /\ \/ selected = None /\ Panic
       \/ selected # None /\ AdapterMissing(Last(layers)) /\ Panic
       \/ ReadPanics(selected)
       \/ /\ selected # None
          /\ Message
          /\ UNCHANGED <<listVars, queueVars, status>>
       \/ /\ selected \in known
          /\ UNCHANGED <<listVars, layers, queueVars, status>>

\* "Update" in the detail of a register: update_register(), then the layer is
\* removed.
UpdateSelectedRegister ==
    /\ Running({"detail"})
    /\ layers[Len(layers) - 1].kind = "registers"
    /\ \/ selected = None /\ Panic
       \/ /\ selected # None
          /\ AdapterMissing(layers[Len(layers) - 1])
          /\ Panic
       \/ /\ selected # None
          /\ layers' = Front(layers)
          /\ UNCHANGED <<listVars, queueVars, status>>

-----------------------------------------------------------------------------
Init ==
    /\ listed = {} /\ selected = None /\ known = {}
    /\ layers = <<[kind |-> "main", of |-> None]>>
    /\ startup \in BOOLEAN
    /\ adding = {} /\ failures = 0
    /\ status = "running"
    /\ gone = {}
    /\ calm = TRUE

Callback ==
    \/ ShowNoDevices \/ ShowFailure
    \/ \E r \in Routers : HandleAdd(r) \/ HandleRemove(r) \/ RefreshAdd(r)
    \/ \E r \in Changing \union {None} : HandleChange(r)

Key ==
    \/ \E r \in Routers : Move(r)
    \/ AuthorizeDevice \/ EnableTrace \/ RefreshDevices
    \/ BuildAdaptersOrPaths \/ BuildRegistersOrDrom \/ BuildTmu \/ BuildLog \/ Quit
    \/ Close \/ Help \/ ViewDetail \/ Prompt \/ UpdateView \/ ReadTmu
    \/ ReadSelectedRegisters \/ WriteSelectedRegisters \/ UpdateSelectedRegister

\* Routers come and go only while no more than one layer is on top of the main
\* view and once the start is over, and the Device of none whose adapters have
\* been read is replaced.
Calm ==
    /\ listed' # listed => Len(layers) <= 2 /\ ~startup
    /\ listed' = listed => known \subseteq known'

\* A router is unplugged, and the list knows only once it gets the event.
Unplug(r) ==
    /\ status = "running"
    /\ r \in listed \ gone
    /\ gone' = gone \union {r}
    /\ UNCHANGED <<listVars, layers, queueVars, status>>

Next ==
    /\ \/ (Callback \/ Key) /\ gone' = gone \intersect listed'
       \/ \E r \in Routers : Unplug(r)
    /\ calm' = (calm /\ Calm)

Spec == Init /\ [][Next]_vars

-----------------------------------------------------------------------------
(***************************************************************************)
(* Properties.                                                             *)
(***************************************************************************)
\* Every variable has its type, and the main view is never closed, although the
\* handlers of the monitor's events remove the topmost layer without looking at
\* it, up to two of them at a time: every later key would be lost, and the next
\* event would find no list.
TypeOK ==
    /\ listed \subseteq Routers /\ known \subseteq listed /\ gone \subseteq listed
    /\ selected \in listed \union {None}
    /\ layers \in Seq([kind : Kinds, of : Routers \union {None}])
    /\ layers # <<>>
    /\ \A i \in DOMAIN layers : layers[i].kind = "main" <=> i = 1
    /\ startup \in BOOLEAN
    /\ adding \subseteq Routers
    /\ failures \in Nat
    /\ status \in {"running", "quit", "panic"} /\ calm \in BOOLEAN

\* A dialog that shows a router is closed when another one is selected: keys
\* that write to the hardware go to the router the dialog shows.
DialogFollowsSelection ==
    \A i \in DOMAIN layers :
        layers[i].kind \in DeviceDialogs => layers[i].of = selected

\* No key panics the program: what the handlers unwrap() is there.
NoPanic == status # "panic"

\* As long as no layer lies on top of them, dialogs go when what they show goes:
\* remove_device() closes those of its router, and "No Thunderbolt/USB4 devices
\* found" is not on the screen once there is one.
DialogFollowsCalmly ==
    calm => /\ DialogFollowsSelection
            /\ IsOpen({"no_devices"}) => listed = {}

\* Only routers that come, go or change below a dialog, and routers that do not
\* report all the registers the code expects, make the program panic: while all
\* that are listed are connected and report in full, no sequence of keys,
\* callbacks and reads that fail with an error does.
NoPanicCalmly == calm /\ listed \intersect (Flawed \union gone) = {} => NoPanic
=============================================================================
