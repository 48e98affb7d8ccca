---------------------------- MODULE TbmanDevices ----------------------------
(***************************************************************************)
(* The live device list of tbman: how a router that is plugged, unplugged  *)
(* or (de-)authorized reaches the list on the screen.                      *)
(*                                                                         *)
(* Two threads of the program are modelled. The monitor thread opens the   *)
(* udev socket, enumerates the bus once, and then forwards every event of  *)
(* the socket. The UI thread executes the callbacks that are queued for    *)
(* it, one at a time, and the key presses of the user; F5 enumerates the   *)
(* bus again. They share nothing but the FIFO of callbacks ("cb_sink").    *)
(* The kernel, udevd and the cursive SelectView are the environment.       *)
(*                                                                         *)
(* A router is its rank in the (domain, route) order, the only fields that *)
(* the comparison of two Devices looks at.                                 *)
(***************************************************************************)
EXTENDS Integers, SequencesExt

CONSTANTS
    Routers,     \* the routers that may be connected, by rank
    MaxHotplug,  \* bound on plugs and unplugs
    MaxAuth,     \* bound on changes of the authorized attribute
    MaxRefresh,  \* bound on presses of F5
    PollMayFail  \* whether select() may fail, which ends the monitor thread

ASSUME RoutersAssumption == Routers \subseteq Int
ASSUME BoundsAssumption ==
    /\ MaxHotplug \in Nat /\ MaxAuth \in Nat /\ MaxRefresh \in Nat
    /\ PollMayFail \in BOOLEAN

VARIABLES
    present,   \* the routers sysfs shows
    auth,      \* their "authorized" attribute
    hotplugs,  \* plugs and unplugs so far
    auths,     \* changes of the attribute so far
    udevd,     \* uevents udevd has not broadcast yet
    socket,    \* uevents in the monitor socket
    monPC,     \* where the monitor thread is
    monEnum,   \* the enumeration of the monitor thread
    chan,      \* the callbacks queued for the UI thread
    uiPC,      \* "loop", or where the UI thread is in refresh_devices()
    uiEnum,    \* the enumeration of refresh_devices()
    refreshes, \* presses of F5 so far
    list,      \* the items of the SelectView
    focus,     \* its focused item, 1-based
    details,   \* the router the details pane describes
    quiet      \* whether the environment has been quiet all the time

busVars == <<present, auth, hotplugs, auths>>
monVars == <<monPC, monEnum>>
uiVars  == <<uiPC, uiEnum, refreshes>>
listVars == <<list, focus, details>>
progVars == <<busVars, udevd, socket, monVars, chan, uiVars, listVars>>
vars == <<progVars, quiet>>

\* A Device as far as the list is concerned, a uevent and a queued callback.
Device   == [dev : Routers, auth : BOOLEAN]
Uevent   == [op : {"add", "remove", "change"}, dev : Routers]
Callback == [op : {"add", "remove", "change"}, dev : Routers, auth : BOOLEAN]

NoDevice == [dev |-> "none"]
NoEnum   == [names |-> {}, devices |-> {}]

-----------------------------------------------------------------------------
(***************************************************************************)
(* The bus. Every change of it is a uevent; udevd runs the rules for the   *)
(* uevent and then broadcasts it to the sockets that are open by then.     *)
(***************************************************************************)
\* Mutant: the socket is opened once the devices have been enumerated.
ListeningAfterScan == monPC \in {"poll", "dead"}

Listening == monPC # "build"

Plug(r) ==
    /\ r \notin present
    /\ hotplugs < MaxHotplug
    /\ present' = present \union {r}
    /\ auth' = [auth EXCEPT ![r] = FALSE]
    /\ hotplugs' = hotplugs + 1
    /\ udevd' = Append(udevd, [op |-> "add", dev |-> r])
    /\ UNCHANGED <<auths, socket, monVars, chan, uiVars, listVars>>

Unplug(r) ==
    /\ r \in present
    /\ hotplugs < MaxHotplug
    /\ present' = present \ {r}
    /\ auth' = [auth EXCEPT ![r] = FALSE]
    /\ hotplugs' = hotplugs + 1
    /\ udevd' = Append(udevd, [op |-> "remove", dev |-> r])
    /\ UNCHANGED <<auths, socket, monVars, chan, uiVars, listVars>>

Authorize(r) ==
    /\ r \in present
    /\ auths < MaxAuth
    /\ auth' = [auth EXCEPT ![r] = ~@]
    /\ auths' = auths + 1
    /\ udevd' = Append(udevd, [op |-> "change", dev |-> r])
    /\ UNCHANGED <<present, hotplugs, socket, monVars, chan, uiVars, listVars>>

Broadcast ==
    /\ udevd # <<>>
    /\ udevd' = Tail(udevd)
    /\ socket' = IF Listening THEN Append(socket, Head(udevd)) ELSE socket
    /\ UNCHANGED <<busVars, monVars, chan, uiVars, listVars>>

-----------------------------------------------------------------------------
(***************************************************************************)
(* find_devices(None): the enumerator lists the names under the bus, then  *)
(* every name is opened and parsed, and skipped when it has gone; the      *)
(* result is sorted.                                                       *)
(***************************************************************************)
Parse(r) == [dev |-> r, auth |-> auth[r]]

Scan(enum) == [enum EXCEPT !.names = present]

ParseName(enum, r) ==
    [names   |-> enum.names \ {r},
     devices |-> IF r \in present THEN enum.devices \union {Parse(r)}
                                  ELSE enum.devices]

\* The next Device of the sorted result.
IsFirst(d, devices) == d \in devices /\ \A e \in devices : d.dev <= e.dev

Send(op, d) == chan' = Append(chan, [op |-> op, dev |-> d.dev, auth |-> d.auth])

-----------------------------------------------------------------------------
(***************************************************************************)
(* The monitor thread.                                                     *)
(***************************************************************************)

\* Builder::build() opens the socket: uevents are received from here on.
MonitorBuild ==
    /\ monPC = "build"
    /\ monPC' = "scan"
    /\ UNCHANGED <<busVars, udevd, socket, monEnum, chan, uiVars, listVars>>

MonitorScan ==
    /\ monPC = "scan"
    /\ monPC' = "parse"
    /\ monEnum' = Scan(monEnum)
    /\ UNCHANGED <<busVars, udevd, socket, chan, uiVars, listVars>>

MonitorParse ==
    /\ monPC = "parse"
    /\ \/ \E r \in monEnum.names : monEnum' = ParseName(monEnum, r) /\ monPC' = monPC
       \/ monEnum.names = {} /\ monPC' = "send" /\ monEnum' = monEnum
    /\ UNCHANGED <<busVars, udevd, socket, chan, uiVars, listVars>>

MonitorSend ==
    /\ monPC = "send"
    /\ \/ \E d \in monEnum.devices :
              /\ IsFirst(d, monEnum.devices)
              /\ Send("add", d)
              /\ monEnum' = [monEnum EXCEPT !.devices = @ \ {d}]
              /\ monPC' = monPC
       \/ /\ monEnum.devices = {}
          /\ monPC' = "poll"
          /\ UNCHANGED <<chan, monEnum>>
    /\ UNCHANGED <<busVars, udevd, socket, uiVars, listVars>>

\* Mutant: the loop over the events leaves the last one in the socket.
MonitorEventLate ==
    /\ monPC = "poll"
    /\ Len(socket) > 1
    /\ socket' = Tail(socket)
    /\ Send(Head(socket).op, Parse(Head(socket).dev))
    /\ UNCHANGED <<busVars, udevd, monVars, uiVars, listVars>>

\* poll() blocks until the socket is readable. One iteration of the loop over
\* the events: the attributes of the Device are read from sysfs now.
MonitorEvent ==
    /\ monPC = "poll"
    /\ socket # <<>>
    /\ socket' = Tail(socket)
    /\ Send(Head(socket).op, Parse(Head(socket).dev))
    /\ UNCHANGED <<busVars, udevd, monVars, uiVars, listVars>>

\* An error of select(), a signal say, ends the loop and with it the thread.
MonitorFails ==
    /\ PollMayFail
    /\ monPC = "poll"
    /\ monPC' = "dead"
    /\ UNCHANGED <<busVars, udevd, socket, monEnum, chan, uiVars, listVars>>

-----------------------------------------------------------------------------
(***************************************************************************)
(* The SelectView of cursive.                                              *)
(***************************************************************************)
Listed == {d.dev : d \in ToSet(list)}

\* The router that is selected.
Selected == IF list = <<>> THEN NoDevice.dev ELSE list[focus].dev

\* position(): i is the first item that equals r.
IsPosition(items, i, r) ==
    /\ items[i].dev = r
    /\ \A j \in 1..(i - 1) : items[j].dev # r

\* Mutant: add_item() without the sort().
IsLastPosition(items, i, r) == i = Len(items) + 1

\* The position add_item() followed by the stable sort() moves an item to.
IsSortedPosition(items, i, r) ==
    /\ \A j \in 1..(i - 1) : items[j].dev <= r
    /\ \A j \in i..Len(items) : r < items[j].dev

\* Mutant: remove_item() moves the focus below the first item.
FocusAfterRemoveUnguarded(f, i) == IF f >= i THEN f - 1 ELSE f

FocusAfterRemove(f, i) == IF f >= i /\ f > 1 THEN f - 1 ELSE f

FocusAfterInsert(f, i, len) == IF f >= i /\ len > 1 THEN f + 1 ELSE f

\* The on_select callback, build_details(), with the item that has the focus.
Select(items, f) ==
    details' = IF items = <<>> THEN details ELSE items[f]

-----------------------------------------------------------------------------
(***************************************************************************)
(* The UI thread: the callbacks.                                           *)
(***************************************************************************)
\* Mutants: add_device() leaves the focus where it is, and so the details, or
\* moves the selection to the position and not to the device it had.
AddDeviceKeepFocus(d) ==
    \E i \in 1..(Len(list) + 1) :
        /\ IsSortedPosition(list, i, d.dev)
        /\ list' = InsertAt(list, i, d)
        /\ UNCHANGED <<focus, details>>

AddDeviceSelectFocus(d) ==
    \E i \in 1..(Len(list) + 1) :
        /\ IsSortedPosition(list, i, d.dev)
        /\ list' = InsertAt(list, i, d)
        /\ focus' = focus
        /\ Select(list', focus')

AddDevice(d) ==
    \E i \in 1..(Len(list) + 1) :
        /\ IsSortedPosition(list, i, d.dev)
        /\ list' = InsertAt(list, i, d)
        /\ \/ list = <<>> /\ focus' = 1
           \/ list # <<>> /\ focus' \in DOMAIN list'
              /\ IsPosition(list', focus', list[focus].dev)
        /\ Select(list', focus')

\* Mutant: remove_device() removes the selected item.
RemoveDeviceSelected(d) ==
    \/ /\ list # <<>> /\ d.dev \in Listed
       /\ list' = RemoveAt(list, focus)
       /\ focus' = FocusAfterRemove(focus, focus)
       /\ IF list' = <<>> THEN details' = NoDevice ELSE Select(list', focus')
    \/ d.dev \notin Listed /\ UNCHANGED listVars

RemoveDevice(d) ==
    \/ \E i \in DOMAIN list :
           /\ IsPosition(list, i, d.dev)
           /\ list' = RemoveAt(list, i)
           /\ focus' = FocusAfterRemove(focus, i)
           /\ IF list' = <<>> THEN details' = NoDevice ELSE Select(list', focus')
    \/ /\ d.dev \notin Listed
       /\ UNCHANGED <<list, focus>>
       /\ details' = IF list = <<>> THEN NoDevice ELSE details

\* Mutant: update_device_list() does nothing unless the device is selected.
UpdateDeviceListSelected(d) ==
    \/ \E i \in DOMAIN list :
           /\ IsPosition(list, i, d.dev) /\ i = focus
           /\ list' = ReplaceAt(list, i, d)
           /\ focus' = i /\ Select(list', focus')
    \/ ~(\E i \in DOMAIN list : i = focus /\ list[i].dev = d.dev) /\ UNCHANGED listVars

UpdateDeviceList(d) ==
    \/ \E i \in DOMAIN list :
           /\ IsPosition(list, i, d.dev)
           /\ list' = InsertAt(RemoveAt(list, i), i, d)
           /\ IF focus = i
              THEN focus' = i /\ Select(list', focus')
              ELSE /\ focus' = FocusAfterInsert(FocusAfterRemove(focus, i), i, Len(list'))
                   /\ UNCHANGED details
    \/ d.dev \notin Listed /\ UNCHANGED listVars

HandleEvent(c) ==
    LET d == [dev |-> c.dev, auth |-> c.auth] IN
    \/ c.op = "add" /\ AddDevice(d)
    \/ c.op = "remove" /\ RemoveDevice(d)
    \/ c.op = "change" /\ UpdateDeviceList(d)

\* The event loop takes the next callback.
UiCallback ==
    /\ uiPC = "loop"
    /\ chan # <<>>
    /\ chan' = Tail(chan)
    /\ HandleEvent(Head(chan))
    /\ UNCHANGED <<busVars, udevd, socket, monVars, uiVars>>

\* Up, Down, j and k move the selection one item.
UiMove ==
    /\ uiPC = "loop"
    /\ \E f \in {focus - 1, focus + 1} \intersect DOMAIN list :
           focus' = f /\ Select(list, f)
    /\ UNCHANGED <<busVars, udevd, socket, monVars, chan, uiVars, list>>

(***************************************************************************)
(* F5: refresh_devices() clears the list, enumerates and queues an         *)
(* add_device() for every router; the UI thread runs nothing else until it *)
(* returns, the monitor thread goes on.                                    *)
(***************************************************************************)
RefreshScan ==
    /\ uiPC = "loop"
    /\ refreshes < MaxRefresh
    /\ refreshes' = refreshes + 1
    /\ list' = <<>>
    /\ focus' = 1
    /\ uiEnum' = Scan(uiEnum)
    /\ uiPC' = "parse"
    /\ UNCHANGED <<busVars, udevd, socket, monVars, chan, details>>

RefreshParse ==
    /\ uiPC = "parse"
    /\ \/ \E r \in uiEnum.names : uiEnum' = ParseName(uiEnum, r) /\ uiPC' = uiPC
       \/ uiEnum.names = {} /\ uiPC' = "send" /\ uiEnum' = uiEnum
    /\ UNCHANGED <<busVars, udevd, socket, monVars, chan, refreshes, listVars>>

RefreshSend ==
    /\ uiPC = "send"
    /\ \/ \E d \in uiEnum.devices :
              /\ IsFirst(d, uiEnum.devices)
              /\ Send("add", d)
              /\ uiEnum' = [uiEnum EXCEPT !.devices = @ \ {d}]
              /\ uiPC' = uiPC
       \/ /\ uiEnum.devices = {}
          /\ uiPC' = "loop"
          /\ UNCHANGED <<chan, uiEnum>>
    /\ UNCHANGED <<busVars, udevd, socket, monVars, refreshes, listVars>>

-----------------------------------------------------------------------------
Init ==
    /\ present \in SUBSET Routers
    /\ auth = [r \in Routers |-> FALSE]
    /\ hotplugs = 0 /\ auths = 0 /\ refreshes = 0
    /\ udevd = <<>> /\ socket = <<>> /\ chan = <<>>
    /\ monPC = "build" /\ monEnum = NoEnum
    /\ uiPC = "loop" /\ uiEnum = NoEnum
    /\ list = <<>> /\ focus = 1 /\ details = NoDevice
    /\ quiet = TRUE

Monitor == \/ MonitorBuild \/ MonitorScan \/ MonitorParse \/ MonitorSend
           \/ MonitorEvent

Refresh == RefreshParse \/ RefreshSend

Step ==
    \/ \E r \in Routers : Plug(r) \/ Unplug(r) \/ Authorize(r)
    \/ Broadcast
    \/ Monitor \/ MonitorFails
    \/ UiCallback \/ UiMove \/ RefreshScan \/ Refresh

\* Nothing is on its way between the bus and the list.
Drained == /\ monPC = "poll" /\ uiPC = "loop"
           /\ udevd = <<>> /\ socket = <<>> /\ chan = <<>>

\* The bus does not change while somebody enumerates it, and F5 is pressed
\* only when nothing is on its way.
Quiet == /\ busVars' # busVars => monPC = "poll" /\ uiPC = "loop"
         /\ refreshes' # refreshes => Drained

Next == Step /\ quiet' = (quiet /\ Quiet)

Spec == Init /\ [][Next]_vars

\* Both threads run whenever they can and udevd delivers; nobody has to plug,
\* authorize, move the selection or press F5, and select() need not fail.
Fairness ==
    /\ WF_progVars(Broadcast) /\ WF_progVars(Monitor)
    /\ WF_progVars(UiCallback) /\ WF_progVars(Refresh)

FairSpec == Spec /\ Fairness

-----------------------------------------------------------------------------
(***************************************************************************)
(* Properties.                                                             *)
(***************************************************************************)
Enum == [names : SUBSET Routers, devices : SUBSET Device]

\* Every variable has its type; focus is the position of an item, or 1.
TypeOK ==
    /\ present \in SUBSET Routers
    /\ auth \in [Routers -> BOOLEAN]
    /\ hotplugs \in Nat /\ auths \in Nat /\ refreshes \in Nat
    /\ udevd \in Seq(Uevent)
    /\ socket \in Seq(Uevent)
    /\ monPC \in {"build", "scan", "parse", "send", "poll", "dead"}
    /\ monEnum \in Enum
    /\ chan \in Seq(Callback)
    /\ uiPC \in {"loop", "parse", "send"}
    /\ uiEnum \in Enum
    /\ list \in Seq(Device)
    /\ focus \in Nat \ {0}
    /\ details \in Device \union {NoDevice}
    /\ quiet \in BOOLEAN

\* An add of r is queued and no remove of r comes behind it.
AddLast(q, r) ==
    \E i \in DOMAIN q :
        /\ q[i].op = "add" /\ q[i].dev = r
        /\ \A j \in (i + 1)..Len(q) : ~(q[j].op = "remove" /\ q[j].dev = r)

NoRemove(q, r) == \A i \in DOMAIN q : ~(q[i].op = "remove" /\ q[i].dev = r)

\* The routers an enumeration has seen and not queued yet.
Pending(enum) == enum.names \union {d.dev : d \in enum.devices}

\* r is on the screen, or on its way there with nothing behind it that takes
\* it away again: seen by an enumeration, or in one of the three queues.
Shown(r) == r \in Listed \union Pending(monEnum) \union Pending(uiEnum)

Coming(r) ==
    \/ AddLast(udevd, r)
    \/ /\ NoRemove(udevd, r)
       /\ \/ AddLast(socket, r)
          \/ /\ NoRemove(socket, r)
             /\ \/ AddLast(chan, r)
                \/ NoRemove(chan, r) /\ Shown(r)

\* No router is lost: from the first enumeration on, every router that is
\* connected is in the list or on its way there, whatever is plugged,
\* unplugged or refreshed meanwhile. It is why the monitor is built before
\* the devices are enumerated.
NoRouterLost ==
    monPC \notin {"build", "scan"} => \A r \in present : Coming(r)

\* The list is in (domain, route) order at any time: add_device() sorts, and
\* update_device_list() puts the new Device where the old one was, although
\* enumerations and events add the routers in any order.
ListSorted == \A i, j \in DOMAIN list : i < j => list[i].dev <= list[j].dev

\* The details pane describes the selected router with the attributes the list
\* has of it, although each handler updates the two separately and cursive
\* moves the focus on its own when items come and go.
DetailsFollowSelection ==
    list # <<>> => focus \in DOMAIN list /\ details = list[focus]

\* What happens to other routers never moves the selection: only the user, F5
\* and the removal of the selected router do. F2, F8 and the open dialogs act
\* on whatever is selected.
SelectionSticky ==
    [][ /\ list' # list /\ list # <<>> /\ refreshes' = refreshes
        /\ ~(Head(chan).op = "remove" /\ Head(chan).dev = Selected)
        => Selected' = Selected ]_vars

\* The list settles: a router that stays connected ends up in it for good, and
\* in a quiet environment one that stays disconnected ends up out of it. Only
\* a failing poll(), which ends the monitor thread, prevents it.
MembershipSettles ==
    \A r \in Routers :
        \/ <>(monPC = "dead")
        \/ /\ <>[](r \in present) => <>[](r \in Listed)
           /\ <>[](r \notin present) => <>[](r \notin Listed) \/ <>~quiet

\* The routers that the messages under way add or remove.
About(q, op) == {q[i].dev : i \in {j \in DOMAIN q : q[j].op = op}}

Queued(op) == About(udevd, op) \union About(socket, op) \union About(chan, op)

\* Before the enumeration of the monitor thread any router may turn up.
Announced ==
    IF monPC \in {"build", "scan"} THEN Routers
    ELSE Queued("add") \union Pending(monEnum) \union Pending(uiEnum)

View == INSTANCE DeviceView WITH
            shown <- Listed, coming <- Announced, going <- Queued("remove")

\* The list implements a live view of the bus: two enumerations, three queues
\* and the handlers add up to announcements that are delivered at some time,
\* and a router that stays connected is never taken off the screen but by F5.
ListFollowsBus == View!Spec

\* In a quiet environment the list never shows a router twice, and it is the
\* bus when nothing is on its way: the routers, their attributes and the
\* details pane.
ListExact ==
    quiet =>
        /\ \A i, j \in DOMAIN list : i # j => list[i].dev # list[j].dev
        /\ Drained => /\ ToSet(list) = {Parse(r) : r \in present}
                      /\ list = <<>> => details = NoDevice
=============================================================================
