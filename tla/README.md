# A verification of tbtools

[tbtools](../src/README.md) is a Rust library and a set of tools for
Thunderbolt and USB4: listing and authorizing routers, reading and writing
their registers, margining receiver lanes, tracing the control plane, moving
Type-C ports between modes, and `tbman`, a live manager with a text user
interface. This directory holds TLA+ models of its stateful parts, the
configurations that check them with TLC, and proofs checked with TLAPS.

Source lines below are given as file:line under `src/src/`.

## Inventory

Most of the tools are sequential: they enumerate, read, print and exit. The
hard behaviour is in six places: the two threads of `tbman`, the dialogs that
outlive what they were opened for, the registers that exist in three copies,
the multi-step operations on hardware that fail in the middle, the state in
the kernel and the hardware that several runs of the tools share (registers,
keys, margining parameters, the trace, tunnels that change while they are
read), and the parsers of what hardware and firmware return.

| Component | State and operations | Interacts with | What is hard | What makes it correct |
|---|---|---|---|---|
| tbman: device list (`bin/tbman/app.rs`) | SelectView of Devices, its focus, the details pane; add, remove and change callbacks, cursor keys, F5 | monitor thread through `cb_sink` | enumeration and events overlap; F5 clears the list while callbacks are queued; cursive keeps an index, not the item | no router lost, list sorted, details and selection consistent, the list settles on what is connected |
| tbman: dialogs (`bin/tbman/app.rs`) | stack of layers; opened and closed by keys and by callbacks | device list, adapters kept in the Device | handlers pop the topmost layer, whichever it is; a dialog goes by the selection of the moment; `unwrap()` | a dialog belongs to the selected router, the main view stays, no panic |
| tbman: register dialog (`bin/tbman/app.rs`, `debugfs.rs`) | chosen space and adapter, copies in the list, marks in the register cache | debugfs files | a failed read leaves list and choice apart; a write that fails half way | what is entered gets written, nothing else is |
| tbman: views (`views.rs`, `theme.rs`, `main.rs`) | none | cursive | - | - |
| udev monitor (`monitor.rs`) | netlink socket; `build`, `poll`, iteration | kernel, udevd | the order of opening and enumerating; an unparsable event ends the iteration | every event is delivered in order |
| devices and addresses (`device.rs`) | snapshot of sysfs; `find_devices`, `authorize_device` | udev, kernel | snapshots are stale when used; several writes of which one fails; names of routers as numbers | parents are authorized first and as necessary; success is true |
| debugfs registers (`debugfs.rs`, `usb4.rs`, `data/registers.json`) | cached registers with a mark; read, set fields, write back; paths, capabilities | kernel debugfs | whole registers are written back on top of what changed meanwhile, a write stops half way and is tried again, values wider than their field | a field write changes the field only, what is reported is there |
| bit utilities (`util.rs`) | none | DROM, registers | boundaries of masks | a field that is set reads back, its neighbours stay |
| DROM (`drom.rs`) | iterator over entries of variable length | nvmem | lengths that do not fit: zero, too long, too short for the kind of the entry | every byte once, no panic when the entries fit and their names are text |
| tunnel discovery (`tunnel.rs`, `bin/tbtunnels.rs`) | walk over path config spaces | debugfs registers | following hops of paths that are being changed | ends, finds the tunnels set up |
| receiver lane margining (`margining.rs`, `bin/tbmargin.rs`) | capabilities, parameters, results of a port or retimer | kernel debugfs | parameters of one test that survive into the next | results belong to the lane, mode and margin asked for |
| Type-C ports and the ChromeOS EC (`typec.rs`, `cros.rs`, `bin/tbpd.rs`) | none in the tool; mux and mode in the controller | ioctl | up to three commands, each of which may fail or be refused | mux and partner fit, also after a failure |
| kernel tracing (`trace.rs`, `bin/tbtrace.rs`) | tracefs switches, a buffer that is parsed, the registers of the routers | kernel, debugfs registers | the reads of a dump add to the trace it prints; enabling is four writes that fail one by one; packets shorter than their header | the filter holds, each packet once and with the right names, a dump ends |
| authorization tool (`bin/tbauth.rs`) | key of a router, key file | `authorize_device` | kernel, file and router get the key one after the other, and each step may fail | the file holds the key the router has |
| register tools (`tbget`, `tbset`, `tbdump`) | none between runs; the registers read and marked in one | debugfs registers, DROM | no tool, user or router waits for another between a read and a write; registers that are missing | what has been printed or set is what the hardware holds, unless somebody interfered; every tool ends |
| listing tools (`tblist`, `tbadapters`), monitor tool (`tbmonitor`) | none | library | - | - |
| `scripts/`, build files | none | - | - | - |

The components interact through the library only: tools call it and share no
state except sysfs, debugfs and the controller. Within `tbman` two threads
share one FIFO of callbacks.

## Modules

### TbmanDevices: the live device list

The monitor thread (`start_monitor`, app.rs:3176) opens the socket
(`MonitorBuild`), enumerates (`MonitorScan`, one `MonitorParse` per name,
since each opens sysfs anew), queues an add for each (`MonitorSend`) and then
forwards events (`MonitorEvent`). `monPC` is its place in that code. The UI
thread runs one callback or key at a time (`UiCallback`, `UiMove`); F5
(`refresh_devices`, app.rs:2989) is a loop in the UI thread during which the
monitor thread goes on, so it has steps of its own (`RefreshScan`,
`RefreshParse`, `RefreshSend`). The bus, udevd and the three queues `udevd`,
`socket` and `chan` are the environment and the channels. The list is a
sequence with a focus: `FocusAfterRemove` and `FocusAfterInsert` are cursive's
(an external library, modelled from its use here), the handlers `AddDevice`,
`RemoveDevice` and `UpdateDeviceList` are the ones of app.rs:3081-3152, sort
and selection included. Two Devices compare equal by domain and route only
(device.rs:682), so a router is its rank in that order.

`quiet` is a history variable: it is true as long as the bus has not changed
during an enumeration and F5 has been pressed only when nothing was on its
way. Without it two items of the list may be the same router, which is what
`ListExact` and the second half of `MembershipSettles` then allow.

Abstracted: names and attributes other than `authorized`, domains, retimers.
A router whose name is misread (a route that is not all decimal digits,
device.rs:28) would be equal to another router; here the ranks are distinct.

### DeviceView: what a live list promises

The abstract specification of the device list: a connected router is on the
screen or announced, it comes onto the screen because it was announced, and
leaves it because it was unplugged or because the whole view is built anew.
How announcements travel is left open (`Deliver`). `TbmanDevices` implements
it under the mapping `View`: what is shown are the routers of the list, what is
coming are the adds in the three queues (udevd, socket, callbacks) and what the
two enumerations hold (`Announced`), what is going are the removes in the
queues. The mapping is stated as `ListFollowsBus`, a property of the run and a
theorem. It rests on the order of the code, the socket before the enumeration
and the enumeration before the events: with the order changed a connected
router is neither shown nor announced at the moment the other one ends.

### TbmanDialogs: the layers

Layers are a sequence of records with the kind of the layer and the router it
was opened for, which the program itself does not keep. `CloseDialog` is
app.rs:203: when the dialog is anywhere the *topmost* layer goes. The
callbacks of the monitor and those the UI queues for itself (`RefreshAdd`,
`ShowFailure`) run under any layer; keys go to the topmost one. `known` is the
set of routers whose Device has had `read_adapters()`, which a change event
undoes. `ReadSelectedRegisters`, `WriteSelectedRegisters` and
`UpdateSelectedRegister` are F5, F7 and "Update" of the registers dialog as far
as they need a router; what they do to its registers is TbmanRegisters. `Panic`
is an `unwrap()` or an index of what is not there. There are three ways to one:

* The router or the adapter a dialog was opened for is not there any more
  (`AdapterMissing`, `ViewDetail`).
* A read works, but registers are left out of what it returns, as the kernel does
  with those it cannot access (`ReadPanics`): the first register of the router is
  indexed (debugfs.rs:1509), the number of adapters and the upstream adapter are
  unwrapped (debugfs.rs:1631), and so are the registers of the TMU
  (app.rs:1413-1502). It may happen to the routers in `Flawed`, which is any set,
  and to one that is `gone`: unplugged (`Unplug`), with the event still to come.
* A router that is gone has no domain, which F2 unwraps (app.rs:249,
  `AuthorizeDevice`).

`NoPanicCalmly` says that there is no other: it holds as long as all routers in
the list are connected and report in full. A read that fails with an error may
happen to any router at any time and becomes a message. The list is a set here:
its order and duplicates are TbmanDevices. `calm` is a history variable: so far
routers have come and gone with at most one layer on top of the main view, and
no Device whose adapters have been read was replaced (`Calm`). Left out: an error
of `find_devices()`, which F5 unwraps (app.rs:2997).

### TbmanRegisters: the register dialog

One register stands for a config space. `hw`, `cache` and `copy` are the three
places of a value; `cache` has the `changed` mark of debugfs.rs:442. `Read` is
`read_registers` with its failures, `WriteRegisters` is F7 with a failure at
any space (the adapter writes three files one after the other, debugfs.rs:1412),
`UpdateRegister` is app.rs:1004, which finds the register anew by what is
chosen *now*. `entered`, `pending`, `written` and `saved` record what the user
did, for the properties. The marks are never cleared by a write, as in the
code: the re-read that follows a write that worked is what clears them.

### CrosMux: mode changes through the ChromeOS EC

`enter_mode` (cros.rs:312) is a sequence of three commands, each with three
outcomes: done, failed (with or without effect), and refused. The controller
reports a refusal in the field `result` of a command, which `Ec::command`
(cros.rs:183) never looks at, so the sequence goes on. The tool may be killed
between two commands and run again for any port and mode; partners are
connected meanwhile. `FlagsToAltmode` and `AltmodeToFlags` are the conversions
of cros.rs:111-133 on sets of flags.

### Authorization and AuthorizationKeys: authorizing routers

`Authorization` is `authorize_device()` (device.rs:979). A chain of routers
hangs below the host. `Call` takes the snapshot that the decision rests on,
`Climb` is the recursive call for the parent, `Write` the write to `authorized`
and the return to the call below. The kernel's rules for the write are
`Accepts` and `Authorized` (external). Several programs (`tbauth`, F2 of
`tbman`) run at once while routers come and go, and each may fail anywhere.

`AuthorizationKeys` extends it by what `main()` of tbauth does before it calls
`authorize_device()` (tbauth.rs:86-131), one action per system call: `CallAdd`
(-A) generates a key, `SetKey` hands it to the kernel, `OpenFile` creates or
truncates the file, `FillFile` writes it; `CallChallenge` (-C) begins with
`ReadKey`. Its other actions are those of `Authorization` with what the kernel
does to the keys: `pending` is the key the kernel holds for a router, `stored`
the one in the router, which gets it when it is authorized (`Stores`) and is
compared with it in a challenge (`KeyFits`). `KeyFails` is a failure, or a kill,
at any of these steps; the router may have stored the key by then. Keys are
numbers, as 32 random bytes are never the same. The file of a router is one
file: which path is given is up to the user. `undisturbed` and `untouched` are
history variables: nobody else has changed the chain, or the keys, since the
tool was started.

### RegisterFields, Drom and RouterTools: tbget, tbset and tbdump

`RegisterFields` has the values of registers as sets of bits, and `genmask`,
`RegField` and `set_field()` (debugfs.rs:557-590) as operators on them: a value
that is too wide for its field reaches into the fields above, as in the code.
`Drom` has what `Drom::parse()` accepts (drom.rs), how far the entries reach,
and which bytes `DromEntry::parse()` accesses of an entry of each kind, checked
or not; a ROM is a record of its size, its header and what its bytes say when
they are taken for the beginning of an entry. A name that is not UTF-8 makes
`tbdump` panic (drom.rs:365 and 370), as an entry of the wrong length does:
`Parses` is what an entry must be for it not to.

`RouterTools` runs several of the three tools on one router that may be
unplugged, reset, or change registers itself. A tool goes through `pc`:
`FindDevice`, `ReadRouter`, `ReadAdapters`, `ReadSpace` are its reads, in the
order of its `main()`, each of them all of a file at once, of which any register
may be missing; a read fails, ends the tool, or panics where the code unwraps
or indexes what is not there. `GetArgument`, `SetArgument` and `DumpRegisters`
are the loops over the command line, `FinishArguments` their end;
`SetArgument` changes `cache` and marks the register as `set_value()` and
`set_field()` do. `WriteChanged` writes the marked registers of one file
(router or adapter, then paths); the kernel writes register by register up to
one that fails, and the `BufWriter` that is dropped then writes what it still
holds (`Retry`), so a failed write may be made twice. `ClearCounters` is the
exception for counters. `ReadDrom` and `NextEntry` are the ROM: the iterator
goes on by the length an entry says. `undisturbed` remembers for each tool the
registers whose value nobody else has changed since it read them.

Abstracted: the parsing of the command line, of which an argument that cannot
be parsed remains; a register found by name is one the metadata has a name for;
the text of what is printed; what the fields of an entry mean.

### Margining: tbmargin on a shared port

The kernel keeps one set of parameters and one result per port (`attrs`,
`result`); every write and every read of a program is a step of its own, so
that two programs interleave at each system call. `New` is `Margining::new`
with the checks of the capabilities (margining.rs:819), `WriteBer` to `Run` are
`run()` (margining.rs:795) in its order, `ReadResults` with `MarginLines` and
`ShowLines` is what `Results` and `show_results` make of the dwords. `Advance`
moves on through the three nested loops of tbmargin.rs:258-304 (`NextMargin`,
`NextLane`, `NextTest`); each `Write` may fail, which ends the program
(`Fail`). A field of a result is the pair of its lane and side, which is enough
to see when a value is shown for another lane or side than its own. `measured`
and `disturbed` are history variables.

A parameter that a test has no use for is not written, and stays what it was:
the margin of the test before, or of another program. Abstracted: the scaling
to mV and UI, and the bits of the number of steps. The speed of the link is
that of the port.

### TunnelDiscovery: tbtunnels while tunnels change

Routers and XDomains are named by their route, adapters have kinds. `SetUp` and
`TearDown` are the kernel's steps, one path or one enable at a time; `up` is how
far each tunnel is. tbtunnels reads one adapter after the other
(`ReadAdapter`, `ReadPaths`, `DeviceRead`, `ReadFails`), so `enabled` and
`seen` are a mix of old and new. Then it discovers from that snapshot:
`Follow` is one turn of the loop of `discover_path()` (tunnel.rs:369),
`TakePath` the next path of a USB 3, DisplayPort or PCIe tunnel, `TakeTx`,
`NextXDomain` and `TakeRx` the two loops of `discover_dma()`. The topology does
not change while the tool runs: an unplugged router is a read that fails.

Which tunnels the kernel sets up is a constant. `KernelAssumption` says what the
discovery relies on: a path goes on behind each link it leaves by (`IsComplete`),
paths start with the HopIDs that are looked for (`StartsAtSource`), a ring has
the same number in both directions (`StartsAtRing`, tunnel.rs:299-301), and this
number is not the HopID of a link. The last one holds as long as rings in use
have numbers below 8, where the HopIDs of links begin.

### Tracing: one trace, several programs

`filter`, `enabled` and `buffer` are the kernel's. Enabling is the four writes
of trace.rs:985-1048, each a step that may fail (`AddFilter`,
`SetCurrentTracer`, `SetTraceClock`, `DoEnable`), in any interleaving with
others that enable, disable and clear. A dump of `tbtrace` reads the buffer in
pieces (`Fetch`) and handles entry by entry: `Lookup`, `ReadRegisters`,
`ReadAdapters`, `ReadPaths` and `PrintEntry` are the body of the loop of
tbtrace.rs:943. Each read of a router that does happen puts a packet into the
buffer (`RecordOwn`) when its domain is traced. A read of the registers or the
adapters that fails ends the dump (tbtrace.rs:952-953), one of paths is passed
over. Registers are not values: the
cache keeps the router they were read from, which is what decides whether the
names shown are right. `router` numbers the routers as they come, so another
router at the same place is another number; `home` remembers which have been
where, `only` the domain one program has tracing for. The dialog of `tbman` is
`EnableTrace`, `ReadEntries`, `ClearTrace` and `ViewPacket`; one key is one
step, its list of routers (`listed`) follows the bus through `UpdateList`.

Abstracted: one read of a config space is one packet in the buffer, although it
is at least a request and a response, and a read that fails is none; the three
formats of a dump; the dump of a file, for which no register is read; change
events, F5 and the jump to a timestamp in tbman.

### Proof modules and model checking modules

`TbmanDevices_proofs`, `Tbman_proofs`, `CrosMux_proofs`, `Authorization_proofs`,
`Margining_proofs`, `TunnelDiscovery_proofs`, `Tracing_proofs` and
`RouterTools_proofs` extend the module they are about (`Authorization_proofs`
extends `AuthorizationKeys`, which extends `Authorization`; `Tbman_proofs`
extends both `TbmanDialogs` and `TbmanRegisters`, whose definitions therefore
have names of their own). `MCAuthorizationKeys`, `MCMargining`,
`MCTunnelDiscovery`, `MCTracing` and `MCRouterTools` give the instances for
model checking; the other modules have constants that fit in a configuration.
`MCAuthorizationKeys` and `MCMargining` make the tools symmetric: each may do
all that any of them does, no definition tells them apart, and their runs check
invariants only.

## Runs

| Run | Question | Result |
|---|---|---|
| `devices_races` | Two enumerations, events and F5 in any order, with a monitor thread that may die | `NoRouterLost`, `ListSorted`, `DetailsFollowSelection`, `SelectionSticky` hold and the list implements `DeviceView` (`ListFollowsBus`); `MembershipSettles`; as long as the environment is quiet `ListExact` |
| `dialogs_stack` | Any pile of layers, routers that come, go and change below | the main view is never closed (`TypeOK`); `DialogFollowsCalmly` as long as the environment is calm; `NoPanicCalmly` as long as, besides, the listed routers are connected and report in full |
| `dialogs_stale` | Does a dialog close with its router under more layers? | violated: the layer on top is closed, the dialog of the removed router stays |
| `registers_careful` | Failing reads and half-done writes, a user who edits no list left over by a failed read | `WritesAreEntered`, `EnteredGetsWritten` hold |
| `registers_wrong` | ... any user | violated: Update changes the register of the choice, not the one on the screen |
| `crosmux_commands` | Commands that fail, are refused or never sent | `MuxFitsMode`, `ReportedIsEntered` hold for ports without a refused command |
| `authorization_shared` | Two tools authorize, challenge, add keys and fail at any system call | `OkMeansDone`, `UndisturbedSucceeds`, `KeyFileFits` hold |
| `router_tools` | Any of the register tools next to another one, on a router that changes, goes or is reset, and ROMs that fit or do not | `HardwareAsTold`, `OthersKept`, `PrintedOnce`, `EachToolEnds` hold |
| `margining_tools` | Two programs margin one port, of any capabilities | `NeverDestructive`, `NoPanic`, `ShownIsMeasured`, `EveryMarginMeasured` hold |
| `margining_lanes` | Is each margin shown that of its lane and side? | violated: the low or left one comes from the high or right field, and the high or right one from lane 0 |
| `tunnels_moving` | Tunnels come and go, and take over HopIDs and adapters of each other, while the adapters are read | `WalkEnds`, `StableFound` hold |
| `tracing_dumps` | Dumps, clears and enables of one trace that overlap, a buffer that overflows, and routers that are exchanged | `OnlyAskedDomain`, `ShownInOrder`, `NamesOfRouter`, `NothingMissed`, `DumpEnds` hold |

### Bounds

* `TbmanDevices`: two routers are enough for an order, a neighbour and a
  selection that is or is not the one affected. Two plugs or unplugs on top of
  any initial bus let a router come and go (or go and come back) around each
  step of the enumerations. One change of `authorized` and one F5 let each
  interleave with the rest.
* `TbmanDialogs`: three routers, so that a removal leaves a choice, of which two
  change and the third does not report in full; three layers (main, a dialog, and
  a detail, help or message above it, which is where topmost and found differ).
  Messages are not counted by `MaxLayers` where the code adds them at once, so
  there may be more. The proofs cover any number of layers.
* `TbmanRegisters`: one adapter with two spaces besides the router space, two
  values. That choosing another adapter is like choosing another space is by
  construction (`Chosen`); the proofs cover any number of adapters.
* `CrosMux` needs no bound: the two ports are the code's. Adapter 2 has no
  port.
* `AuthorizationKeys`: a chain of two has a router with an unauthorized parent;
  the router below has a key, the other one has none. Two tools, each of which
  does anything, and two keys: the one in the file, the kernel or the router
  may be the one before. The proofs cover chains of any length.
* `RouterTools`: registers of three bits have a field with a neighbour on either
  side, one that a value is too wide for and one next to the end. Five registers
  put two into the router space, of which one tells the number of adapters, and
  one into each space of an adapter. One process runs any of the command lines of
  `MCAll`, which take every branch of the tools, the other one reads or writes
  the register that most of them are about. One event: the router is unplugged
  (and comes back reset) or changes a bit. ROMs have two entries that are too
  short, too long, of no length or of an odd one, with each kind whose parser
  accesses more than it has asked for; more entries are the same step again.
* `Margining`: two tools. `MCPorts` leaves out ports that differ only in what no
  branch of the code tells apart: of each way to return margins of each test,
  with hardware and software margining, one lane at a time and all lanes,
  generations 2 to 4 and a destructive time test there is one. The proofs cover
  all of `RawCaps` and any number of tools.
* `TunnelDiscovery`: a host, three devices and another host; four tunnels, one of
  each kind, over one and two links. They share adapters, and a HopID of one is
  the next one of another: the ring shares one with the PCIe tunnel and one with
  the DisplayPort tunnel, and that shares one with the USB 3 tunnel. Any that do
  not exclude each other may be up at the beginning. Five steps of the kernel
  while the adapters are read take the DisplayPort tunnel down (four steps) and
  begin another one in its place, or take a shorter one down and set up one that
  uses its HopIDs: walks that go from entries of one tunnel to entries of another
  occur, over three hops and across the turn from up to down. `MaxRing` 2 gives a
  ring that is in use and one that is not, `MaxHop` 9 leaves the first two
  HopIDs above the eight reserved ones. `MaxDepth` is the depth of the topology.
* `Tracing`: one `tbtrace` next to `tbman`, two places with the same route in
  two domains, and three commands: enough to enable, dump and disable or clear
  meanwhile, or to enable, read the entries and look at one. `MaxEvents` bounds
  packets and routers together: with three events there are two routers, of which
  one may take the place of the other, and a packet, or one router and two
  packets, so that a dump prints two of them and their order can be wrong. The
  packets are of four kinds that stand for those the code tells apart; an
  inter-domain one is in the trace twice. The buffer of two entries overflows with
  a packet or a read of the dump. `OnlyAskedDomain` with more programs is proved,
  and so is `ShownInOrder` for any number of packets.

Deadlock is checked for `TbmanRegisters`, `CrosMux` and `AuthorizationKeys`,
which always have a next step. The others may stop: `TbmanDevices`,
`TunnelDiscovery` and `Tracing` when the bounds of the environment are used up,
`TbmanDialogs` when the program has quit or panicked, `Margining` and
`RouterTools` when all programs have ended.

### Fairness

`TbmanDevices` assumes weak fairness of the monitor thread, of udevd and of the
UI thread's event loop: each is a loop that runs whenever it is not blocked,
and what it blocks on is in the guard. The user and the bus have none, and
`select()` may fail or not. `RouterTools` assumes weak fairness of a tool that
has been started: it is sequential, makes system calls that return, and waits
for nothing. `Tracing` assumes it of the steps of a dump that was started
(`DumpStep`), for the same reason; packets, routers, new commands and those that
enable have none.
No other property needs fairness.

## Proofs

Checked by TLAPS for every value of the constants:

| Module | Theorems | Argument |
|---|---|---|
| `TbmanDevices_proofs` | `TypeCorrect`, `DetailsCorrect`, `SortedAlways`, `SelectionSticks`, `NoRouterIsLost`, `ListImplementsView`, `ListIsExact` | `ViewInv` adds to the types that the focus is on an item and the details are that item: without it the item `build_details()` shows need not exist. Order and selection follow from it and from what inserting, removing and replacing an item does to the others. `LostInv` adds that the uevents of a connected router never end with a remove, and that nothing is received before the socket is open nor forwarded before the enumeration is over: `NoRouterLost` alone says nothing of a router that is connected before the enumeration. The same invariant shows that each step is one of `DeviceView` or leaves the view alone. `ListExact` speaks of the moments when nothing is under way; `ExactInv` says what holds in between: the callbacks, then the socket, then the uevents lead from the routers on the screen to those seen on the bus, each add of one that is absent by then (`MembersInv`); the last message about a router has its attributes (`AttrInv`); and who enumerates does so with the queues from the kernel empty (`PhaseInv`). |
| `Tbman_proofs`, `TbmanRegisters` | `RegistersTypeCorrect`, `CopyIsTrue`, `OnlyEnteredIsWritten`, `AllEnteredIsWritten` (of `CarefulSpec`) | `RegistersInv`: a register that is marked has the value entered last, and a value that waits is marked; the detail dialog is open over a list that is not empty. |
| `Tbman_proofs`, `TbmanDialogs` | `DialogsTypeCorrect`, `DialogsFollow`, `CalmNeverPanics` | `DialogsInv`: a list that is not empty has a selection (`SelectedThere`, without which a dialog could open on no router), and while the environment is calm every layer `Fits` the list, the selection and the adapters held: a registers dialog lies only over adapters that have been read, which `DialogFollowsCalmly` does not say and `NoPanicCalmly` needs; that registers, domains and the adapters of a path are there follows from the listed routers being connected and reporting in full; and the list is empty until the thread has said that it found nothing. One lemma per way the stack changes says that the main view stays (`FrontStack`, `AppendStack`, `CloseStack`); a step that leaves the list alone has only its new layer to show (`SteadyStep`). |
| `CrosMux_proofs` | `TypeCorrect`, `MuxAlwaysFits`, `ReportIsTrue`, `AlwaysSafeWhileChanging` | `Underway` says what is known at each command: safe mux before the mode is entered, matching partner before the mux is set. |
| `Authorization_proofs` | `TypeCorrect`, `SuccessIsTrue`, `UndisturbedSucceed`, `KeysRefine`, `KeyFileIsTrue` | `WayUp` and `WayDown` say what a call that nobody disturbs knows of the chain between where it is and where it started; `SettledIsDone` covers the return without a write. `KeysRefine`: every step with keys is one of `Authorization`, so that what holds of that holds of tbauth. `Adding` and `Challenging` say where the key of -A and of -C has got to: into the kernel, then the file, then the router. |
| `RouterTools_proofs` | `FieldRoundTrip`, `TypeCorrect`, `EveryByteOnce`, `ToldTheTruth`, `OthersUntouched` | `FieldRoundTrip`: a field of any width reads back the bits of the value that fit, no bit outside it is cleared, and only those of a value too wide are set there, so that fields the value does not reach stay. `CourseOK` says what a tool has read where it is. `RomOK`: the bytes before the offset have been printed once and the others not at all; the offset is at a cut when the ROM has cuts. `HwOK` says of each register nobody else touched what it holds before, during and after a write that may be repeated: the bits of the arguments done so far, and those that were read. |
| `Margining_proofs` | `TypeCorrect`, `NeverRunDestructive`, `NeverPanics`, `ShownIsTrue`, `AllMeasured` | `IInv` ties the tests, lanes and margins a program has left, and the parameters in the kernel whoever wrote them, to the capabilities: from the moment one program has written its test until it has run, the kernel holds a test that may be run, since every other program writes such only. `CourseInv` is about a program that nobody interferes with: each margin has been measured, is asked for, or is ahead in the loops over tests, lanes and margins, and what the program has written is what the kernel has when it runs. |
| `TunnelDiscovery_proofs` | `TypeCorrect`, `WalksEnd`, `PathsConnected`, `StableTunnelsFound` | `IInv`: entries seen stay in their router and do not leave where they came in (`Grounded`); the walk is bounded by where it is: going up it has at most as many hops as levels above it, going down the direction can not change again (`Bounded`), which gives `WalkEnds` without a bound in the loop. `ConnectInv` says of the walk and the paths taken what `PathsAreConnected` says of tunnels. `StableFound` speaks of the end only; `StableInv` says on the way there that each entry read is of a tunnel that excludes none of those that stay up (`Beside`), that the entries of these have been read as far as the reading has got, that a walk on the path of such a tunnel stays on it and a walk beside them never comes onto one, and that each such tunnel has been found, is the one looked for, or has its source ahead. |
| `Tracing_proofs` | `AskedDomainOnly`, `TypeCorrect`, `DumpsInOrder`, `NamesOfRouters`, `NothingIsMissed` | `FilterInv`: while tracing is wanted for one domain only one program is on its way to enable it; until it has set the filter tracing is off, and afterwards the filter is set. `DumpInv`: the packets a dump has printed, those it has fetched and those it has yet to fetch follow each other in the order they were sent. `ShownInOrder` speaks of the printed ones alone and is not inductive. A step of the kernel either leaves what is yet to fetch in place, drops the oldest of it or adds packets newer than all others (`KernelKept`), and what is held of the routers comes from ones in `home`. `UpToDateInv` is about all that tbman holds of the routers, whether an entry needs it or not: a router that has been replaced is among the changes tbman has yet to see. `NothingMissed` speaks of the end of a dump; `MissInv` says on the way there that each control packet in the part of the buffer already read has been printed, or is printed by an entry fetched or yet to be fetched. For the event of an inter-domain packet that is the same packet as received, which is behind the event (`Paired`) and so outlives it in the buffer (`BothKept`). |

They rest on the named assumptions of the modules: the routers are integers, and
a list of dialogs has finitely many (the item before the one removed exists),
those that do not report in full are some of them, the spaces are those of the
code, the chain has at least one router, the ports report what their fields can
hold, devices hang below adapters and no path leaves an adapter it came in by,
the tunnels are as the discovery takes them to be (`KernelAssumption`, only for
`StableTunnelsFound`) and there is one host interface with at least one ring,
places differ in domain or route, the tools are started with command lines, and
a ROM is a record of bytes.

Only model-checked: the liveness properties (`MembershipSettles`, `DumpEnds`,
`EachToolEnds`), since fairness and `ENABLED` are out of the prover's reach. Out
of reach of the prover in general: induction over data, and so what a recursive
definition computes for every input, and modules with RECURSIVE operators. No
module has such an operator.

Only proved: `PathsAreConnected`, which says of each tunnel found that the hops of
its paths are the two ends of links with the same HopID.

## What the runs show of the code

Three disagreements are runs of their own: the dialog that stays, the register
that was not on the screen, and the margins of the wrong lane and side. Others
the models have but no property forbids:

* A router plugged between the opening of the socket and the enumeration is
  listed twice, and unplugging it removes one of the items. So do two adds when
  F5 queues its own behind those of the monitor, until the next F5. The quiet
  environment excludes both.
* After an error of `poll()` (a signal interrupts `select()`) the monitor
  thread is gone and the list is frozen, with no sign of it.
* A change event replaces the Device whose adapters an open register dialog
  needs, and the next key panics (app.rs:713). The calm environment of
  `NoPanicCalmly` excludes it.
* `tbman` panics on a router that does not report all the registers it expects,
  when it is asked for adapters, paths, registers, the DROM or the TMU, and on F2
  for a router that has just been unplugged (`ReadPanics`, `AuthorizeDevice`).
* Registers stay marked after a write that failed in a later space, and a
  later F7 writes them again with the value of then.
* When a message or help lies over "No Thunderbolt/USB4 devices found" as a
  router arrives, that layer is closed and the text stays.
* A command the EC refuses goes unnoticed: `tbpd` then reports a mode that was
  not entered. The properties of `CrosMux` except such ports (`refused`).
* Only authorizing (1) authorizes the parents first; a challenge (2) of a router
  below one that is not authorized is refused.
* A margining test that takes no margin leaves the one of the test before in the
  kernel. With software margining lane 0 is the one that is shown
  (`ShownIsMeasured` is about hardware margining).
* The field for independent time margins of a Gen 4 port overlaps the number of
  voltage steps (usb4.rs:116). The model takes it as any value.
* A verbose dump of a live trace that is still on ends because each register is
  read once. The lane 1 adapters of USB4 v2 are the exception: their path
  config space cannot be read, `read_paths_cached()` (debugfs.rs:1257) keeps
  nothing and reads again for each entry, and the packets of that read are the
  next entries. `DumpEnds` excepts such a router; the tool warns of tracing
  during a verbose dump (tbtrace.rs:1073).
* A path that is cut off in a link, because the tunnel is half torn down, ends
  with the HopID of that link. If a ring has this number (8 or more), the path
  is taken for its receiving path (tunnel.rs:315-317), and a ring that is up may be
  shown with it. `KernelAssumption` excludes such numbers.
* `tbtrace enable -d` leaves its filter for every later `enable`; nothing removes
  it.
* A verbose dump names the registers of a packet by the router that is there when
  it reads them first. If that router took the place of another one, or gives way
  to another one while the dump runs, it is not the router of the packet.
* A dump that cannot read the trace any further ends as if it were complete
  (trace.rs:1084).
* Two programs that change fields of one register overwrite each other: whole
  registers are written back as they were read (`undisturbed`).
* A value that is too wide for its field changes the fields above
  (debugfs.rs:570); `OthersKept` excepts the bits it reaches.
* `tbset` ends without an error when it finds no register, and with an error
  after a write that the second attempt of the `BufWriter` has completed.
* The tools panic on a router or an adapter whose registers cannot be read
  (debugfs.rs:1509 accesses the first one) and on a router that does not tell
  its number of adapters.
* `tbdump` prints an entry of no length for ever (drom.rs:522), and panics on an
  entry that is too long or too short for its kind, on a name that is not UTF-8,
  and with `-vv` on a ROM without entries; the hardware revision of a product
  descriptor is read from its eleventh byte (drom.rs:399). `PrintedOnce` and
  `EachToolEnds` except ROMs whose entries do not fit.
* `tbdump` with a register name counts the registers from there, but compares
  with an offset that is not relative to it (tbdump.rs:175), and takes an offset
  of `10` for decimal (tbdump.rs:60), where `tbget` and `tbset` take it for hex.
* An address of an adapter finds the last device of all (device.rs:920).
* `-A` of `tbauth` says it generates a key when the file does not exist
  (tbauth.rs:30); it always does, and truncates the file (tbauth.rs:93-109). When
  it fails half way the key the file held is lost: `KeyFileFits` speaks of an -A
  that has succeeded.

## Plan

Built, in this order: `TbmanDevices` with its proofs, `TbmanDialogs`,
`TbmanRegisters`, `CrosMux`, `Authorization`, `Margining`, `TunnelDiscovery`,
`Tracing`, `RegisterFields` with `Drom` and `RouterTools`, `DeviceView` and the
refinement, `AuthorizationKeys`.

Worth doing next, the most consequential first. The set of runs is kept small
enough to be checked in minutes; a new module takes the place of a run whose
question has been settled, or shares one with a module it composes.

1. The composition of `TbmanDevices` and `TbmanDialogs`, which share the list:
   the dialogs see each router as one item, although the list may have two.
2. An abstract discovery (the tunnels that are up), implemented by
   `TunnelDiscovery` when the kernel does nothing.

## Not modelled

Views, themes and printing hold no state a property is about. The register
metadata is data. `tblist` and `tbadapters` print what one enumeration returns,
and `tbmonitor` what the thread of `tbman` sends. The regular expressions that
take names, addresses and uevents apart, the CRCs and the fields of a packet of
the trace are functions of one string or one array of words, without state and
without steps: a model of them would repeat the code. The scripts are helpers
for test machines and no part of the library. `PROJECT.json` lists each
component with the reason, the hazards with the properties that cover them, and
the source lines every definition stands for.
