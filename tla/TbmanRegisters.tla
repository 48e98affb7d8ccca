--------------------------- MODULE TbmanRegisters ---------------------------
(***************************************************************************)
(* The register dialog of tbman: editing the configuration spaces of one   *)
(* router.                                                                 *)
(*                                                                         *)
(* A register is in three places: in the hardware, in the Device (router   *)
(* space) or its Adapter (the other spaces), where debugfs.rs keeps what   *)
(* it has read, and as a copy in the list of the dialog. The user edits    *)
(* the copy; update_register() finds "the matching hardware register" by   *)
(* the config space and the adapter that are chosen and by its offset;     *)
(* write_changed() writes what has been changed. Reading a space replaces  *)
(* the whole of it, and the list.                                          *)
(*                                                                         *)
(* One register stands for a space: all that happens to a space happens to *)
(* each of its registers, and the offsets of different spaces overlap.     *)
(***************************************************************************)
EXTENDS Integers, FiniteSets

CONSTANTS
    Adapters,       \* the adapters of the router
    AdapterSpaces,  \* their config spaces: "adapter", "path", "counters"
    Values,         \* the values of a register
    ReadMayFail,    \* whether a read may fail
    WriteMayFail    \* whether a write may fail

ASSUME SpacesAssumption ==
    /\ Adapters \subseteq Nat /\ Adapters # {}
    /\ AdapterSpaces \subseteq {"adapter", "path", "counters"}
    /\ "adapter" \in AdapterSpaces
    /\ ReadMayFail \in BOOLEAN /\ WriteMayFail \in BOOLEAN

Spaces == {"unknown", "router"} \union AdapterSpaces

RouterReg == [space |-> "router", adapter |-> -1]
AdapterRegs(a) == [space : AdapterSpaces, adapter : {a}]
Regs == {RouterReg} \union UNION {AdapterRegs(a) : a \in Adapters}

NoReg == [value |-> -1, changed |-> FALSE]
NoEdit == [value |-> -1, enabled |-> FALSE]
Cached == [value : Values, changed : BOOLEAN]

VARIABLES
    hw,       \* the hardware
    cache,    \* what Device and Adapter hold of each space, or NoReg
    space,    \* the config space that is chosen
    adapter,  \* the adapter that is chosen
    of,       \* the register the list shows
    copy,     \* its copy in the list, or NoReg when the list is empty
    edit,     \* the content of the detail dialog, or NoEdit
    entered,  \* the value the user has last entered for a register, or -1
    pending,  \* the registers with a new value entered, not written or read since
    written,  \* the registers that the last step has written
    saved     \* the registers that the last step was to write, if it worked

view == <<space, adapter, of, copy>>
history == <<entered, pending, written, saved>>
registersVars == <<hw, cache, view, edit, history>>

\* The register that space and adapter choose.
Chosen(s, a) == IF s = "router" THEN RouterReg ELSE [space |-> s, adapter |-> a]

Loaded(value) == [value |-> value, changed |-> FALSE]

\* Mutant: set_value() does not note the change.
SetValueSilent(reg, value) == [reg EXCEPT !.value = value]

\* Register::set_value().
SetValue(reg, value) ==
    IF reg.value = value THEN reg ELSE [value |-> value, changed |-> TRUE]

-----------------------------------------------------------------------------
(***************************************************************************)
(* read_registers(): the chosen space is read into the Device or Adapter,  *)
(* and its registers are cloned into the list. An error leaves everything  *)
(* but the choice as it was. A missing file of the adapter space, and the  *)
(* path and counter spaces of lane 1, fail silently.                       *)
(***************************************************************************)
ReadSpace(s, a, regs) ==
    /\ s # "unknown"
    /\ cache' = [cache EXCEPT ![Chosen(s, a)] = Loaded(regs[Chosen(s, a)])]
    /\ of' = Chosen(s, a) /\ copy' = cache'[of']

ReadNothing(s) ==
    /\ s = "unknown"
    /\ copy' = NoReg
    /\ UNCHANGED <<cache, of>>

ReadSkipped(s, a) ==
    /\ ReadMayFail /\ s \in AdapterSpaces
    /\ of' = Chosen(s, a) /\ copy' = cache[of']
    /\ UNCHANGED cache

ReadFails(s) ==
    /\ ReadMayFail /\ s # "unknown"
    /\ UNCHANGED <<cache, of, copy>>

Read(s, a, regs) ==
    ReadSpace(s, a, regs) \/ ReadNothing(s) \/ ReadSkipped(s, a) \/ ReadFails(s)

-----------------------------------------------------------------------------
(***************************************************************************)
(* Device::write_changed() and Adapter::write_changed(). The first writes  *)
(* the router space, the second all spaces of the adapter that have been   *)
(* read. The registers stay marked as changed.                             *)
(***************************************************************************)
Scope == IF space = "router" THEN {RouterReg} ELSE AdapterRegs(adapter)

\* Mutant: every register that was read is written.
ToWriteAll(regs) == {r \in regs : cache[r] # NoReg}

ToWrite(regs) == {r \in regs : cache[r].changed}

Write(regs) ==
    /\ written' = ToWrite(regs)
    /\ hw' = [r \in Regs |-> IF r \in ToWrite(regs) THEN cache[r].value ELSE hw[r]]

\* A value that is entered waits until it is written or read over.
Settle == pending' = {r \in pending \ written' : cache'[r] = cache[r]}

NoWrite == written' = {} /\ saved' = {}

NothingWritten == NoWrite /\ UNCHANGED hw

\* The spaces that are written before the one that fails, which may have been
\* written itself as far as its register goes: the kernel takes the lines of
\* the file one by one.
Order == [s \in {"adapter", "path", "counters"} |->
            CASE s = "adapter" -> 1 [] s = "path" -> 2 [] s = "counters" -> 3]

WrittenBefore(failed) ==
    {r \in Scope : failed # RouterReg /\ Order[r.space] < Order[failed.space]}

-----------------------------------------------------------------------------
(***************************************************************************)
(* The keys of the dialog and of the detail dialog on top of it.           *)
(***************************************************************************)
SelectSpace(s) ==
    /\ edit = NoEdit
    /\ space' = s
    /\ Read(s, adapter, hw)
    /\ NothingWritten /\ Settle
    /\ UNCHANGED <<adapter, edit, entered>>

SelectAdapter(a) ==
    /\ edit = NoEdit
    /\ space \in AdapterSpaces
    /\ adapter' = a
    /\ Read(space, a, hw)
    /\ NothingWritten /\ Settle
    /\ UNCHANGED <<space, edit, entered>>

ReadRegisters ==
    /\ edit = NoEdit
    /\ Read(space, adapter, hw)
    /\ NothingWritten /\ Settle
    /\ UNCHANGED <<space, adapter, edit, entered>>

\* F7: write_registers(); the space is read again when the write has worked.
WriteRegisters ==
    /\ edit = NoEdit
    /\ \/ /\ Write(Scope) /\ saved' = Scope
          /\ Read(space, adapter, hw')
       \/ /\ WriteMayFail
          /\ \E failed \in Scope :
                 /\ cache[failed] # NoReg
                 /\ \E partly \in SUBSET {failed} :
                        Write(WrittenBefore(failed) \union partly)
          /\ saved' = {}
          /\ UNCHANGED <<cache, of, copy>>
    /\ Settle
    /\ UNCHANGED <<space, adapter, edit, entered>>

\* Enter: view_register() shows the copy, with "Update" disabled.
ViewRegister ==
    /\ edit = NoEdit /\ copy # NoReg
    /\ edit' = [value |-> copy.value, enabled |-> FALSE]
    /\ NoWrite
    /\ UNCHANGED <<hw, cache, view, entered, pending>>

\* Mutant: "Update" is enabled whatever is typed.
EditRegisterInvalid(v) ==
    /\ edit # NoEdit
    /\ \E typed \in {v, -1} : edit' = [value |-> typed, enabled |-> TRUE]
    /\ NoWrite
    /\ UNCHANGED <<hw, cache, view, entered, pending>>

\* edit_register(): "Update" is enabled by a valid number only.
EditRegister(v) ==
    /\ edit # NoEdit
    /\ \/ edit' = [value |-> v, enabled |-> TRUE]
       \/ edit' = [edit EXCEPT !.enabled = FALSE]
    /\ NoWrite
    /\ UNCHANGED <<hw, cache, view, entered, pending>>

\* The user enters a value for the register on the screen; the one it has
\* already is none to write.
Enter(v) ==
    /\ entered' = [entered EXCEPT ![of] = v]
    /\ pending' = IF copy.value = v THEN pending ELSE pending \union {of}
    /\ NoWrite

\* "Update": update_register() updates the copy and the register that the
\* choices and the offset lead to now, if the space has been read.
UpdateRegister ==
    /\ edit.enabled
    /\ LET target == Chosen(space, adapter) IN
       \/ /\ cache[target] # NoReg
          /\ cache' = [cache EXCEPT ![target] = SetValue(@, edit.value)]
          /\ copy' = SetValue(copy, edit.value)
       \/ /\ cache[target] = NoReg
          /\ UNCHANGED <<cache, copy>>
    /\ Enter(edit.value)
    /\ edit' = NoEdit
    /\ UNCHANGED <<hw, space, adapter, of>>

CloseRegister ==
    /\ edit # NoEdit
    /\ edit' = NoEdit
    /\ NoWrite
    /\ UNCHANGED <<hw, cache, view, entered, pending>>

\* The hardware and the kernel driver change registers too.
HardwareChanges(r, v) ==
    /\ hw' = [hw EXCEPT ![r] = v]
    /\ NoWrite
    /\ UNCHANGED <<cache, view, edit, entered, pending>>

-----------------------------------------------------------------------------
\* build_registers(): read_adapters() has read the adapter space of every
\* adapter; no space is chosen, and the first adapter.
RegistersInit ==
    /\ hw \in [Regs -> Values]
    /\ cache = [r \in Regs |->
                  IF r.space \in {"router", "adapter"} THEN Loaded(hw[r]) ELSE NoReg]
    /\ space = "unknown"
    /\ adapter \in Adapters /\ \A a \in Adapters : adapter <= a
    /\ of = RouterReg /\ copy = NoReg
    /\ edit = NoEdit
    /\ entered = [r \in Regs |-> -1]
    /\ pending = {} /\ written = {} /\ saved = {}

RegistersNext ==
    \/ \E s \in Spaces : SelectSpace(s)
    \/ \E a \in Adapters : SelectAdapter(a)
    \/ ReadRegisters \/ WriteRegisters
    \/ ViewRegister \/ CloseRegister \/ UpdateRegister
    \/ \E v \in Values : EditRegister(v)
    \/ \E r \in Regs, v \in Values : HardwareChanges(r, v)

RegistersSpec == RegistersInit /\ [][RegistersNext]_registersVars

\* The careful user: edits only a list that shows the space chosen, which it
\* does not after a read that has failed.
Careful == edit' # edit => of = Chosen(space, adapter)

CarefulSpec == RegistersInit /\ [][RegistersNext /\ Careful]_registersVars

-----------------------------------------------------------------------------
(***************************************************************************)
(* Properties.                                                             *)
(***************************************************************************)
\* Every variable has its type.
RegistersTypeOK ==
    /\ hw \in [Regs -> Values]
    /\ cache \in [Regs -> Cached \union {NoReg}]
    /\ space \in Spaces /\ adapter \in Adapters
    /\ of \in Regs /\ copy \in Cached \union {NoReg}
    /\ edit \in [value : Values, enabled : BOOLEAN] \union {NoEdit}
    /\ entered \in [Regs -> Values \union {-1}]
    /\ pending \subseteq Regs /\ written \subseteq Regs /\ saved \subseteq Regs

\* The list shows what will be written: a copy in the list is the register that
\* the Device or Adapter holds, its mark as changed included.
CopyIsRegister == copy # NoReg => copy = cache[of]

\* F7 writes to a register only what the user has last entered for it, whatever
\* spaces and adapters have been looked at or edited since.
WritesAreEntered == \A r \in written : hw[r] = entered[r]

\* F7 forgets nothing: when it works, it has written each value the user has
\* entered for the space or the adapter that is chosen, though other spaces
\* were looked at and other writes failed half way in between.
EnteredGetsWritten == [][pending \intersect saved' \subseteq written']_registersVars
=============================================================================
