---------------------------- MODULE Tbman_proofs ----------------------------
(***************************************************************************)
(* Proofs about the dialogs of tbman, for any routers, adapters, config    *)
(* spaces and values: the stack of layers, and the register dialog in the  *)
(* hands of the careful user.                                              *)
(*                                                                         *)
(* What the register dialog writes is what was entered because the mark    *)
(* "changed" of a register never outlives the value it was set for: a      *)
(* register marked has the value entered last, and a value that waits is   *)
(* marked.                                                                 *)
(***************************************************************************)
EXTENDS TbmanDialogs, TbmanRegisters, SequenceTheorems, FiniteSetTheorems,
        WellFoundedInduction, TLAPS

-----------------------------------------------------------------------------
(***************************************************************************)
(* The register dialog.                                                    *)
(***************************************************************************)
\* The marks and the user's entries, and the detail dialog over the list.
ChangedIsEntered == \A r \in Regs : cache[r].changed => cache[r].value = entered[r]
PendingIsChanged == \A r \in pending : cache[r].changed
EditedIsListed   == edit # NoEdit => copy # NoReg

RegistersInv ==
    /\ RegistersTypeOK /\ CopyIsRegister /\ WritesAreEntered
    /\ ChangedIsEntered /\ PendingIsChanged /\ EditedIsListed

LEMMA ChosenIsReg ==
    /\ RouterReg \in Regs
    /\ \A a \in Adapters : AdapterRegs(a) \subseteq Regs
    /\ \A s \in Spaces \ {"unknown"}, a \in Adapters : Chosen(s, a) \in Regs
BY DEF Regs, AdapterRegs, Chosen, Spaces

LEMMA RegistersInvInit == RegistersInit => RegistersInv
<1>. SUFFICES ASSUME RegistersInit PROVE RegistersInv
    OBVIOUS
<1>1. cache \in [Regs -> Cached \union {NoReg}]
    BY DEF RegistersInit, Loaded, Cached
<1>2. \A r \in Regs : ~cache[r].changed
    BY DEF RegistersInit, Loaded, NoReg
<1>3. entered \in [Regs -> Values \union {-1}]
    BY DEF RegistersInit
<1>. QED BY <1>1, <1>2, <1>3, ChosenIsReg
         DEF RegistersInit, RegistersInv, RegistersTypeOK, CopyIsRegister, WritesAreEntered,
             ChangedIsEntered, PendingIsChanged, EditedIsListed, Spaces

-----------------------------------------------------------------------------
(***************************************************************************)
(* Reading a space.                                                        *)
(***************************************************************************)
LEMMA ReadProperties ==
    ASSUME RegistersTypeOK, CopyIsRegister, ChangedIsEntered,
           NEW s \in Spaces, NEW a \in Adapters, NEW regs \in [Regs -> Values],
           s = "unknown" \/ Chosen(s, a) \in Regs,
           Read(s, a, regs)
    PROVE  /\ cache' \in [Regs -> Cached \union {NoReg}]
           /\ of' \in Regs /\ copy' \in Cached \union {NoReg}
           /\ CopyIsRegister'
           /\ \A r \in Regs : cache'[r] # cache[r] => ~cache'[r].changed
<1>. USE DEF RegistersTypeOK, CopyIsRegister
<1>1. CASE ReadSpace(s, a, regs)
    <2>1. Loaded(regs[Chosen(s, a)]) \in Cached /\ ~Loaded(regs[Chosen(s, a)]).changed
        BY <1>1 DEF ReadSpace, Loaded, Cached
    <2>. QED BY <1>1, <2>1 DEF ReadSpace
<1>2. CASE ReadNothing(s)
    BY <1>2 DEF ReadNothing
<1>3. CASE ReadSkipped(s, a)
    <2>1. s # "unknown"
        BY <1>3, SpacesAssumption DEF ReadSkipped
    <2>. QED BY <1>3, <2>1 DEF ReadSkipped
<1>4. CASE ReadFails(s)
    BY <1>4 DEF ReadFails
<1>. QED BY <1>1, <1>2, <1>3, <1>4 DEF Read

\* After a step that reads, or leaves everything as it was, the marks are true.
LEMMA MarksKept ==
    ASSUME RegistersTypeOK, ChangedIsEntered, PendingIsChanged, Settle, UNCHANGED entered,
           \A r \in Regs : cache'[r] # cache[r] => ~cache'[r].changed
    PROVE  ChangedIsEntered' /\ PendingIsChanged' /\ pending' \subseteq Regs
BY DEF RegistersTypeOK, ChangedIsEntered, PendingIsChanged, Settle

\* What is written is what was entered.
LEMMA WriteProperties ==
    ASSUME RegistersTypeOK, ChangedIsEntered, NEW regs \in SUBSET Regs, Write(regs),
           UNCHANGED entered
    PROVE  /\ WritesAreEntered' /\ written' \subseteq Regs
           /\ hw' \in [Regs -> Values]
<1>1. \A r \in Regs : cache[r].changed => cache[r].value \in Values
    BY DEF RegistersTypeOK, Cached, NoReg
<1>2. hw' \in [Regs -> Values] /\ written' \subseteq Regs
    BY <1>1 DEF Write, ToWrite, RegistersTypeOK
<1>3. \A r \in written' : hw'[r] = entered'[r]
    BY DEF Write, ToWrite, RegistersTypeOK, ChangedIsEntered
<1>. QED BY <1>2, <1>3 DEF WritesAreEntered

LEMMA ScopeIsRegs == RegistersTypeOK => Scope \subseteq Regs
BY ChosenIsReg DEF RegistersTypeOK, Scope

-----------------------------------------------------------------------------
LEMMA RegistersInvStep == RegistersInv /\ [RegistersNext /\ Careful]_registersVars => RegistersInv'
<1>. SUFFICES ASSUME RegistersInv, [RegistersNext /\ Careful]_registersVars PROVE RegistersInv'
    OBVIOUS
<1>. USE DEF RegistersInv
<1>1. ASSUME NEW s \in Spaces, SelectSpace(s) PROVE RegistersInv'
    <2>1. Read(s, adapter, hw) /\ Settle /\ NothingWritten /\ edit = NoEdit
        BY <1>1 DEF SelectSpace
    <2>2. s = "unknown" \/ Chosen(s, adapter) \in Regs
        BY ChosenIsReg DEF RegistersTypeOK
    <2>3. /\ cache' \in [Regs -> Cached \union {NoReg}]
          /\ of' \in Regs /\ copy' \in Cached \union {NoReg}
          /\ CopyIsRegister'
          /\ \A r \in Regs : cache'[r] # cache[r] => ~cache'[r].changed
        BY <2>1, <2>2, ReadProperties DEF RegistersTypeOK
    <2>4. ChangedIsEntered' /\ PendingIsChanged' /\ pending' \subseteq Regs
        BY <1>1, <2>1, <2>3, MarksKept DEF SelectSpace
    <2>. QED BY <1>1, <2>1, <2>3, <2>4
             DEF SelectSpace, NothingWritten, NoWrite, RegistersTypeOK, WritesAreEntered,
                 EditedIsListed
<1>2. ASSUME NEW a \in Adapters, SelectAdapter(a) PROVE RegistersInv'
    <2>1. Read(space, a, hw) /\ Settle /\ NothingWritten /\ edit = NoEdit
        BY <1>2 DEF SelectAdapter
    <2>2. space = "unknown" \/ Chosen(space, a) \in Regs
        BY ChosenIsReg DEF RegistersTypeOK
    <2>3. /\ cache' \in [Regs -> Cached \union {NoReg}]
          /\ of' \in Regs /\ copy' \in Cached \union {NoReg}
          /\ CopyIsRegister'
          /\ \A r \in Regs : cache'[r] # cache[r] => ~cache'[r].changed
        BY <2>1, <2>2, ReadProperties DEF RegistersTypeOK
    <2>4. ChangedIsEntered' /\ PendingIsChanged' /\ pending' \subseteq Regs
        BY <1>2, <2>1, <2>3, MarksKept DEF SelectAdapter
    <2>. QED BY <1>2, <2>1, <2>3, <2>4
             DEF SelectAdapter, NothingWritten, NoWrite, RegistersTypeOK, WritesAreEntered,
                 EditedIsListed
<1>3. CASE ReadRegisters
    <2>1. Read(space, adapter, hw) /\ Settle /\ NothingWritten /\ edit = NoEdit
        BY <1>3 DEF ReadRegisters
    <2>2. space = "unknown" \/ Chosen(space, adapter) \in Regs
        BY ChosenIsReg DEF RegistersTypeOK
    <2>3. /\ cache' \in [Regs -> Cached \union {NoReg}]
          /\ of' \in Regs /\ copy' \in Cached \union {NoReg}
          /\ CopyIsRegister'
          /\ \A r \in Regs : cache'[r] # cache[r] => ~cache'[r].changed
        BY <2>1, <2>2, ReadProperties DEF RegistersTypeOK
    <2>4. ChangedIsEntered' /\ PendingIsChanged' /\ pending' \subseteq Regs
        BY <1>3, <2>1, <2>3, MarksKept DEF ReadRegisters
    <2>. QED BY <1>3, <2>1, <2>3, <2>4
             DEF ReadRegisters, NothingWritten, NoWrite, RegistersTypeOK, WritesAreEntered,
                 EditedIsListed
<1>4. CASE WriteRegisters
    <2>1. Settle /\ UNCHANGED <<space, adapter, edit, entered>> /\ edit = NoEdit
        BY <1>4 DEF WriteRegisters
    <2>2. PICK regs \in SUBSET Regs : Write(regs)
        <3>1. \A failed \in Scope : \A partly \in SUBSET {failed} :
                  WrittenBefore(failed) \union partly \in SUBSET Regs
            BY ScopeIsRegs DEF WrittenBefore
        <3>. QED BY <1>4, <3>1, ScopeIsRegs DEF WriteRegisters
    <2>3. WritesAreEntered' /\ written' \subseteq Regs /\ hw' \in [Regs -> Values]
        BY <2>1, <2>2, WriteProperties
    <2>4. saved' \subseteq Regs
        BY <1>4, ScopeIsRegs DEF WriteRegisters
    <2>5. /\ cache' \in [Regs -> Cached \union {NoReg}]
          /\ of' \in Regs /\ copy' \in Cached \union {NoReg}
          /\ CopyIsRegister'
          /\ \A r \in Regs : cache'[r] # cache[r] => ~cache'[r].changed
        <3>1. CASE Read(space, adapter, hw')
            <4>1. space = "unknown" \/ Chosen(space, adapter) \in Regs
                BY ChosenIsReg DEF RegistersTypeOK
            <4>. QED BY <2>3, <3>1, <4>1, ReadProperties DEF RegistersTypeOK
        <3>2. CASE UNCHANGED <<cache, of, copy>>
            BY <3>2 DEF RegistersTypeOK, CopyIsRegister
        <3>. QED BY <1>4, <3>1, <3>2 DEF WriteRegisters
    <2>6. ChangedIsEntered' /\ PendingIsChanged' /\ pending' \subseteq Regs
        BY <2>1, <2>5, MarksKept
    <2>. QED BY <2>1, <2>3, <2>4, <2>5, <2>6 DEF RegistersTypeOK, EditedIsListed
<1>5. CASE ViewRegister
    <2>1. edit' \in [value : Values, enabled : BOOLEAN]
        BY <1>5 DEF ViewRegister, RegistersTypeOK, Cached
    <2>. QED BY <1>5, <2>1
             DEF ViewRegister, view, NoWrite, RegistersTypeOK, CopyIsRegister, WritesAreEntered,
                 ChangedIsEntered, PendingIsChanged, EditedIsListed
<1>6. CASE CloseRegister
    BY <1>6
    DEF CloseRegister, view, NoWrite, RegistersTypeOK, CopyIsRegister, WritesAreEntered,
        ChangedIsEntered, PendingIsChanged, EditedIsListed
<1>7. ASSUME NEW v \in Values, EditRegister(v) PROVE RegistersInv'
    <2>1. edit' \in [value : Values, enabled : BOOLEAN]
        <3>1. CASE edit' = [value |-> v, enabled |-> TRUE]
            BY <3>1
        <3>2. CASE edit' = [edit EXCEPT !.enabled = FALSE]
            <4>1. edit \in [value : Values, enabled : BOOLEAN]
                BY <1>7 DEF EditRegister, RegistersTypeOK
            <4>. QED BY <3>2, <4>1
        <3>. QED BY <1>7, <3>1, <3>2 DEF EditRegister
    <2>. QED BY <1>7, <2>1
             DEF EditRegister, view, NoWrite, RegistersTypeOK, CopyIsRegister, WritesAreEntered,
                 ChangedIsEntered, PendingIsChanged, EditedIsListed
<1>8. CASE UpdateRegister /\ Careful
    <2>1. edit.enabled /\ edit # NoEdit /\ copy # NoReg
        BY <1>8 DEF UpdateRegister, NoEdit, EditedIsListed
    <2>2. edit.value \in Values
        BY <2>1 DEF RegistersTypeOK
    <2>3. of = Chosen(space, adapter)
        BY <1>8, <2>1 DEF UpdateRegister, Careful
    <2>4. copy = cache[of] /\ of \in Regs /\ cache[of] \in Cached
        BY <2>1 DEF CopyIsRegister, RegistersTypeOK
    <2>5. /\ cache' = [cache EXCEPT ![of] = SetValue(@, edit.value)]
          /\ copy' = cache'[of]
        BY <1>8, <2>1, <2>3, <2>4 DEF UpdateRegister, RegistersTypeOK
    <2>6. /\ SetValue(cache[of], edit.value) \in Cached
          /\ SetValue(cache[of], edit.value).value = edit.value
          /\ cache[of].value # edit.value \/ cache[of].changed
                 => SetValue(cache[of], edit.value).changed
        BY <2>2, <2>4 DEF SetValue, Cached
    <2>7. /\ entered' = [entered EXCEPT ![of] = edit.value]
          /\ pending' = IF copy.value = edit.value THEN pending ELSE pending \union {of}
          /\ written' = {} /\ saved' = {} /\ edit' = NoEdit
          /\ UNCHANGED <<hw, space, adapter, of>>
        BY <1>8 DEF UpdateRegister, Enter, NoWrite
    <2>8. cache' \in [Regs -> Cached \union {NoReg}] /\ copy' \in Cached
        BY <2>4, <2>5, <2>6 DEF RegistersTypeOK
    <2>9. RegistersTypeOK'
        BY <2>2, <2>4, <2>7, <2>8 DEF RegistersTypeOK
    <2>10. ChangedIsEntered'
        BY <2>4, <2>5, <2>6, <2>7 DEF ChangedIsEntered, RegistersTypeOK
    <2>11. PendingIsChanged'
        BY <2>4, <2>5, <2>6, <2>7 DEF PendingIsChanged, RegistersTypeOK
    <2>. QED BY <2>5, <2>7, <2>9, <2>10, <2>11
             DEF CopyIsRegister, WritesAreEntered, EditedIsListed
<1>9. ASSUME NEW r \in Regs, NEW v \in Values, HardwareChanges(r, v) PROVE RegistersInv'
    BY <1>9
    DEF HardwareChanges, view, NoWrite, RegistersTypeOK, CopyIsRegister, WritesAreEntered,
        ChangedIsEntered, PendingIsChanged, EditedIsListed
<1>10. CASE UNCHANGED registersVars
    BY <1>10
    DEF registersVars, view, history, RegistersTypeOK, CopyIsRegister, WritesAreEntered,
        ChangedIsEntered, PendingIsChanged, EditedIsListed
<1>. QED BY <1>1, <1>2, <1>3, <1>4, <1>5, <1>6, <1>7, <1>8, <1>9, <1>10 DEF RegistersNext

LEMMA RegistersInvariant == CarefulSpec => []RegistersInv
BY RegistersInvInit, RegistersInvStep, PTL DEF CarefulSpec

\* A step that was to write all of a space or an adapter has written what waits.
LEMMA NothingForgotten ==
    RegistersInv /\ [RegistersNext /\ Careful]_registersVars
        => [pending \intersect saved' \subseteq written']_registersVars
<1>. SUFFICES ASSUME RegistersInv, RegistersNext, NEW r \in pending, r \in saved'
              PROVE r \in written'
    OBVIOUS
<1>1. WriteRegisters
    BY DEF RegistersNext, SelectSpace, SelectAdapter, ReadRegisters, ViewRegister, CloseRegister,
           UpdateRegister, EditRegister, HardwareChanges, NothingWritten, NoWrite, Enter
<1>2. Write(Scope) /\ saved' = Scope
    BY <1>1 DEF WriteRegisters
<1>3. cache[r].changed
    BY DEF RegistersInv, PendingIsChanged
<1>. QED BY <1>2, <1>3 DEF Write, ToWrite

\* Every variable keeps its type, whatever is chosen, read, edited and written.
THEOREM RegistersTypeCorrect == CarefulSpec => []RegistersTypeOK
<1>1. RegistersInv => RegistersTypeOK
    BY DEF RegistersInv
<1>. QED BY <1>1, RegistersInvariant, PTL

\* The copy that update_register() keeps in the list is the register of the
\* Device or Adapter, though the two are found and changed separately.
THEOREM CopyIsTrue == CarefulSpec => []CopyIsRegister
<1>1. RegistersInv => CopyIsRegister
    BY DEF RegistersInv
<1>. QED BY <1>1, RegistersInvariant, PTL

\* write_changed() writes to a register what was last entered for it, and to no
\* register that nothing was entered for.
THEOREM OnlyEnteredIsWritten == CarefulSpec => []WritesAreEntered
<1>1. RegistersInv => WritesAreEntered
    BY DEF RegistersInv
<1>. QED BY <1>1, RegistersInvariant, PTL

\* A write_changed() that works has written every value that waits in its scope.
THEOREM AllEnteredIsWritten == CarefulSpec => EnteredGetsWritten
BY NothingForgotten, RegistersInvariant, PTL DEF CarefulSpec, EnteredGetsWritten

-----------------------------------------------------------------------------
(***************************************************************************)
(* The dialogs. The stack always has the main view at the bottom and       *)
(* nowhere else, since what close_dialog() looks for is never the main     *)
(* view. In the calm environment each dialog of a router is of the one     *)
(* that is selected, and there is one; the registers dialog is open only   *)
(* while the adapters of that router are held.                             *)
(***************************************************************************)
Layer == [kind : Kinds, of : Routers \union {None}]

StackOK(s) ==
    /\ s \in Seq(Layer) /\ s # <<>>
    /\ \A i \in DOMAIN s : s[i].kind = "main" <=> i = 1

SelectedThere == listed # {} => selected # None

\* A layer on top of the list, the selection and the adapters read.
Fits(l, list, sel, read) ==
    /\ l.kind \in DeviceDialogs => l.of = sel /\ sel # None
    /\ l.kind = "registers" => sel \in read
    /\ l.kind = "no_devices" => list = {}

\* A listed router that does not report all the code expects.
Excused == listed \intersect (Flawed \union gone) # {}

CalmOK ==
    calm => /\ status = "panic" => Excused
            /\ startup => listed = {}
            /\ \A i \in DOMAIN layers : Fits(layers[i], listed, selected, known)

DialogsInv == TypeOK /\ SelectedThere /\ CalmOK

LEMMA TypeStack == TypeOK <=> /\ listed \subseteq Routers /\ known \subseteq listed
                              /\ gone \subseteq listed
                              /\ selected \in listed \union {None}
                              /\ StackOK(layers) /\ startup \in BOOLEAN
                              /\ adding \subseteq Routers /\ failures \in Nat
                              /\ status \in {"running", "quit", "panic"} /\ calm \in BOOLEAN
  BY DEF TypeOK, StackOK, Layer

\* The ranks of routers have a highest and a lowest one.
LEMMA Extremes ==
    ASSUME NEW S, S \subseteq Nat, IsFiniteSet(S), S # {}
    PROVE  Max(S) \in S /\ Min(S) \in S
<1>1. ASSUME NEW T, T \subseteq SUBSET S, T # {}
      PROVE  \E x \in T : \A y \in T : ~(y \subseteq x /\ y # x)
  <2>1. IsWellFoundedOn(StrictSubsetOrdering(S), SUBSET S)
    BY FS_FiniteSubsetsOfFinite, FS_StrictSubsetOrderingWellFounded, Zenon
  <2>2. \E x \in T : \A y \in T : ~(<<y, x>> \in StrictSubsetOrdering(S))
    BY <1>1, <2>1, WFMin, Zenon
  <2>. QED BY <1>1, <2>2 DEF StrictSubsetOrdering
<1>2. \E m \in S : \A y \in S : m >= y
  <2> DEFINE Has(U) == \E m \in U : \A y \in U : m >= y
             T == {U \in SUBSET S : U # {} /\ ~Has(U)}
  <2>a. /\ T \subseteq SUBSET S
        /\ \A U \in T : U \subseteq S /\ U # {} /\ ~Has(U)
        /\ \A U \in SUBSET S : U # {} => U \in T \/ Has(U)
    OBVIOUS
  <2> HIDE DEF T
  <2>1. ASSUME T # {} PROVE FALSE
    <3>0. \E U \in T : \A V \in T : ~(V \subseteq U /\ V # U)
      BY ONLY <1>1, <2>1, <2>a
    <3>1. PICK U \in T : \A V \in T : ~(V \subseteq U /\ V # U)
      BY <3>0
    <3>2. U \subseteq S /\ U # {} /\ ~Has(U)
      BY <2>a
    <3>3. PICK x \in U : TRUE
      BY <3>2
    <3>4. CASE U \ {x} = {}
      <4>1. \A y \in U : y = x
        BY <3>4
      <4>2. x \in Nat
        BY <3>2, <3>3
      <4>. QED BY <3>2, <3>3, <4>1, <4>2
    <3>5. CASE U \ {x} # {}
      <4>1. U \ {x} \in SUBSET S /\ U \ {x} \subseteq U /\ U \ {x} # U
        BY <3>2, <3>3
      <4>2. Has(U \ {x})
        BY <2>a, <3>1, <3>5, <4>1
      <4>3. PICK m \in U \ {x} : \A y \in U \ {x} : m >= y
        BY <4>2
      <4>4. \A y \in U : y \in Nat
        BY <3>2
      <4>5. CASE m >= x
        BY <3>2, <4>3, <4>5
      <4>6. CASE ~(m >= x)
        <5>1. \A y \in U : x >= y
          BY <3>3, <4>3, <4>4, <4>6
        <5>. QED BY <3>2, <3>3, <5>1
      <4>. QED BY <4>5, <4>6
    <3>. QED BY <3>4, <3>5
  <2>2. S \notin T
    BY <2>1
  <2>. QED BY <2>2, <2>a
<1>3. \E m \in S : \A y \in S : m <= y
  <2> DEFINE Has(U) == \E m \in U : \A y \in U : m <= y
             T == {U \in SUBSET S : U # {} /\ ~Has(U)}
  <2>a. /\ T \subseteq SUBSET S
        /\ \A U \in T : U \subseteq S /\ U # {} /\ ~Has(U)
        /\ \A U \in SUBSET S : U # {} => U \in T \/ Has(U)
    OBVIOUS
  <2> HIDE DEF T
  <2>1. ASSUME T # {} PROVE FALSE
    <3>0. \E U \in T : \A V \in T : ~(V \subseteq U /\ V # U)
      BY ONLY <1>1, <2>1, <2>a
    <3>1. PICK U \in T : \A V \in T : ~(V \subseteq U /\ V # U)
      BY <3>0
    <3>2. U \subseteq S /\ U # {} /\ ~Has(U)
      BY <2>a
    <3>3. PICK x \in U : TRUE
      BY <3>2
    <3>4. CASE U \ {x} = {}
      <4>1. \A y \in U : y = x
        BY <3>4
      <4>2. x \in Nat
        BY <3>2, <3>3
      <4>. QED BY <3>2, <3>3, <4>1, <4>2
    <3>5. CASE U \ {x} # {}
      <4>1. U \ {x} \in SUBSET S /\ U \ {x} \subseteq U /\ U \ {x} # U
        BY <3>2, <3>3
      <4>2. Has(U \ {x})
        BY <2>a, <3>1, <3>5, <4>1
      <4>3. PICK m \in U \ {x} : \A y \in U \ {x} : m <= y
        BY <4>2
      <4>4. \A y \in U : y \in Nat
        BY <3>2
      <4>5. CASE m <= x
        BY <3>2, <4>3, <4>5
      <4>6. CASE ~(m <= x)
        <5>1. \A y \in U : x <= y
          BY <3>3, <4>3, <4>4, <4>6
        <5>. QED BY <3>2, <3>3, <5>1
      <4>. QED BY <4>5, <4>6
    <3>. QED BY <3>4, <3>5
  <2>2. S \notin T
    BY <2>1
  <2>. QED BY <2>2, <2>a
<1>. QED BY <1>2, <1>3 DEF Max, Min

LEMMA NeighbourListed ==
    ASSUME listed \subseteq Routers, NEW r
    PROVE  IF listed \ {r} = {} THEN Neighbour(r) = None ELSE Neighbour(r) \in listed \ {r}
<1> DEFINE others == listed \ {r}
           before == {s \in others : s < r}
<1>1. /\ others \subseteq Nat /\ before \subseteq others /\ before \subseteq Nat
      /\ IsFiniteSet(others) /\ IsFiniteSet(before)
  BY RoutersAssumption, FS_Subset
<1>2. before # {} => Max(before) \in before
  BY <1>1, Extremes
<1>3. others # {} => Min(others) \in others
  BY <1>1, Extremes
<1>4. Neighbour(r) = IF before # {} THEN Max(before)
                     ELSE IF others # {} THEN Min(others) ELSE None
  BY DEF Neighbour
<1>. QED BY <1>1, <1>2, <1>3, <1>4

-----------------------------------------------------------------------------
(***************************************************************************)
(* Stacks.                                                                 *)
(***************************************************************************)
LEMMA FrontStack ==
    ASSUME NEW s, StackOK(s), Len(s) >= 2
    PROVE  /\ StackOK(Front(s)) /\ Len(Front(s)) = Len(s) - 1
           /\ \A i \in DOMAIN Front(s) : i \in DOMAIN s /\ Front(s)[i] = s[i]
<1>1. s \in Seq(Layer) /\ Len(s) \in Nat /\ DOMAIN s = 1..Len(s)
  BY DEF StackOK
<1>2. Front(s) = SubSeq(s, 1, Len(s) - 1)
  BY DEF Front
<1>3. /\ Front(s) \in Seq(Layer) /\ Len(Front(s)) = Len(s) - 1
      /\ \A i \in 1..(Len(s) - 1) : Front(s)[i] = s[i]
  <2>1. \A i \in 1..(Len(s) - 1) : s[i] \in Layer
    BY <1>1, ElementOfSeq
  <2>2. /\ 1 \in Int /\ Len(s) - 1 \in Int /\ 1 <= Len(s) - 1 /\ (Len(s) - 1) - 1 + 1 = Len(s) - 1
        /\ \A i \in Int : 1 + i - 1 = i
    BY <1>1
  <2>3. /\ SubSeq(s, 1, Len(s) - 1) \in Seq(Layer) /\ Len(SubSeq(s, 1, Len(s) - 1)) = Len(s) - 1
        /\ \A i \in 1..(Len(s) - 1) : SubSeq(s, 1, Len(s) - 1)[i] = s[1 + i - 1]
    BY <2>1, <2>2, SubSeqProperties
  <2>. QED BY <1>1, <1>2, <2>2, <2>3
<1>4. DOMAIN Front(s) = 1..(Len(s) - 1)
  BY <1>3
<1>5. Front(s) # <<>>
  BY <1>1, <1>3
<1>. QED BY <1>1, <1>3, <1>4, <1>5 DEF StackOK

LEMMA AppendStack ==
    ASSUME NEW s, StackOK(s), NEW l \in Layer, l.kind # "main"
    PROVE  /\ StackOK(Append(s, l))
           /\ \A i \in DOMAIN Append(s, l) : \/ i \in DOMAIN s /\ Append(s, l)[i] = s[i]
                                             \/ Append(s, l)[i] = l
<1> DEFINE q == Append(s, l)
<1>1. s \in Seq(Layer) /\ Len(s) \in Nat /\ DOMAIN s = 1..Len(s) /\ Len(s) # 0
  BY DEF StackOK
<1>2. /\ q \in Seq(Layer) /\ Len(q) = Len(s) + 1
      /\ \A i \in 1..Len(s) : q[i] = s[i]
      /\ q[Len(s) + 1] = l
  BY <1>1, AppendProperties
<1> HIDE DEF q
<1>3. DOMAIN q = 1..(Len(s) + 1) /\ q # <<>>
  BY <1>1, <1>2
<1>4. \A i \in DOMAIN q : (i \in DOMAIN s /\ q[i] = s[i]) \/ (i = Len(s) + 1 /\ q[i] = l)
  BY <1>1, <1>2, <1>3
<1>5. \A i \in DOMAIN q : q[i].kind = "main" <=> i = 1
  BY <1>1, <1>4 DEF StackOK
<1>. QED BY <1>2, <1>3, <1>4, <1>5 DEF StackOK, q

\* close_dialog() removes a layer only when there is one above the main view.
LEMMA CloseStack ==
    ASSUME NEW s, StackOK(s), NEW kinds, "main" \notin kinds
    PROVE  /\ StackOK(CloseDialog(kinds, s))
           /\ \A i \in DOMAIN CloseDialog(kinds, s) :
                i \in DOMAIN s /\ CloseDialog(kinds, s)[i] = s[i]
           /\ Len(s) <= 2 => \A i \in DOMAIN CloseDialog(kinds, s) :
                               CloseDialog(kinds, s)[i].kind \notin kinds
<1>1. s \in Seq(Layer) /\ Len(s) \in Nat /\ DOMAIN s = 1..Len(s) /\ Len(s) # 0
  BY DEF StackOK
<1>2. CASE \E i \in DOMAIN s : s[i].kind \in kinds
  <2>1. Len(s) >= 2 /\ CloseDialog(kinds, s) = Front(s)
    BY <1>1, <1>2 DEF StackOK, CloseDialog
  <2>2. /\ StackOK(Front(s)) /\ Len(Front(s)) = Len(s) - 1
        /\ \A i \in DOMAIN Front(s) : i \in DOMAIN s /\ Front(s)[i] = s[i]
    BY <2>1, FrontStack
  <2>3. ASSUME Len(s) <= 2, NEW i \in DOMAIN Front(s) PROVE Front(s)[i].kind \notin kinds
    <3>1. Front(s) \in Seq(Layer) /\ Len(Front(s)) = 1
      BY <1>1, <2>1, <2>2, <2>3 DEF StackOK
    <3>2. i = 1
      BY <2>3, <3>1
    <3>3. Front(s)[i].kind = "main"
      BY <2>2, <2>3, <3>2 DEF StackOK
    <3>. QED BY <3>3
  <2>. QED BY <2>1, <2>2, <2>3
<1>3. CASE ~(\E i \in DOMAIN s : s[i].kind \in kinds)
  <2>1. CloseDialog(kinds, s) = s
    BY <1>3 DEF CloseDialog
  <2>. QED BY <1>3, <2>1
<1>. QED BY <1>2, <1>3

-----------------------------------------------------------------------------
(***************************************************************************)
(* Steps that leave the list and the selection alone.                      *)
(***************************************************************************)
\* After the step the stack is one, and a layer that is new fits.
LayersFit ==
    /\ StackOK(layers')
    /\ \A i \in DOMAIN layers' :
         \/ i \in DOMAIN layers /\ layers'[i] = layers[i]
         \/ calm => Fits(layers'[i], listed, selected, known')

LEMMA SteadyStep ==
    ASSUME DialogsInv, calm' = (calm /\ Calm), UNCHANGED <<listed, selected>>, LayersFit,
           known' \subseteq listed, startup' \in BOOLEAN, startup' => startup,
           adding' \subseteq Routers, failures' \in Nat,
           status' \in {"running", "quit", "panic"}, calm /\ status' = "panic" => Excused,
           gone' = gone \intersect listed'
    PROVE  DialogsInv'
<1>1. TypeOK'
  <2>1. TypeOK /\ StackOK(layers)'
    BY DEF DialogsInv, LayersFit, StackOK
  <2>2. calm' \in BOOLEAN
    BY <2>1 DEF Calm
  <2>3. /\ listed' \subseteq Routers /\ known' \subseteq listed' /\ gone' \subseteq listed'
        /\ selected' \in listed' \union {None}
    BY <2>1 DEF TypeOK
  <2>. QED BY <2>1, <2>2, <2>3 DEF TypeOK, StackOK, Layer
<1>2. SelectedThere'
  BY DEF DialogsInv, SelectedThere
<1>3. ASSUME calm' PROVE CalmOK'
  <2>1. calm /\ known \subseteq known'
    BY <1>3 DEF Calm
  <2>0. gone' = gone
    BY DEF DialogsInv, TypeOK
  <2>2. /\ status' = "panic" => Excused'
        /\ startup' => listed' = {}
        /\ \A i \in DOMAIN layers : Fits(layers[i], listed, selected, known)
    BY <2>0, <2>1 DEF DialogsInv, CalmOK, Excused
  <2>3. ASSUME NEW i \in DOMAIN layers' PROVE Fits(layers'[i], listed', selected', known')
    <3>1. CASE i \in DOMAIN layers /\ layers'[i] = layers[i]
      BY <2>1, <2>2, <3>1 DEF Fits
    <3>2. CASE Fits(layers'[i], listed, selected, known')
      BY <3>2
    <3>. QED BY <2>1, <2>3, <3>1, <3>2 DEF LayersFit
  <2>. QED BY <2>2, <2>3 DEF CalmOK, Fits, Excused
<1>4. CalmOK'
  BY <1>3 DEF CalmOK
<1>. QED BY <1>1, <1>2, <1>4 DEF DialogsInv

LEMMA FitSame ==
    ASSUME DialogsInv, UNCHANGED layers
    PROVE  LayersFit
  BY TypeStack DEF DialogsInv, LayersFit

LEMMA FitPush ==
    ASSUME DialogsInv, NEW l \in Layer, l.kind # "main",
           calm => Fits(l, listed, selected, known'), layers' = Append(layers, l)
    PROVE  LayersFit
<1>1. StackOK(layers)
  BY TypeStack DEF DialogsInv
<1>. QED BY <1>1, AppendStack DEF LayersFit

\* Layers that show no router fit anywhere.
Plain == Kinds \ (DeviceDialogs \union {"main", "no_devices"})

LEMMA PlainFits ==
    /\ {"help", "detail", "prompt", "info"} \union LogDialogs \subseteq Plain
    /\ \A k \in Plain : \A o \in Routers \union {None} :
         /\ [kind |-> k, of |-> o] \in Layer /\ k # "main"
         /\ \A list, sel, read : Fits([kind |-> k, of |-> o], list, sel, read)
<1>1. {"help", "detail", "prompt", "info"} \union LogDialogs \subseteq Plain
  BY DEF Plain, Kinds, DeviceDialogs, LogDialogs
<1>2. ASSUME NEW k \in Plain, NEW o \in Routers \union {None}, NEW list, NEW sel, NEW read
      PROVE  /\ [kind |-> k, of |-> o] \in Layer /\ k # "main"
             /\ Fits([kind |-> k, of |-> o], list, sel, read)
  BY DEF Plain, Layer, Fits, DeviceDialogs
<1>. QED BY <1>1, <1>2

LEMMA SelectedType == DialogsInv => selected \in Routers \union {None}
  BY DEF DialogsInv, TypeOK

LEMMA FitMessage ==
    ASSUME DialogsInv, Message
    PROVE  LayersFit
<1> DEFINE l == [kind |-> "info", of |-> None]
<1>1. /\ l \in Layer /\ l.kind # "main" /\ Fits(l, listed, selected, known')
      /\ layers' = Append(layers, l)
  BY PlainFits DEF Message
<1> HIDE DEF l
<1>. QED BY <1>1, FitPush

LEMMA FitPlain ==
    ASSUME DialogsInv, NEW k \in Plain, Open(k)
    PROVE  LayersFit
<1> DEFINE l == [kind |-> k, of |-> selected]
<1>1. /\ l \in Layer /\ l.kind # "main" /\ Fits(l, listed, selected, known')
      /\ layers' = Append(layers, l)
  BY PlainFits, SelectedType DEF Open, Opened
<1> HIDE DEF l
<1>. QED BY <1>1, FitPush

\* The dialog of the selected router.
LEMMA FitDevice ==
    ASSUME DialogsInv, NEW k \in DeviceDialogs, layers' = Opened(k), listed # {},
           k = "registers" => selected \in known'
    PROVE  LayersFit
<1> DEFINE l == [kind |-> k, of |-> selected]
<1>1. k \in Kinds /\ k # "main" /\ k # "no_devices" /\ selected # None
  BY DEF Kinds, DeviceDialogs, DialogsInv, SelectedThere
<1>2. /\ l \in Layer /\ l.kind # "main" /\ Fits(l, listed, selected, known')
      /\ layers' = Append(layers, l)
  BY <1>1, SelectedType DEF Opened, Layer, Fits
<1> HIDE DEF l
<1>. QED BY <1>2, FitPush

LEMMA TopIs ==
    ASSUME DialogsInv
    PROVE  /\ Len(layers) \in Nat /\ Len(layers) # 0 /\ Len(layers) \in DOMAIN layers
           /\ DOMAIN layers = 1..Len(layers)
           /\ Top = layers[Len(layers)].kind
           /\ Top = "main" <=> Len(layers) = 1
<1>1. StackOK(layers)
  BY TypeStack DEF DialogsInv
<1>2. /\ Len(layers) \in Nat /\ Len(layers) # 0 /\ DOMAIN layers = 1..Len(layers)
  BY <1>1 DEF StackOK
<1>3. Top = layers[Len(layers)].kind /\ Len(layers) \in DOMAIN layers
  BY <1>2 DEF Top, Last
<1>. QED BY <1>1, <1>2, <1>3 DEF StackOK

\* The topmost layer is closed.
LEMMA FitFront ==
    ASSUME DialogsInv, layers' = Front(layers), Top # "main"
    PROVE  LayersFit
<1>1. StackOK(layers) /\ Len(layers) >= 2
  BY TypeStack, TopIs DEF DialogsInv
<1>. QED BY <1>1, FrontStack DEF LayersFit

LEMMA FitClose ==
    ASSUME DialogsInv,
           layers' = CloseDialog({"no_devices"}, layers) \/ layers' = CloseAnyDialog(layers)
    PROVE  LayersFit
<1>1. /\ StackOK(layers) /\ "main" \notin {"no_devices"}
      /\ "main" \notin DeviceDialogs \union {"no_devices"}
  BY TypeStack DEF DialogsInv, DeviceDialogs
<1>. QED BY <1>1, CloseStack DEF LayersFit, CloseAnyDialog

\* A panic of the calm environment: a listed router is not all there.
LEMMA PanicStep ==
    ASSUME DialogsInv, Panic, calm => Excused, gone' = gone \intersect listed',
           calm' = (calm /\ Calm)
    PROVE  DialogsInv'
<1>1. /\ UNCHANGED <<listed, selected, known, layers, startup, adding, failures>>
      /\ status' = "panic" /\ TypeOK
  BY DEF Panic, listVars, queueVars, DialogsInv
<1>2. LayersFit
  BY <1>1, FitSame
<1>. QED BY <1>1, <1>2, SteadyStep DEF TypeOK

LEMMA ReadStep ==
    ASSUME DialogsInv, NEW r \in listed \union {None}, ReadPanics(r),
           gone' = gone \intersect listed', calm' = (calm /\ Calm)
    PROVE  DialogsInv'
<1>1. None \notin Flawed \union gone
  BY FlawedAssumption, RoutersAssumption DEF DialogsInv, TypeOK, None
<1>2. Excused /\ Panic
  BY <1>1 DEF ReadPanics, Excused
<1>. QED BY <1>2, PanicStep

\* What the callbacks and F5 read of the selected router.
LEMMA ViewsInv ==
    ASSUME DialogsInv, NEW kinds, NEW has, has \subseteq known, UpdateViews(kinds, has),
           status = "running", gone' = gone \intersect listed', calm' = (calm /\ Calm)
    PROVE  DialogsInv'
<1>0. TypeOK /\ selected \in listed \union {None}
  BY DEF DialogsInv, TypeOK
<1>1. CASE ReadPanics(selected)
  BY <1>0, <1>1, ReadStep
<1>2. CASE ~ReadPanics(selected)
  <2>1. /\ UNCHANGED <<listed, selected, layers, startup, adding, status>>
        /\ \/ known' = has
           \/ selected # None /\ known' = has \union {selected}
        /\ failures' \in {failures, failures + 1}
    BY <1>2 DEF UpdateViews, QueueFailure
  <2>2. known' \subseteq listed /\ failures' \in Nat
    BY <1>0, <2>1 DEF TypeOK
  <2>3. LayersFit
    BY <2>1, FitSame
  <2>. QED BY <1>0, <2>1, <2>2, <2>3, SteadyStep DEF TypeOK
<1>. QED BY <1>1, <1>2

-----------------------------------------------------------------------------
(***************************************************************************)
(* Routers that come and go.                                               *)
(***************************************************************************)
LEMMA AddInv ==
    ASSUME DialogsInv, NEW r \in Routers, r \notin listed, AddDevice(r),
           UNCHANGED <<startup, failures, status>>, adding' \subseteq Routers,
           status = "running", gone' = gone \intersect listed', calm' = (calm /\ Calm)
    PROVE  DialogsInv'
<1>1. /\ listed' = listed \union {r} /\ known' = known \ {r}
      /\ selected' = IF selected = None THEN r ELSE selected
      /\ layers' = CloseDialog({"no_devices"}, layers)
  BY DEF AddDevice
<1>2. /\ TypeOK /\ StackOK(layers) /\ r # None /\ r \in Nat
      /\ "main" \notin {"no_devices"}
  BY TypeStack, RoutersAssumption DEF DialogsInv, None
<1>3. /\ StackOK(layers')
      /\ \A i \in DOMAIN layers' : i \in DOMAIN layers /\ layers'[i] = layers[i]
      /\ Len(layers) <= 2 => \A i \in DOMAIN layers' : layers'[i].kind \notin {"no_devices"}
  BY <1>1, <1>2, CloseStack
<1>4. TypeOK'
  <2>1. /\ listed' \subseteq Routers /\ known' \subseteq listed' /\ gone' \subseteq listed'
        /\ selected' \in listed' \union {None}
    BY <1>1, <1>2 DEF TypeOK
  <2>2. calm' \in BOOLEAN
    BY <1>2 DEF TypeOK, Calm
  <2>. QED BY <1>2, <1>3, <2>1, <2>2 DEF TypeOK, StackOK, Layer
<1>5. SelectedThere'
  BY <1>1, <1>2 DEF SelectedThere
<1>6. ASSUME calm' PROVE CalmOK'
  <2>1. calm /\ Len(layers) <= 2 /\ ~startup
    <3>1. listed' # listed
      BY <1>1
    <3>. QED BY <1>6, <3>1 DEF Calm
  <2>2. /\ status' # "panic" /\ ~startup'
        /\ \A i \in DOMAIN layers : Fits(layers[i], listed, selected, known)
    BY <2>1 DEF DialogsInv, CalmOK
  <2>3. ASSUME NEW i \in DOMAIN layers' PROVE Fits(layers'[i], listed', selected', known')
    <3>1. Fits(layers'[i], listed, selected, known) /\ layers'[i].kind # "no_devices"
      BY <1>3, <2>1, <2>2
    <3>2. selected # None => selected' = selected /\ selected # r
      BY <1>1, <1>2 DEF TypeOK
    <3>3. layers'[i].kind = "registers" => layers'[i].kind \in DeviceDialogs
      BY DEF DeviceDialogs
    <3>. QED BY <1>1, <3>1, <3>2, <3>3 DEF Fits
  <2>. QED BY <2>2, <2>3 DEF CalmOK, Fits
<1>7. CalmOK'
  BY <1>6 DEF CalmOK
<1>. QED BY <1>4, <1>5, <1>7 DEF DialogsInv

LEMMA RemoveInv ==
    ASSUME DialogsInv, NEW r \in Routers, HandleRemove(r), gone' = gone \intersect listed',
           calm' = (calm /\ Calm)
    PROVE  DialogsInv'
<1> DEFINE any == DeviceDialogs \union {"no_devices"}
           rest == IF selected = r THEN CloseDialog(any, layers) ELSE layers
<1>1. /\ listed' = listed \ {r} /\ known' = known \ {r}
      /\ selected' = IF selected = r THEN Neighbour(r) ELSE selected
      /\ layers' = rest \/ layers' = CloseDialog(any, rest)
      /\ UNCHANGED <<startup, adding, failures, status>> /\ status = "running"
  BY DEF HandleRemove, RemoveDevice, CloseAnyDialog, queueVars
<1>2. TypeOK /\ StackOK(layers) /\ "main" \notin any /\ r # None
  BY TypeStack, RoutersAssumption DEF DialogsInv, DeviceDialogs, None
<1> HIDE DEF any
<1>3. /\ StackOK(rest)
      /\ \A i \in DOMAIN rest : i \in DOMAIN layers /\ rest[i] = layers[i]
      /\ selected = r /\ Len(layers) <= 2 => \A i \in DOMAIN rest : rest[i].kind \notin any
  BY <1>2, CloseStack
<1> HIDE DEF rest
<1>4. /\ StackOK(layers')
      /\ \A i \in DOMAIN layers' : i \in DOMAIN rest /\ layers'[i] = rest[i]
  <2>1. CASE layers' = rest
    BY <1>3, <2>1
  <2>2. CASE layers' = CloseDialog(any, rest)
    BY <1>2, <1>3, <2>2, CloseStack
  <2>. QED BY <1>1, <2>1, <2>2
<1>5. CASE r \notin listed
  <2>1. UNCHANGED <<listed, selected, known>>
    BY <1>1, <1>2, <1>5 DEF TypeOK
  <2>2. LayersFit
    BY <1>3, <1>4 DEF LayersFit
  <2>3. /\ known' \subseteq listed /\ startup' \in BOOLEAN /\ adding' \subseteq Routers
        /\ failures' \in Nat /\ status' \in {"running", "quit", "panic"}
        /\ status' # "panic"
    BY <1>1, <1>2, <2>1 DEF TypeOK, HandleRemove
  <2>. QED BY <1>1, <2>1, <2>2, <2>3, SteadyStep
<1>6. CASE r \in listed
  <2>1. /\ selected' \in listed' \union {None}
        /\ listed' # {} => selected' # None
    <3>1. CASE selected = r
      BY <1>1, <1>2, <3>1, NeighbourListed, RoutersAssumption DEF TypeOK, None
    <3>2. CASE selected # r
      BY <1>1, <1>2, <1>6, <3>2 DEF TypeOK, DialogsInv, SelectedThere
    <3>. QED BY <3>1, <3>2
  <2>2. TypeOK'
    <3>1. /\ listed' \subseteq Routers /\ known' \subseteq listed' /\ gone' \subseteq listed'
          /\ calm' \in BOOLEAN
      BY <1>1, <1>2 DEF TypeOK, Calm
    <3>. QED BY <1>1, <1>2, <1>4, <2>1, <3>1 DEF TypeOK, StackOK, Layer
  <2>3. ASSUME calm' PROVE CalmOK'
    <3>1. calm /\ Len(layers) <= 2 /\ ~startup
      <4>1. listed' # listed
        BY <1>1, <1>6
      <4>. QED BY <2>3, <4>1 DEF Calm
    <3>2. /\ status' # "panic" /\ ~startup'
          /\ \A i \in DOMAIN layers : Fits(layers[i], listed, selected, known)
      BY <1>1, <3>1 DEF DialogsInv, CalmOK
    <3>3. ASSUME NEW i \in DOMAIN layers' PROVE Fits(layers'[i], listed', selected', known')
      <4>1. layers'[i] = rest[i] /\ i \in DOMAIN rest /\ layers'[i] = layers[i]
            /\ Fits(layers'[i], listed, selected, known)
        BY <1>3, <1>4, <3>2, <3>3
      <4>2. CASE selected = r
        <5>1. layers'[i].kind \notin any
          BY <1>3, <3>1, <4>1, <4>2
        <5>. QED BY <5>1 DEF Fits, any, DeviceDialogs
      <4>3. CASE selected # r
        <5>1. layers'[i].kind # "no_devices"
          BY <1>6, <4>1 DEF Fits
        <5>. QED BY <1>1, <4>1, <4>3, <5>1 DEF Fits
      <4>. QED BY <4>2, <4>3
    <3>. QED BY <3>2, <3>3 DEF CalmOK, Fits
  <2>4. CalmOK'
    BY <2>3 DEF CalmOK
  <2>. QED BY <2>1, <2>2, <2>4 DEF DialogsInv, SelectedThere
<1>. QED BY <1>5, <1>6

\* Steps on the main view alone: nothing lies on top of it.
LEMMA MainInv ==
    ASSUME DialogsInv, Running({"main"}), UNCHANGED layers,
           listed' \subseteq Routers, known' \subseteq listed',
           selected' \in listed' \union {None}, listed' # {} => selected' # None,
           adding' \subseteq Routers, failures' \in Nat, UNCHANGED <<startup, status>>,
           listed' = listed \/ listed' = {}, gone' = gone \intersect listed',
           calm' = (calm /\ Calm)
    PROVE  DialogsInv'
<1>1. TypeOK /\ Len(layers) = 1 /\ DOMAIN layers = {1} /\ layers[1].kind = "main"
  BY TopIs DEF DialogsInv, Running
<1>2. TypeOK'
  BY <1>1 DEF TypeOK, Calm
<1>3. SelectedThere'
  BY DEF SelectedThere
<1>4. CalmOK'
  <2>1. ASSUME calm' PROVE CalmOK'
    <3>1. calm /\ status' # "panic" /\ (startup' => listed' = {})
      BY <2>1 DEF DialogsInv, CalmOK, Running
    <3>2. \A i \in DOMAIN layers' : Fits(layers'[i], listed', selected', known')
      BY <1>1 DEF Fits, DeviceDialogs
    <3>. QED BY <3>1, <3>2 DEF CalmOK, Fits
  <2>. QED BY <2>1 DEF CalmOK
<1>. QED BY <1>2, <1>3, <1>4 DEF DialogsInv

LEMMA CallbackInv ==
    ASSUME DialogsInv, Callback, gone' = gone \intersect listed', calm' = (calm /\ Calm)
    PROVE  DialogsInv'
<1>0. TypeOK
  BY DEF DialogsInv
<1>1. CASE ShowNoDevices
  <2> DEFINE l == [kind |-> "no_devices", of |-> None]
  <2>1. /\ layers' = Append(layers, l) /\ startup /\ startup' = FALSE
        /\ UNCHANGED <<listVars, adding, failures, status>> /\ status = "running"
    BY <1>1 DEF ShowNoDevices
  <2>2. /\ l \in Layer /\ l.kind # "main"
        /\ calm => Fits(l, listed, selected, known')
    BY <2>1 DEF Layer, Kinds, Fits, DeviceDialogs, DialogsInv, CalmOK
  <2> HIDE DEF l
  <2>3. LayersFit
    BY <2>1, <2>2, FitPush
  <2>. QED BY <1>0, <2>1, <2>3, SteadyStep DEF TypeOK, listVars
<1>2. CASE ShowFailure
  <2>1. LayersFit /\ status = "running"
    BY <1>2, FitMessage DEF ShowFailure
  <2>2. /\ UNCHANGED <<listed, selected, known, startup, adding, status>>
        /\ failures' \in Nat
    BY <1>0, <1>2 DEF ShowFailure, listVars, TypeOK
  <2>. QED BY <1>0, <2>1, <2>2, SteadyStep DEF TypeOK
<1>3. ASSUME NEW r \in Routers, HandleAdd(r) PROVE DialogsInv'
  BY <1>0, <1>3, AddInv DEF HandleAdd, queueVars, TypeOK
<1>4. ASSUME NEW r \in Routers, HandleRemove(r) PROVE DialogsInv'
  BY <1>4, RemoveInv
<1>5. ASSUME NEW r \in Routers, RefreshAdd(r) PROVE DialogsInv'
  <2>1. adding' \subseteq Routers /\ UNCHANGED <<startup, failures, status>> /\ status = "running"
    BY <1>0, <1>5 DEF RefreshAdd, TypeOK
  <2>2. CASE r \notin listed /\ AddDevice(r)
    BY <2>1, <2>2, AddInv
  <2>3. CASE UNCHANGED listVars /\ layers' = CloseDialog({"no_devices"}, layers)
    <3>1. LayersFit
      BY <2>3, FitClose
    <3>. QED BY <1>0, <2>1, <2>3, <3>1, SteadyStep DEF TypeOK, listVars
  <2>. QED BY <1>5, <2>2, <2>3 DEF RefreshAdd
<1>6. ASSUME NEW r \in Changing \union {None}, HandleChange(r) PROVE DialogsInv'
  <2>1. status = "running" /\ UpdateViews({"adapters", "paths"}, known \ {r})
    BY <1>6 DEF HandleChange, Change
  <2>. QED BY <2>1, ViewsInv
<1>. QED BY <1>1, <1>2, <1>3, <1>4, <1>5, <1>6 DEF Callback

-----------------------------------------------------------------------------
(***************************************************************************)
(* Keys.                                                                   *)
(***************************************************************************)
LEMMA KeyStep ==
    ASSUME DialogsInv, gone' = gone \intersect listed', calm' = (calm /\ Calm),
           UNCHANGED <<listed, selected, startup, adding>>,
           LayersFit, known' \subseteq listed, failures' \in Nat,
           status = "running", status' \in {"running", "quit"}
    PROVE  DialogsInv'
<1>1. startup' \in BOOLEAN /\ adding' \subseteq Routers
  BY DEF DialogsInv, TypeOK
<1>. QED BY <1>1, SteadyStep

\* What a dialog of a router, wherever it is, finds in the calm environment.
LEMMA CalmDialog ==
    ASSUME DialogsInv, calm, NEW i \in DOMAIN layers, layers[i].kind \in DeviceDialogs
    PROVE  /\ layers[i].of = selected /\ selected # None
           /\ layers[i].kind = "registers" => selected \in known
  BY DEF DialogsInv, CalmOK, Fits

LEMMA CalmRegisters ==
    ASSUME DialogsInv, NEW i \in DOMAIN layers, layers[i].kind = "registers",
           selected = None \/ AdapterMissing(layers[i])
    PROVE  ~calm
<1>1. "registers" \in DeviceDialogs
  BY DEF DeviceDialogs
<1>. QED BY <1>1, CalmDialog DEF AdapterMissing

LEMMA OpeningInv ==
    ASSUME DialogsInv, gone' = gone \intersect listed', calm' = (calm /\ Calm),
           BuildAdaptersOrPaths \/ BuildRegistersOrDrom \/ BuildTmu
    PROVE  DialogsInv'
<1>0. CASE ReadPanics(selected)
  BY <1>0, ReadStep DEF DialogsInv, TypeOK
<1>. SUFFICES ASSUME ~ReadPanics(selected) PROVE DialogsInv'
  BY <1>0
<1>1. /\ TypeOK /\ listed # {} /\ selected \in listed /\ selected # None
      /\ status = "running" /\ UNCHANGED <<listed, selected, startup, adding, status>>
  BY DEF DialogsInv, TypeOK, SelectedThere, BuildAdaptersOrPaths, BuildRegistersOrDrom, BuildTmu,
         Running, queueVars
<1>2. known' \subseteq listed
  <2>1. known' = known \/ known' = known \union {selected}
    BY DEF BuildAdaptersOrPaths, BuildRegistersOrDrom, BuildTmu
  <2>. QED BY <1>1, <2>1 DEF TypeOK
<1>3. failures' \in Nat
  BY <1>1 DEF TypeOK, BuildAdaptersOrPaths, BuildRegistersOrDrom, BuildTmu, QueueFailure, queueVars
<1>4. LayersFit
  <2>1. CASE BuildAdaptersOrPaths
    <3>1. PICK k \in {"adapters", "paths"} : layers' = Opened(k)
      BY <2>1 DEF BuildAdaptersOrPaths, Open
    <3>. QED BY <1>1, <3>1, FitDevice DEF DeviceDialogs
  <2>2. CASE BuildRegistersOrDrom
    <3>1. CASE Message
      BY <3>1, FitMessage
    <3>2. CASE (\E k \in {"registers", "drom"} : Open(k)) /\ known' = known \union {selected}
      <4>1. PICK k \in {"registers", "drom"} : layers' = Opened(k)
        BY <3>2 DEF Open
      <4>. QED BY <1>1, <3>2, <4>1, FitDevice DEF DeviceDialogs
    <3>. QED BY <2>2, <3>1, <3>2 DEF BuildRegistersOrDrom
  <2>3. CASE BuildTmu
    <3> DEFINE t == [kind |-> "tmu", of |-> selected]
               m == [kind |-> "info", of |-> None]
    <3>1. /\ t \in Layer /\ t.kind # "main" /\ Fits(t, listed, selected, known')
          /\ m \in Layer /\ m.kind # "main" /\ Fits(m, listed, selected, known')
      <4>1. t \in Layer /\ t.kind # "main" /\ Fits(t, listed, selected, known')
        BY <1>1, SelectedType DEF Layer, Kinds, DeviceDialogs, Fits
      <4>. QED BY <4>1, PlainFits
    <3>2. layers' = Append(layers, t) \/ layers' = Append(Append(layers, t), m)
      BY <2>3 DEF BuildTmu, Opened
    <3> HIDE DEF t, m
    <3>3. StackOK(layers)
      BY TypeStack DEF DialogsInv
    <3> DEFINE s == Append(layers, t)
    <3>4. /\ StackOK(s)
          /\ \A i \in DOMAIN s : (i \in DOMAIN layers /\ s[i] = layers[i]) \/ s[i] = t
      BY <3>1, <3>3, AppendStack
    <3>5. CASE layers' = s
      BY <3>1, <3>4, <3>5 DEF LayersFit
    <3>6. CASE layers' = Append(s, m)
      <4> HIDE DEF s
      <4>1. /\ StackOK(Append(s, m))
            /\ \A i \in DOMAIN Append(s, m) :
                 (i \in DOMAIN s /\ Append(s, m)[i] = s[i]) \/ Append(s, m)[i] = m
        BY <3>1, <3>4, AppendStack
      <4>. QED BY <3>1, <3>4, <3>6, <4>1 DEF LayersFit
    <3>. QED BY <3>2, <3>5, <3>6
  <2>. QED BY <2>1, <2>2, <2>3
<1>. QED BY <1>1, <1>2, <1>3, <1>4, KeyStep

LEMMA WritingInv ==
    ASSUME DialogsInv, gone' = gone \intersect listed', calm' = (calm /\ Calm),
           ReadTmu \/ ReadSelectedRegisters \/ WriteSelectedRegisters \/ UpdateSelectedRegister
    PROVE  DialogsInv'
<1>1. TypeOK /\ StackOK(layers)
  BY TypeStack DEF DialogsInv
<1>0. CASE ReadPanics(selected)
  BY <1>0, <1>1, ReadStep DEF TypeOK
<1>2. CASE Panic /\ ~ReadPanics(selected)
  <2>1. ~calm
    <3>1. CASE ReadTmu
      <4>1. Top = "tmu" /\ status = "running" /\ (selected = None \/ status' = status)
        BY <1>2, <3>1 DEF ReadTmu, Running
      <4>2. selected = None
        BY <1>2, <4>1 DEF Panic
      <4>3. layers[Len(layers)].kind \in DeviceDialogs /\ Len(layers) \in DOMAIN layers
        BY <4>1, TopIs DEF DeviceDialogs
      <4>. QED BY <4>2, <4>3, CalmDialog
    <3>2. CASE ReadSelectedRegisters \/ WriteSelectedRegisters
      <4>1. Top = "registers" /\ status = "running"
            /\ (selected = None \/ AdapterMissing(Last(layers)) \/ status' = status)
        BY <1>2, <3>2 DEF ReadSelectedRegisters, WriteSelectedRegisters, Running
      <4>2. selected = None \/ AdapterMissing(layers[Len(layers)])
        BY <1>2, <4>1 DEF Panic, Last
      <4>. QED BY <4>1, <4>2, TopIs, CalmRegisters
    <3>3. CASE UpdateSelectedRegister
      <4>1. /\ Top = "detail" /\ status = "running" /\ layers[Len(layers) - 1].kind = "registers"
            /\ \/ selected = None \/ AdapterMissing(layers[Len(layers) - 1]) \/ status' = status
        BY <3>3 DEF UpdateSelectedRegister, Running
      <4>2. selected = None \/ AdapterMissing(layers[Len(layers) - 1])
        BY <1>2, <4>1 DEF Panic
      <4>3. Len(layers) - 1 \in DOMAIN layers
        BY <4>1, TopIs
      <4>. QED BY <4>1, <4>2, <4>3, CalmRegisters
    <3>. QED BY <3>1, <3>2, <3>3
  <2>. QED BY <1>2, <2>1, PanicStep
<1>3. CASE ~Panic /\ ~ReadPanics(selected)
  <2>1. /\ UNCHANGED <<listed, selected, queueVars, status>> /\ status = "running"
        /\ known' = known \/ (selected # None /\ known' = known \union {selected})
    BY <1>3 DEF ReadTmu, ReadSelectedRegisters, WriteSelectedRegisters, UpdateSelectedRegister,
           Running, listVars
  <2>2. known' \subseteq listed
    BY <1>1, <2>1 DEF TypeOK
  <2>3. \/ UNCHANGED layers \/ Message
        \/ layers' = Front(layers) /\ Top # "main"
    BY <1>3 DEF ReadTmu, ReadSelectedRegisters, WriteSelectedRegisters,
           UpdateSelectedRegister, Running
  <2>4. LayersFit
    BY <2>3, FitSame, FitMessage, FitFront
  <2>. QED BY <1>1, <2>1, <2>2, <2>4, KeyStep DEF TypeOK, queueVars
<1>. QED BY <1>0, <1>2, <1>3

LEMMA KeyInv ==
    ASSUME DialogsInv, Key, gone' = gone \intersect listed', calm' = (calm /\ Calm)
    PROVE  DialogsInv'
<1>0. TypeOK
  BY DEF DialogsInv
<1>1. ASSUME NEW r \in Routers, Move(r) PROVE DialogsInv'
  <2>1. /\ Running({"main"}) /\ UNCHANGED <<listed, known, layers, queueVars, status>>
        /\ selected' = r /\ r \in listed /\ r # None
    BY <1>1, RoutersAssumption DEF Move, None
  <2>. QED BY <1>0, <2>1, MainInv DEF TypeOK, queueVars
<1>2. CASE RefreshDevices
  BY <1>0, <1>2, MainInv DEF RefreshDevices, TypeOK
<1>3. CASE BuildAdaptersOrPaths \/ BuildRegistersOrDrom \/ BuildTmu
  BY <1>3, OpeningInv
<1>4. CASE ReadTmu \/ ReadSelectedRegisters \/ WriteSelectedRegisters \/ UpdateSelectedRegister
  BY <1>4, WritingInv
<1>5. CASE \/ AuthorizeDevice /\ ~Panic
           \/ ViewDetail /\ ~Panic
           \/ EnableTrace
           \/ BuildLog
           \/ Help
           \/ Prompt
  <2>0. \A r : ~ReadPanics(r) \/ Panic
    BY DEF ReadPanics
  <2>1. /\ UNCHANGED <<listed, selected, queueVars, status>> /\ status = "running"
        /\ known' = known \/ \E r \in listed : known' = known \union {r}
    BY <1>5, <2>0 DEF AuthorizeDevice, EnableTrace, BuildLog, Help, ViewDetail, Prompt, Running,
           listVars
  <2>2. known' \subseteq listed
    BY <1>0, <2>1 DEF TypeOK
  <2>3. Message \/ \E k \in {"help", "detail", "prompt"} \union LogDialogs : Open(k)
    BY <1>5, <2>0 DEF AuthorizeDevice, EnableTrace, BuildLog, Help, ViewDetail, Prompt
  <2>4. LayersFit
    <3>1. ASSUME NEW k \in {"help", "detail", "prompt"} \union LogDialogs, Open(k) PROVE LayersFit
      <4>1. k \in Plain
        BY <3>1, PlainFits
      <4>. QED BY <3>1, <4>1, FitPlain
    <3>. QED BY <2>3, <3>1, FitMessage
  <2>. QED BY <1>0, <2>1, <2>2, <2>4, KeyStep DEF TypeOK, queueVars
<1>6. CASE Quit
  <2>1. LayersFit
    BY <1>6, FitSame DEF Quit
  <2>. QED BY <1>0, <1>6, <2>1, KeyStep DEF Quit, TypeOK, Running, listVars, queueVars
<1>7. CASE Close
  <2>1. LayersFit
    BY <1>7, FitFront DEF Close, Running
  <2>. QED BY <1>0, <1>7, <2>1, KeyStep DEF Close, TypeOK, Running, listVars, queueVars
<1>8. CASE UpdateView
  <2>1. status = "running" /\ UpdateViews({Top}, known)
    BY <1>8 DEF UpdateView, Running
  <2>. QED BY <2>1, ViewsInv
<1>9. CASE AuthorizeDevice /\ Panic
  <2>1. CASE selected \in gone
    <3>1. Excused
      BY <2>1 DEF Excused, DialogsInv, TypeOK
    <3>. QED BY <1>9, <3>1, PanicStep
  <2>2. CASE selected \notin gone
    BY <1>9, <2>2 DEF AuthorizeDevice, Running, Panic
  <2>. QED BY <2>1, <2>2
<1>10. CASE ViewDetail /\ Panic
  <2>1. ASSUME NEW r \in listed, ReadPanics(r) PROVE DialogsInv'
    BY <2>1, ReadStep
  <2>2. CASE Top = "paths" /\ Last(layers).of # selected
    <3>1. layers[Len(layers)].kind \in DeviceDialogs /\ Len(layers) \in DOMAIN layers
      BY <2>2, TopIs DEF DeviceDialogs
    <3>2. ~calm
      BY <2>2, <3>1, CalmDialog DEF Last
    <3>. QED BY <1>10, <3>2, PanicStep
  <2>. QED BY <1>10, <2>1, <2>2 DEF ViewDetail, Running, Panic
<1>. QED BY <1>1, <1>2, <1>3, <1>4, <1>5, <1>6, <1>7, <1>8, <1>9, <1>10 DEF Key

LEMMA UnplugInv ==
    ASSUME DialogsInv, NEW r \in Routers, Unplug(r), calm' = (calm /\ Calm)
    PROVE  DialogsInv'
<1>1. /\ UNCHANGED <<listed, selected, known, layers, startup, adding, failures, status>>
      /\ gone' \subseteq listed /\ status # "panic" /\ TypeOK
  BY DEF Unplug, listVars, queueVars, DialogsInv, TypeOK
<1>2. TypeOK'
  BY <1>1 DEF TypeOK, Calm
<1>3. SelectedThere'
  BY <1>1 DEF DialogsInv, SelectedThere
<1>4. CalmOK'
  BY <1>1 DEF DialogsInv, CalmOK, Fits
<1>. QED BY <1>2, <1>3, <1>4 DEF DialogsInv

LEMMA DialogsInit == Init => DialogsInv
<1> SUFFICES ASSUME Init PROVE DialogsInv
  OBVIOUS
<1> DEFINE l == [kind |-> "main", of |-> None]
<1>1. l \in Layer /\ l.kind = "main" /\ layers = <<l>> /\ status # "panic" /\ listed = {}
  BY DEF Init, Layer, Kinds
<1> HIDE DEF l
<1>2. /\ layers \in Seq(Layer) /\ Len(layers) = 1 /\ DOMAIN layers = {1} /\ layers[1] = l
  BY <1>1
<1>3. StackOK(layers)
  BY <1>1, <1>2 DEF StackOK
<1>4. TypeOK
  BY <1>3, TypeStack DEF Init
<1>5. CalmOK
  BY <1>1, <1>2 DEF CalmOK, Fits, DeviceDialogs
<1>. QED BY <1>1, <1>4, <1>5 DEF DialogsInv, SelectedThere

LEMMA DialogsNext == DialogsInv /\ [Next]_vars => DialogsInv'
<1> SUFFICES ASSUME DialogsInv, [Next]_vars PROVE DialogsInv'
  OBVIOUS
<1>1. CASE Next
  BY <1>1, CallbackInv, KeyInv, UnplugInv DEF Next
<1>2. CASE UNCHANGED vars
  BY <1>2 DEF vars, listVars, queueVars, DialogsInv, TypeOK, SelectedThere, CalmOK, Fits, Excused
<1>. QED BY <1>1, <1>2

LEMMA DialogsInvariant == Spec => []DialogsInv
  BY DialogsInit, DialogsNext, PTL DEF Spec

\* The variables keep their types, and the main view is the bottom layer and no
\* other one whatever the callbacks of the monitor remove: no close_dialog(),
\* pop_layer() or Esc takes it away.
THEOREM DialogsTypeCorrect == Spec => []TypeOK
<1>1. DialogsInv => TypeOK
  BY DEF DialogsInv
<1>. QED BY <1>1, DialogsInvariant, PTL

\* As long as routers come and go below at most one layer and those whose
\* adapters have been read keep their Device, each dialog of a router is of the
\* one that is selected, and "No Thunderbolt/USB4 devices found" is shown only
\* while that is so: handle_udev_event() closes what has lost its ground.
THEOREM DialogsFollow == Spec => []DialogFollowsCalmly
<1>1. DialogsInv => DialogFollowsCalmly
  BY DEF DialogsInv, CalmOK, Fits, DialogFollowsCalmly, DialogFollowsSelection, IsOpen
<1>. QED BY <1>1, DialogsInvariant, PTL

\* In the same environment the program panics only when a listed router has been
\* unplugged or does not report in full: what read_tmu(), read_registers(),
\* write_changed(), update_register(), view_path() and the callbacks unwrap() or
\* index is there otherwise, whatever reads fail with an error.
THEOREM CalmNeverPanics == Spec => []NoPanicCalmly
<1>1. DialogsInv => NoPanicCalmly
  BY DEF DialogsInv, CalmOK, Excused, NoPanicCalmly, NoPanic
<1>. QED BY <1>1, DialogsInvariant, PTL
=============================================================================
