------------------------- MODULE TbmanDevices_proofs -------------------------
(***************************************************************************)
(* Theorems about the live device list of tbman, for any set of routers    *)
(* and any bounds.                                                         *)
(***************************************************************************)
EXTENDS TbmanDevices, Integers, SequencesExt, SequenceTheorems, TLAPS

-----------------------------------------------------------------------------
(***************************************************************************)
(* What the operators of SequencesExt on lists of items return; the list   *)
(* of the user interface is built from them.                               *)
(***************************************************************************)
\* What InsertAt() returns: one item more, the others in their order.
LEMMA InsertAtProperties ==
    ASSUME NEW S, NEW s \in Seq(S), NEW i \in 1..(Len(s) + 1), NEW e \in S
    PROVE  /\ InsertAt(s, i, e) \in Seq(S)
           /\ Len(InsertAt(s, i, e)) = Len(s) + 1
           /\ \A j \in 1..(Len(s) + 1) :
                InsertAt(s, i, e)[j] = IF j < i THEN s[j]
                                       ELSE IF j = i THEN e ELSE s[j - 1]
<1> DEFINE front == SubSeq(s, 1, i - 1)
           back  == SubSeq(s, i, Len(s))
           mid   == front \o <<e>>
<1>1. /\ front \in Seq(S) /\ Len(front) = i - 1
      /\ \A j \in 1..(i - 1) : front[j] = s[j]
  BY SubSeqProperties
<1>2. /\ back \in Seq(S) /\ Len(back) = Len(s) - i + 1
      /\ \A j \in 1..(Len(s) - i + 1) : back[j] = s[i + j - 1]
  BY SubSeqProperties
<1>3. /\ mid \in Seq(S) /\ Len(mid) = i
      /\ \A j \in 1..(i - 1) : mid[j] = s[j]
      /\ mid[i] = e
  BY <1>1, ConcatProperties
<1> HIDE DEF front, back, mid
<1>4. /\ mid \o back \in Seq(S) /\ Len(mid \o back) = Len(s) + 1
      /\ \A j \in 1..(Len(s) + 1) :
           (mid \o back)[j] = IF j <= i THEN mid[j] ELSE back[j - i]
  <2>1. /\ mid \in Seq(S) /\ back \in Seq(S)
        /\ Len(mid) = i /\ Len(mid) + Len(back) = Len(s) + 1
    BY <1>2, <1>3
  <2> QED BY <2>1, ConcatProperties
<1>5. InsertAt(s, i, e) = mid \o back
  BY DEF InsertAt, mid, front, back
<1> QED BY <1>2, <1>3, <1>4, <1>5

\* What RemoveAt() returns: one item less, the others in their order.
LEMMA RemoveAtProperties ==
    ASSUME NEW S, NEW s \in Seq(S), NEW i \in 1..Len(s)
    PROVE  /\ RemoveAt(s, i) \in Seq(S)
           /\ Len(RemoveAt(s, i)) = Len(s) - 1
           /\ \A j \in 1..(Len(s) - 1) :
                RemoveAt(s, i)[j] = IF j < i THEN s[j] ELSE s[j + 1]
<1> DEFINE front == SubSeq(s, 1, i - 1)
           back  == SubSeq(s, i + 1, Len(s))
<1>1. /\ front \in Seq(S) /\ Len(front) = i - 1
      /\ \A j \in 1..(i - 1) : front[j] = s[j]
  BY SubSeqProperties
<1>2. /\ back \in Seq(S) /\ Len(back) = Len(s) - i
      /\ \A j \in 1..(Len(s) - i) : back[j] = s[i + j]
  BY SubSeqProperties
<1> HIDE DEF front, back
<1>3. /\ front \o back \in Seq(S) /\ Len(front \o back) = Len(s) - 1
      /\ \A j \in 1..(Len(s) - 1) :
           (front \o back)[j] = IF j <= i - 1 THEN front[j] ELSE back[j - (i - 1)]
  <2>1. /\ front \in Seq(S) /\ back \in Seq(S)
        /\ Len(front) = i - 1 /\ Len(front) + Len(back) = Len(s) - 1
    BY <1>1, <1>2
  <2>2. /\ front \o back \in Seq(S)
        /\ Len(front \o back) = Len(front) + Len(back)
        /\ \A j \in 1..(Len(front) + Len(back)) :
             (front \o back)[j] = IF j <= Len(front) THEN front[j]
                                                    ELSE back[j - Len(front)]
    BY ONLY <2>1, ConcatProperties
  <2> QED BY <2>1, <2>2
<1>4. RemoveAt(s, i) = front \o back
  BY DEF RemoveAt, front, back
<1>5. ASSUME NEW j \in 1..(Len(s) - 1)
      PROVE  RemoveAt(s, i)[j] = IF j < i THEN s[j] ELSE s[j + 1]
  <2>1. CASE j < i
    BY <2>1, <1>1, <1>3, <1>4
  <2>2. CASE j >= i
    <3>1. j - (i - 1) \in 1..(Len(s) - i)
      BY <2>2
    <3>2. back[j - (i - 1)] = s[j + 1]
      BY <3>1, <1>2
    <3> QED BY <2>2, <3>2, <1>3, <1>4
  <2> QED BY <2>1, <2>2
<1> QED BY <1>3, <1>4, <1>5

\* Taking an item out and putting another one in its place changes that item.
LEMMA ReplaceProperties ==
    ASSUME NEW S, NEW s \in Seq(S), NEW i \in 1..Len(s), NEW e \in S
    PROVE  /\ InsertAt(RemoveAt(s, i), i, e) \in Seq(S)
           /\ Len(InsertAt(RemoveAt(s, i), i, e)) = Len(s)
           /\ \A j \in 1..Len(s) :
                InsertAt(RemoveAt(s, i), i, e)[j] = IF j = i THEN e ELSE s[j]
<1> DEFINE t == RemoveAt(s, i)
<1>1. /\ t \in Seq(S) /\ Len(t) = Len(s) - 1
      /\ \A j \in 1..(Len(s) - 1) : t[j] = IF j < i THEN s[j] ELSE s[j + 1]
  BY RemoveAtProperties
<1> HIDE DEF t
<1>2. t \in Seq(S) /\ i \in 1..(Len(t) + 1) /\ e \in S
  BY <1>1
<1>3. /\ InsertAt(t, i, e) \in Seq(S)
      /\ Len(InsertAt(t, i, e)) = Len(t) + 1
      /\ \A j \in 1..(Len(t) + 1) :
           InsertAt(t, i, e)[j] = IF j < i THEN t[j]
                                  ELSE IF j = i THEN e ELSE t[j - 1]
  <2>1. ASSUME NEW u \in Seq(S), NEW k \in 1..(Len(u) + 1)
        PROVE  /\ InsertAt(u, k, e) \in Seq(S)
               /\ Len(InsertAt(u, k, e)) = Len(u) + 1
               /\ \A j \in 1..(Len(u) + 1) :
                    InsertAt(u, k, e)[j] = IF j < k THEN u[j]
                                           ELSE IF j = k THEN e ELSE u[j - 1]
    BY InsertAtProperties
  <2> QED BY ONLY <1>2, <2>1
<1>4. ASSUME NEW j \in 1..Len(s)
      PROVE  InsertAt(t, i, e)[j] = IF j = i THEN e ELSE s[j]
  <2>. Len(t) + 1 = Len(s)
    BY <1>1
  <2>0. InsertAt(t, i, e)[j] = IF j < i THEN t[j] ELSE IF j = i THEN e ELSE t[j - 1]
    BY <1>3
  <2>1. CASE j < i
    <3>1. j \in 1..(Len(s) - 1)
      BY <2>1
    <3>2. t[j] = s[j]
      BY <3>1, <2>1, <1>1
    <3> QED BY <2>0, <2>1, <3>2
  <2>2. CASE j = i
    BY <2>0, <2>2
  <2>3. CASE j > i
    <3>1. j - 1 \in 1..(Len(s) - 1) /\ ~(j - 1 < i)
      BY <2>3
    <3>2. t[j - 1] = s[j]
      BY <3>1, <1>1
    <3> QED BY <2>0, <2>3, <3>2
  <2> QED BY <2>1, <2>2, <2>3
<1> QED BY <1>1, <1>3, <1>4 DEF t

\* The same for lists of Devices, so that no leaf has to find the set.
LEMMA InsertDevice ==
    ASSUME NEW s \in Seq(Device), NEW i \in 1..(Len(s) + 1), NEW e \in Device
    PROVE  /\ InsertAt(s, i, e) \in Seq(Device)
           /\ Len(InsertAt(s, i, e)) = Len(s) + 1
           /\ \A j \in 1..(Len(s) + 1) :
                InsertAt(s, i, e)[j] = IF j < i THEN s[j]
                                       ELSE IF j = i THEN e ELSE s[j - 1]
  BY InsertAtProperties

LEMMA RemoveDeviceAt ==
    ASSUME NEW s \in Seq(Device), NEW i \in 1..Len(s)
    PROVE  /\ RemoveAt(s, i) \in Seq(Device)
           /\ Len(RemoveAt(s, i)) = Len(s) - 1
           /\ \A j \in 1..(Len(s) - 1) :
                RemoveAt(s, i)[j] = IF j < i THEN s[j] ELSE s[j + 1]
  BY RemoveAtProperties

LEMMA ReplaceDevice ==
    ASSUME NEW s \in Seq(Device), NEW i \in 1..Len(s), NEW e \in Device
    PROVE  /\ InsertAt(RemoveAt(s, i), i, e) \in Seq(Device)
           /\ Len(InsertAt(RemoveAt(s, i), i, e)) = Len(s)
           /\ \A j \in 1..Len(s) :
                InsertAt(RemoveAt(s, i), i, e)[j] = IF j = i THEN e ELSE s[j]
<1>1. /\ InsertAt(RemoveAt(s, i), i, e) \in Seq(Device)
      /\ Len(InsertAt(RemoveAt(s, i), i, e)) = Len(s)
  BY ReplaceProperties
<1>2. s \in Seq(Device) /\ i \in 1..Len(s) /\ e \in Device
  OBVIOUS
<1>3. \A j \in 1..Len(s) :
        InsertAt(RemoveAt(s, i), i, e)[j] = IF j = i THEN e ELSE s[j]
  BY <1>2, ReplaceProperties
<1> QED BY <1>1, <1>3

-----------------------------------------------------------------------------
(***************************************************************************)
(* Types, and the selection. TypeOK is not inductive alone: the item that  *)
(* build_details() shows exists only because the focus is within the list. *)
(***************************************************************************)
FocusInList == list = <<>> => focus = 1

ViewInv == TypeOK /\ FocusInList /\ DetailsFollowSelection

\* The focus and the details after an action that leaves the list alone.
LEMMA ListUnchanged ==
    ViewInv /\ UNCHANGED listVars =>
        /\ FocusInList' /\ DetailsFollowSelection'
        /\ list' \in Seq(Device) /\ focus' \in Nat \ {0}
        /\ details' \in Device \union {NoDevice}
  BY DEF ViewInv, TypeOK, FocusInList, DetailsFollowSelection, listVars, NoDevice

\* What the actions on the list leave true of the three variables.
ListOK ==
    /\ list \in Seq(Device) /\ focus \in Nat \ {0}
    /\ details \in Device \union {NoDevice}
    /\ FocusInList /\ DetailsFollowSelection

\* The part of the invariant that speaks of the list.
LEMMA ListOKFromViewInv == ViewInv => ListOK
  BY DEF ViewInv, ListOK, TypeOK

\* add_device() keeps the focus on an item and the details on the focus.
LEMMA AddDeviceOK ==
    ASSUME ListOK, NEW d \in Device, AddDevice(d)
    PROVE  /\ ListOK'
           /\ \E i \in 1..(Len(list) + 1) : list' = InsertAt(list, i, d)
<1>1. PICK i \in 1..(Len(list) + 1) :
        /\ list' = InsertAt(list, i, d)
        /\ \/ list = <<>> /\ focus' = 1
           \/ list # <<>> /\ focus' \in DOMAIN list'
        /\ Select(list', focus')
  BY DEF AddDevice
<1>2. list \in Seq(Device)
  BY DEF ListOK
<1>3. list' \in Seq(Device) /\ Len(list') = Len(list) + 1
  BY <1>1, <1>2, InsertAtProperties
<1>4. list' # <<>> /\ focus' \in 1..Len(list')
  BY <1>1, <1>2, <1>3
<1>5. details' = list'[focus'] /\ details' \in Device
  BY <1>1, <1>3, <1>4 DEF Select
<1> QED BY <1>1, <1>3, <1>4, <1>5
      DEF ListOK, FocusInList, DetailsFollowSelection

\* remove_device() does so too, cursive moving the focus up when it must.
LEMMA RemoveDeviceOK ==
    ASSUME ListOK, NEW d \in Device, RemoveDevice(d)
    PROVE  ListOK'
<1>1. list \in Seq(Device) /\ focus \in Nat \ {0} /\ details \in Device \union {NoDevice}
  BY DEF ListOK
<1>2. CASE d.dev \notin Listed /\ UNCHANGED <<list, focus>>
              /\ details' = IF list = <<>> THEN NoDevice ELSE details
  BY <1>1, <1>2 DEF ListOK, FocusInList, DetailsFollowSelection
<1>3. ASSUME NEW i \in DOMAIN list,
             list' = RemoveAt(list, i),
             focus' = FocusAfterRemove(focus, i),
             IF list' = <<>> THEN details' = NoDevice ELSE Select(list', focus')
      PROVE  ListOK'
  <2>1. i \in 1..Len(list) /\ list # <<>> /\ focus \in 1..Len(list)
    BY <1>1, <1>3 DEF ListOK, DetailsFollowSelection
  <2>2. list' \in Seq(Device) /\ Len(list') = Len(list) - 1
    BY <1>1, <1>3, <2>1, RemoveAtProperties
  <2>3. CASE list' = <<>>
    <3>1. Len(list) = 1
      BY <1>1, <2>1, <2>2, <2>3
    <3>2. focus' = 1
      BY <1>3, <2>1, <3>1 DEF FocusAfterRemove
    <3> QED BY <1>3, <2>2, <2>3, <3>2
          DEF ListOK, FocusInList, DetailsFollowSelection
  <2>4. CASE list' # <<>>
    <3>1. Len(list') > 0
      BY <2>2, <2>4
    <3>2. focus' \in 1..Len(list')
      BY <1>3, <2>1, <2>2, <3>1 DEF FocusAfterRemove
    <3>3. details' = list'[focus'] /\ details' \in Device
      BY <1>3, <2>2, <2>4, <3>2 DEF Select
    <3> QED BY <2>2, <2>4, <3>2, <3>3
          DEF ListOK, FocusInList, DetailsFollowSelection
  <2> QED BY <2>3, <2>4
<1> QED BY <1>2, <1>3 DEF RemoveDevice

\* update_device_list() leaves the focus where it was.
LEMMA UpdateDeviceListOK ==
    ASSUME ListOK, NEW d \in Device, UpdateDeviceList(d)
    PROVE  ListOK'
<1>1. list \in Seq(Device) /\ focus \in Nat \ {0} /\ details \in Device \union {NoDevice}
  BY DEF ListOK
<1>2. CASE UNCHANGED listVars
  BY <1>2 DEF listVars, ListOK, FocusInList, DetailsFollowSelection
<1>3. ASSUME NEW i \in 1..Len(list),
             list' = InsertAt(RemoveAt(list, i), i, d),
             IF focus = i
             THEN focus' = i /\ Select(list', focus')
             ELSE /\ focus' = FocusAfterInsert(FocusAfterRemove(focus, i), i, Len(list'))
                  /\ UNCHANGED details
      PROVE  ListOK'
  <2>1. i \in 1..Len(list) /\ list # <<>> /\ focus \in 1..Len(list)
          /\ details = list[focus]
    BY <1>1, <1>3 DEF ListOK, DetailsFollowSelection
  <2>2. /\ list' \in Seq(Device) /\ Len(list') = Len(list)
        /\ \A j \in 1..Len(list) : list'[j] = IF j = i THEN d ELSE list[j]
    <3>1. list \in Seq(Device) /\ i \in 1..Len(list) /\ d \in Device
      BY <1>1, <2>1
    <3>2. InsertAt(RemoveAt(list, i), i, d) \in Seq(Device)
      BY ONLY <3>1, ReplaceProperties
    <3>3. Len(InsertAt(RemoveAt(list, i), i, d)) = Len(list)
      BY ONLY <3>1, ReplaceProperties
    <3>4. \A j \in 1..Len(list) :
            InsertAt(RemoveAt(list, i), i, d)[j] = IF j = i THEN d ELSE list[j]
      BY <3>1, ReplaceProperties
    <3> QED BY <1>3, <3>2, <3>3, <3>4
  <2>3. list' # <<>>
    BY <2>1, <2>2
  <2>4. CASE focus = i
    BY <1>3, <2>1, <2>2, <2>3, <2>4
       DEF ListOK, FocusInList, DetailsFollowSelection, Select
  <2>5. CASE focus # i
    <3>1. focus' = focus
      BY <1>3, <2>1, <2>2, <2>5 DEF FocusAfterInsert, FocusAfterRemove
    <3>2. details' = list'[focus']
      BY <1>3, <2>1, <2>2, <2>5, <3>1
    <3> QED BY <1>1, <1>3, <2>1, <2>2, <2>3, <2>5, <3>1, <3>2
          DEF ListOK, FocusInList, DetailsFollowSelection
  <2> QED BY <2>4, <2>5
<1> QED BY <1>1, <1>2, <1>3 DEF UpdateDeviceList

-----------------------------------------------------------------------------
(***************************************************************************)
(* The other variables.                                                    *)
(***************************************************************************)

\* Parsing a name keeps an enumeration one.
LEMMA ParseNameType ==
    ASSUME NEW enum \in Enum, NEW r \in enum.names, TypeOK
    PROVE  ParseName(enum, r) \in Enum
  BY DEF ParseName, Parse, Enum, Device, TypeOK

\* Enumerating the names keeps an enumeration one.
LEMMA ScanType == ASSUME TypeOK, NEW enum \in Enum PROVE Scan(enum) \in Enum
  BY DEF Scan, Enum, TypeOK

\* The program starts with an empty list and no details.
LEMMA InitView == Init => ViewInv
  BY EmptySeq DEF Init, ViewInv, TypeOK, FocusInList, DetailsFollowSelection,
                  Enum, NoEnum

\* No step leaves the types, puts the focus outside the list or makes the
\* details pane describe another item.
LEMMA NextView == ViewInv /\ [Next]_vars => ViewInv'
<1> SUFFICES ASSUME ViewInv, [Next]_vars PROVE ViewInv'
  OBVIOUS
<1> USE DEF ViewInv, busVars, monVars, uiVars
<1>a. ListOK
  BY ListOKFromViewInv
<1>b. \A d \in Device, op \in {"add", "remove", "change"} :
        Send(op, d) => chan' \in Seq(Callback)
  BY DEF Send, TypeOK, Device, Callback
<1>c. quiet' \in BOOLEAN
  BY DEF Next, vars, TypeOK
<1>1. ASSUME NEW r \in Routers, Plug(r) \/ Unplug(r) \/ Authorize(r) PROVE ViewInv'
  <2>1. CASE Plug(r)
    BY <2>1, <1>c, ListUnchanged DEF Plug, TypeOK, Uevent, listVars
  <2>2. CASE Unplug(r)
    BY <2>2, <1>c, ListUnchanged DEF Unplug, TypeOK, Uevent, listVars
  <2>3. CASE Authorize(r)
    BY <2>3, <1>c, ListUnchanged DEF Authorize, TypeOK, Uevent, listVars
  <2> QED BY <1>1, <2>1, <2>2, <2>3
<1>2. CASE Broadcast
  BY <1>2, <1>c, ListUnchanged DEF Broadcast, TypeOK, listVars
<1>3. CASE MonitorBuild
  BY <1>3, <1>c, ListUnchanged DEF MonitorBuild, TypeOK, listVars
<1>4. CASE MonitorScan
  BY <1>4, <1>c, ListUnchanged, ScanType DEF MonitorScan, TypeOK, listVars
<1>5. CASE MonitorParse
  BY <1>5, <1>c, ListUnchanged, ParseNameType DEF MonitorParse, TypeOK, listVars
<1>6. CASE MonitorSend
  BY <1>6, <1>c, <1>b, ListUnchanged DEF MonitorSend, TypeOK, listVars, Enum
<1>7. CASE MonitorEvent
  <2>1. Head(socket) \in Uevent /\ Tail(socket) \in Seq(Uevent)
    BY <1>7, HeadTailProperties DEF MonitorEvent, TypeOK
  <2>2. Parse(Head(socket).dev) \in Device
    BY <2>1 DEF Parse, Device, Uevent, TypeOK
  <2>3. chan' \in Seq(Callback)
    BY <1>7, <1>b, <2>1, <2>2 DEF MonitorEvent, Uevent
  <2> QED BY <1>7, <1>c, <2>1, <2>3, ListUnchanged DEF MonitorEvent, TypeOK, listVars
<1>8. CASE MonitorFails
  BY <1>8, <1>c, ListUnchanged DEF MonitorFails, TypeOK, listVars
<1>9. CASE UiCallback
  <2>1. Head(chan) \in Callback /\ Tail(chan) \in Seq(Callback)
    BY <1>9, HeadTailProperties DEF UiCallback, TypeOK
  <2>2. [dev |-> Head(chan).dev, auth |-> Head(chan).auth] \in Device
    BY <2>1 DEF Callback, Device
  <2>3. ListOK'
    BY <1>9, <1>a, <2>2, AddDeviceOK, RemoveDeviceOK, UpdateDeviceListOK
       DEF UiCallback, HandleEvent
  <2> QED BY <1>9, <1>c, <2>1, <2>3 DEF UiCallback, TypeOK, ListOK
<1>10. CASE UiMove
  <2>1. PICK f \in DOMAIN list : focus' = f /\ Select(list, f)
    BY <1>10 DEF UiMove
  <2>2. list \in Seq(Device) /\ list # <<>> /\ list' = list /\ f \in 1..Len(list)
    BY <1>10, <2>1 DEF UiMove, TypeOK
  <2>3. focus' = f /\ details' = list[f] /\ details' \in Device
    BY <2>1, <2>2 DEF Select
  <2> QED BY <1>10, <1>c, <2>2, <2>3
        DEF UiMove, TypeOK, FocusInList, DetailsFollowSelection
<1>11. CASE RefreshScan
  BY <1>11, <1>c, EmptySeq, ScanType
     DEF RefreshScan, TypeOK, FocusInList, DetailsFollowSelection
<1>12. CASE RefreshParse
  BY <1>12, <1>c, ListUnchanged, ParseNameType DEF RefreshParse, TypeOK, listVars
<1>13. CASE RefreshSend
  BY <1>13, <1>c, <1>b, ListUnchanged DEF RefreshSend, TypeOK, listVars, Enum
<1>14. CASE UNCHANGED vars
  BY <1>14, <1>c, ListUnchanged DEF vars, progVars, TypeOK
<1> QED BY <1>1, <1>2, <1>3, <1>4, <1>5, <1>6, <1>7, <1>8, <1>9, <1>10, <1>11,
           <1>12, <1>13, <1>14 DEF Next, Step, Monitor, Refresh

\* Every variable keeps its type, the focus included: cursive never moves it
\* above the first item.
THEOREM TypeCorrect == Spec => []TypeOK
<1>1. Spec => []ViewInv
  BY InitView, NextView, PTL DEF Spec
<1>2. ViewInv => TypeOK
  BY DEF ViewInv
<1> QED BY <1>1, <1>2, PTL

\* The details pane describes the selected router, with the attributes the
\* list has of it.
THEOREM DetailsCorrect == Spec => []DetailsFollowSelection
<1>1. Spec => []ViewInv
  BY InitView, NextView, PTL DEF Spec
<1>2. ViewInv => DetailsFollowSelection
  BY DEF ViewInv
<1> QED BY <1>1, <1>2, PTL

-----------------------------------------------------------------------------
(***************************************************************************)
(* The order of the list, and the selection when the list changes.         *)
(***************************************************************************)
\* The handlers keep the list in order.
LEMMA HandlersSort ==
    ASSUME ListOK, ListSorted, NEW d \in Device,
           AddDevice(d) \/ RemoveDevice(d) \/ UpdateDeviceList(d)
    PROVE  ListSorted'
<1>1. list \in Seq(Device) /\ DOMAIN list = 1..Len(list)
  BY DEF ListOK
<1>2. \A j \in 1..Len(list) : list[j].dev \in Int
  <2>1. \A j \in 1..Len(list) : list[j] \in Device
    BY <1>1, ElementOfSeq
  <2>. QED BY <2>1, RoutersAssumption DEF Device
<1>3. d.dev \in Int
  BY RoutersAssumption DEF Device
<1>4. CASE AddDevice(d)
  <2>1. PICK i \in 1..(Len(list) + 1) :
          IsSortedPosition(list, i, d.dev) /\ list' = InsertAt(list, i, d)
    BY <1>4 DEF AddDevice
  <2>2. /\ list' \in Seq(Device) /\ Len(list') = Len(list) + 1
        /\ \A j \in 1..(Len(list) + 1) :
             list'[j] = IF j < i THEN list[j] ELSE IF j = i THEN d ELSE list[j - 1]
    <3>1. list \in Seq(Device) /\ i \in 1..(Len(list) + 1) /\ d \in Device
      BY <1>1
    <3>2. InsertAt(list, i, d) \in Seq(Device) /\ Len(InsertAt(list, i, d)) = Len(list) + 1
      BY ONLY <3>1, InsertAtProperties
    <3>3. \A j \in 1..(Len(list) + 1) :
            InsertAt(list, i, d)[j] = IF j < i THEN list[j]
                                      ELSE IF j = i THEN d ELSE list[j - 1]
      BY <3>1, InsertDevice
    <3>. QED BY <2>1, <3>2, <3>3
  <2>3. \A j, k \in 1..(Len(list) + 1) : j < k => list'[j].dev <= list'[k].dev
    <3> SUFFICES ASSUME NEW j \in 1..(Len(list) + 1), NEW k \in 1..(Len(list) + 1), j < k
                 PROVE  list'[j].dev <= list'[k].dev
      OBVIOUS
    <3>1. CASE k < i
      <4>1. j \in 1..Len(list) /\ k \in 1..Len(list) /\ j < i
        BY <3>1
      <4>2. list'[j] = list[j] /\ list'[k] = list[k]
        BY <2>2, <3>1, <4>1
      <4>. QED BY <1>1, <4>1, <4>2 DEF ListSorted
    <3>2. CASE k = i
      BY <1>1, <2>1, <2>2, <3>2 DEF IsSortedPosition
    <3>3. CASE j < i /\ i < k
      <4>1. k - 1 \in 1..Len(list) /\ k - 1 >= i /\ j \in 1..(i - 1)
        BY <3>3
      <4>2. list[j].dev <= d.dev /\ d.dev < list[k - 1].dev
        BY <4>1, <2>1 DEF IsSortedPosition
      <4>3. j \in 1..Len(list)
        BY <4>1
      <4>4. list'[j] = list[j]
        BY <2>2, <3>3
      <4>5. list'[k] = list[k - 1]
        BY <2>2, <3>3
      <4>6. list[j].dev \in Int /\ list[k - 1].dev \in Int
        BY <1>2, <4>1, <4>3
      <4>. QED BY <1>3, <4>2, <4>4, <4>5, <4>6
    <3>4. CASE j = i
      <4>1. k - 1 \in i..Len(list) /\ k - 1 \in 1..Len(list)
        BY <3>4
      <4>2. d.dev < list[k - 1].dev
        BY <4>1, <2>1 DEF IsSortedPosition
      <4>. QED BY <1>2, <1>3, <2>2, <3>4, <4>1, <4>2
    <3>5. CASE j > i
      <4>1. j - 1 \in 1..Len(list) /\ k - 1 \in 1..Len(list) /\ j - 1 < k - 1
        BY <3>5
      <4>2. list[j - 1].dev <= list[k - 1].dev
        BY <1>1, <4>1 DEF ListSorted
      <4>. QED BY <2>2, <3>5, <4>2
    <3>. QED BY <3>1, <3>2, <3>3, <3>4, <3>5
  <2>. QED BY <2>2, <2>3 DEF ListSorted
<1>5. CASE RemoveDevice(d)
  <2>1. CASE list' = list
    BY <2>1 DEF ListSorted
  <2>2. ASSUME NEW i \in 1..Len(list), list' = RemoveAt(list, i)
        PROVE  ListSorted'
    <3>1. /\ list' \in Seq(Device) /\ Len(list') = Len(list) - 1
          /\ \A j \in 1..(Len(list) - 1) :
               list'[j] = IF j < i THEN list[j] ELSE list[j + 1]
      BY <1>1, <2>2, RemoveDeviceAt
    <3>2. ASSUME NEW j \in 1..(Len(list) - 1), NEW k \in 1..(Len(list) - 1), j < k
          PROVE  list'[j].dev <= list'[k].dev
      <4>1. /\ j \in 1..Len(list) /\ k \in 1..Len(list)
            /\ j + 1 \in 1..Len(list) /\ k + 1 \in 1..Len(list)
        OBVIOUS
      <4>2. /\ list[j].dev <= list[k].dev /\ list[j + 1].dev <= list[k + 1].dev
            /\ list[j].dev <= list[k + 1].dev
        BY <1>1, <3>2, <4>1 DEF ListSorted
      <4>. QED BY <3>1, <3>2, <4>2
    <3>. QED BY <3>1, <3>2 DEF ListSorted
  <2>. QED BY <1>1, <1>5, <2>1, <2>2 DEF RemoveDevice
<1>6. CASE UpdateDeviceList(d)
  <2>1. CASE list' = list
    BY <2>1 DEF ListSorted
  <2>2. ASSUME NEW i \in 1..Len(list), list[i].dev = d.dev,
               list' = InsertAt(RemoveAt(list, i), i, d)
        PROVE  ListSorted'
    <3>1. /\ list' \in Seq(Device) /\ Len(list') = Len(list)
          /\ \A j \in 1..Len(list) : list'[j] = IF j = i THEN d ELSE list[j]
      <4>1. list \in Seq(Device) /\ i \in 1..Len(list) /\ d \in Device
        BY <1>1
      <4>2. /\ InsertAt(RemoveAt(list, i), i, d) \in Seq(Device)
            /\ Len(InsertAt(RemoveAt(list, i), i, d)) = Len(list)
        BY ONLY <4>1, ReplaceProperties
      <4>3. \A j \in 1..Len(list) :
              InsertAt(RemoveAt(list, i), i, d)[j] = IF j = i THEN d ELSE list[j]
        BY <4>1, ReplaceDevice
      <4>. QED BY <2>2, <4>2, <4>3
    <3>2. \A j \in 1..Len(list) : list'[j].dev = list[j].dev
      BY <2>2, <3>1
    <3>. QED BY <1>1, <3>1, <3>2 DEF ListSorted
  <2>. QED BY <1>1, <1>6, <2>1, <2>2 DEF UpdateDeviceList, IsPosition, listVars
<1>. QED BY <1>4, <1>5, <1>6

\* No handler moves the selection, but for the removal of the selected router.
LEMMA HandlersStick ==
    ASSUME ListOK, list # <<>>, NEW d \in Device,
           \/ AddDevice(d) \/ UpdateDeviceList(d)
           \/ RemoveDevice(d) /\ d.dev # Selected
    PROVE  Selected' = Selected
<1>1. /\ list \in Seq(Device) /\ DOMAIN list = 1..Len(list)
      /\ focus \in 1..Len(list) /\ Selected = list[focus].dev
  BY DEF ListOK, DetailsFollowSelection, Selected
<1>2. CASE UNCHANGED <<list, focus>>
  BY <1>2 DEF Selected
<1>3. CASE AddDevice(d)
  <2>1. PICK i \in 1..(Len(list) + 1) :
          /\ list' = InsertAt(list, i, d)
          /\ focus' \in DOMAIN list' /\ IsPosition(list', focus', list[focus].dev)
    BY <1>3 DEF AddDevice
  <2>2. list' # <<>>
    BY <2>1
  <2>. QED BY <1>1, <2>1, <2>2 DEF Selected, IsPosition
<1>4. ASSUME NEW i \in 1..Len(list), list[i].dev = d.dev, d.dev # Selected,
             list' = RemoveAt(list, i), focus' = FocusAfterRemove(focus, i)
      PROVE  Selected' = Selected
  <2>1. /\ list' \in Seq(Device) /\ Len(list') = Len(list) - 1
        /\ \A j \in 1..(Len(list) - 1) :
             list'[j] = IF j < i THEN list[j] ELSE list[j + 1]
    BY <1>1, <1>4, RemoveDeviceAt
  <2>2. i # focus
    BY <1>1, <1>4
  <2>3. /\ focus' \in 1..(Len(list) - 1)
        /\ list'[focus'] = list[focus]
    <3>1. CASE focus < i
      <4>1. focus' = focus /\ focus \in 1..(Len(list) - 1)
        BY <1>1, <1>4, <3>1 DEF FocusAfterRemove
      <4>. QED BY <2>1, <3>1, <4>1
    <3>2. CASE focus > i
      <4>1. focus' = focus - 1 /\ focus - 1 \in 1..(Len(list) - 1) /\ ~(focus - 1 < i)
        BY <1>1, <1>4, <3>2 DEF FocusAfterRemove
      <4>2. list'[focus - 1] = list[(focus - 1) + 1]
        BY <2>1, <4>1
      <4>. QED BY <1>1, <4>1, <4>2
    <3>. QED BY <1>1, <2>2, <3>1, <3>2
  <2>4. list' # <<>>
    BY <2>1, <2>3
  <2>. QED BY <1>1, <2>3, <2>4 DEF Selected
<1>5. CASE RemoveDevice(d) /\ d.dev # Selected
  BY <1>1, <1>2, <1>4, <1>5 DEF RemoveDevice, IsPosition
<1>6. ASSUME NEW i \in 1..Len(list), list[i].dev = d.dev,
             list' = InsertAt(RemoveAt(list, i), i, d),
             focus' = IF focus = i THEN i
                      ELSE FocusAfterInsert(FocusAfterRemove(focus, i), i, Len(list'))
      PROVE  Selected' = Selected
  <2>1. /\ list' \in Seq(Device) /\ Len(list') = Len(list)
        /\ \A j \in 1..Len(list) : list'[j] = IF j = i THEN d ELSE list[j]
    <3>1. list \in Seq(Device) /\ i \in 1..Len(list) /\ d \in Device
      BY <1>1
    <3>2. /\ InsertAt(RemoveAt(list, i), i, d) \in Seq(Device)
          /\ Len(InsertAt(RemoveAt(list, i), i, d)) = Len(list)
      BY ONLY <3>1, ReplaceProperties
    <3>3. \A j \in 1..Len(list) :
            InsertAt(RemoveAt(list, i), i, d)[j] = IF j = i THEN d ELSE list[j]
      BY <3>1, ReplaceDevice
    <3>. QED BY <1>6, <3>2, <3>3
  <2>2. focus' = focus
    BY <1>1, <1>6, <2>1 DEF FocusAfterInsert, FocusAfterRemove
  <2>3. list' # <<>> /\ list'[focus].dev = list[focus].dev
    BY <1>1, <1>6, <2>1
  <2>. QED BY <1>1, <2>2, <2>3 DEF Selected
<1>7. CASE UpdateDeviceList(d)
  <2>1. CASE UNCHANGED listVars
    BY <1>2, <2>1 DEF listVars
  <2>2. ASSUME NEW i \in 1..Len(list), IsPosition(list, i, d.dev),
               list' = InsertAt(RemoveAt(list, i), i, d),
               IF focus = i
               THEN focus' = i /\ Select(list', focus')
               ELSE /\ focus' = FocusAfterInsert(FocusAfterRemove(focus, i), i, Len(list'))
                    /\ UNCHANGED details
        PROVE  Selected' = Selected
    BY <1>6, <2>2 DEF IsPosition
  <2>. QED BY <1>1, <1>7, <2>1, <2>2 DEF UpdateDeviceList
<1>. QED BY <1>3, <1>5, <1>7

\* The list changes in a callback, or F5 clears it.
LEMMA ListChanges ==
    ASSUME ViewInv, [Next]_vars, list' # list
    PROVE  \/ list' = <<>> /\ refreshes' # refreshes
           \/ LET d == [dev |-> Head(chan).dev, auth |-> Head(chan).auth] IN
              /\ d \in Device
              /\ \/ AddDevice(d) \/ UpdateDeviceList(d)
                 \/ Head(chan).op = "remove" /\ RemoveDevice(d)
<1>1. CASE UiCallback
  <2>1. Head(chan) \in Callback
    BY <1>1, HeadTailProperties DEF UiCallback, ViewInv, TypeOK
  <2>2. [dev |-> Head(chan).dev, auth |-> Head(chan).auth] \in Device
    BY <2>1 DEF Callback, Device
  <2>. QED BY <1>1, <2>2 DEF UiCallback, HandleEvent
<1>2. CASE RefreshScan
  BY <1>2 DEF RefreshScan, ViewInv, TypeOK
<1>3. UiCallback \/ RefreshScan
  BY DEF Next, Step, Monitor, Refresh, vars, progVars, listVars, Plug, Unplug, Authorize,
         Broadcast, MonitorBuild, MonitorScan, MonitorParse, MonitorSend, MonitorEvent,
         MonitorFails, UiMove, RefreshParse, RefreshSend
<1>. QED BY <1>1, <1>2, <1>3

\* The list is in order at any time, whatever the order in which enumerations
\* and events bring the routers.
THEOREM SortedAlways == Spec => []ListSorted
<1>1. Init => ListSorted
  BY DEF Init, ListSorted
<1>2. ViewInv /\ ListSorted /\ [Next]_vars => ListSorted'
  <2> SUFFICES ASSUME ViewInv, ListSorted, [Next]_vars PROVE ListSorted'
    OBVIOUS
  <2>1. CASE list' = list
    BY <2>1 DEF ListSorted
  <2>2. CASE list' = <<>>
    BY <2>2 DEF ListSorted
  <2>. QED BY <2>1, <2>2, ListChanges, ListOKFromViewInv, HandlersSort
<1>. QED BY <1>1, <1>2, InitView, NextView, PTL DEF Spec

\* A change of the list leaves the selection on its router, unless that router
\* is removed or F5 builds the list anew.
THEOREM SelectionSticks == Spec => SelectionSticky
<1>1. ViewInv /\ [Next]_vars =>
        [ /\ list' # list /\ list # <<>> /\ refreshes' = refreshes
          /\ ~(Head(chan).op = "remove" /\ Head(chan).dev = Selected)
          => Selected' = Selected ]_vars
  BY ListChanges, ListOKFromViewInv, HandlersStick
<1>. QED BY <1>1, InitView, NextView, PTL DEF Spec, SelectionSticky

-----------------------------------------------------------------------------
(***************************************************************************)
(* No router is lost. Moving a message from one queue to the next keeps a  *)
(* router coming; what has to be added to NoRouterLost is that the uevents *)
(* of a connected router never end with a remove, that nothing is received *)
(* before the socket is open and nothing forwarded before the enumeration  *)
(* of the monitor thread is over.                                          *)
(***************************************************************************)
EndsConnected(r) ==
    \/ AddLast(udevd, r)
    \/ NoRemove(udevd, r) /\ (AddLast(socket, r) \/ NoRemove(socket, r))

LostInv ==
    /\ ViewInv
    /\ monPC = "build" => socket = <<>>
    /\ monPC \in {"build", "scan", "parse", "send"} =>
           \A r \in Routers : NoRemove(chan, r)
    /\ \A r \in present : EndsConnected(r)
    /\ NoRouterLost

\* Queueing a message that does not remove r.
LEMMA AppendKeeps ==
    ASSUME NEW M, NEW q \in Seq(M), NEW m \in M, NEW r,
           ~(m.op = "remove" /\ m.dev = r)
    PROVE  /\ AddLast(q, r) => AddLast(Append(q, m), r)
           /\ NoRemove(q, r) => NoRemove(Append(q, m), r)
           /\ m.op = "add" /\ m.dev = r => AddLast(Append(q, m), r)
<1> DEFINE p == Append(q, m)
<1>1. /\ p \in Seq(M) /\ Len(p) = Len(q) + 1
      /\ \A i \in 1..Len(q) : p[i] = q[i]
      /\ p[Len(q) + 1] = m
  BY AppendProperties
<1>2. DOMAIN p = 1..(Len(q) + 1) /\ DOMAIN q = 1..Len(q) /\ Len(q) \in Nat
  BY <1>1
<1> HIDE DEF p
<1>3. ASSUME AddLast(q, r) PROVE AddLast(p, r)
  <2>1. PICK i \in 1..Len(q) :
          /\ q[i].op = "add" /\ q[i].dev = r
          /\ \A j \in (i + 1)..Len(q) : ~(q[j].op = "remove" /\ q[j].dev = r)
    BY <1>2, <1>3 DEF AddLast
  <2>2. \A j \in (i + 1)..Len(p) : ~(p[j].op = "remove" /\ p[j].dev = r)
    BY <1>1, <2>1
  <2> QED BY <1>1, <1>2, <2>1, <2>2 DEF AddLast
<1>4. NoRemove(q, r) => NoRemove(p, r)
  BY <1>1, <1>2 DEF NoRemove
<1>5. m.op = "add" /\ m.dev = r => AddLast(p, r)
  BY <1>1, <1>2 DEF AddLast
<1> QED BY <1>3, <1>4, <1>5 DEF p

\* Taking the first message.
LEMMA TailKeeps ==
    ASSUME NEW M, NEW q \in Seq(M), q # <<>>, NEW r
    PROVE  /\ AddLast(q, r) => \/ AddLast(Tail(q), r)
                               \/ /\ Head(q).op = "add" /\ Head(q).dev = r
                                  /\ NoRemove(Tail(q), r)
           /\ NoRemove(q, r) => /\ NoRemove(Tail(q), r)
                                /\ ~(Head(q).op = "remove" /\ Head(q).dev = r)
<1> DEFINE p == Tail(q)
<1>1. /\ p \in Seq(M) /\ Len(p) = Len(q) - 1 /\ Len(q) \in Nat /\ Len(q) > 0
      /\ \A i \in 1..(Len(q) - 1) : p[i] = q[i + 1]
      /\ Head(q) = q[1]
  BY HeadTailProperties
<1>2. DOMAIN p = 1..(Len(q) - 1) /\ DOMAIN q = 1..Len(q)
  BY <1>1
<1> HIDE DEF p
<1>3. ASSUME AddLast(q, r)
      PROVE  \/ AddLast(p, r)
             \/ Head(q).op = "add" /\ Head(q).dev = r /\ NoRemove(p, r)
  <2>1. PICK i \in 1..Len(q) :
          /\ q[i].op = "add" /\ q[i].dev = r
          /\ \A j \in (i + 1)..Len(q) : ~(q[j].op = "remove" /\ q[j].dev = r)
    BY <1>2, <1>3 DEF AddLast
  <2>2. CASE i = 1
    <3>1. \A j \in 1..(Len(q) - 1) : ~(p[j].op = "remove" /\ p[j].dev = r)
      BY <1>1, <2>1, <2>2
    <3> QED BY <1>1, <1>2, <2>1, <2>2, <3>1 DEF NoRemove
  <2>3. CASE i > 1
    <3>1. i - 1 \in 1..(Len(q) - 1) /\ p[i - 1] = q[i]
      BY <1>1, <2>3
    <3>2. \A j \in i..Len(p) : ~(p[j].op = "remove" /\ p[j].dev = r)
      BY <1>1, <2>1, <2>3
    <3> QED BY <1>2, <2>1, <3>1, <3>2 DEF AddLast
  <2> QED BY <2>2, <2>3
<1>4. ASSUME NoRemove(q, r)
      PROVE  NoRemove(p, r) /\ ~(Head(q).op = "remove" /\ Head(q).dev = r)
  <2>1. \A i \in 1..Len(q) : ~(q[i].op = "remove" /\ q[i].dev = r)
    BY <1>2, <1>4 DEF NoRemove
  <2>2. \A i \in 1..(Len(q) - 1) : i + 1 \in 1..Len(q) /\ p[i] = q[i + 1]
    BY <1>1
  <2>3. 1 \in 1..Len(q)
    BY <1>1
  <2> QED BY <1>1, <1>2, <2>1, <2>2, <2>3 DEF NoRemove
<1> QED BY <1>3, <1>4 DEF p

\* A router is listed when an item of the list is that router.
LEMMA ListedDef ==
    ASSUME NEW r PROVE r \in Listed <=> \E k \in DOMAIN list : list[k].dev = r
  BY DEF Listed, ToSet

\* The callbacks drop no router but the one a remove names, and bring none but
\* the one an add names.
LEMMA AddDeviceLists ==
    ASSUME ListOK, NEW d \in Device, AddDevice(d)
    PROVE  Listed' = Listed \union {d.dev}
<1>1. PICK i \in 1..(Len(list) + 1) : list' = InsertAt(list, i, d)
  BY AddDeviceOK
<1>2. list \in Seq(Device)
  BY DEF ListOK
<1>3. /\ list' \in Seq(Device) /\ Len(list') = Len(list) + 1
      /\ \A j \in 1..(Len(list) + 1) :
           list'[j] = IF j < i THEN list[j] ELSE IF j = i THEN d ELSE list[j - 1]
  <2> DEFINE new == InsertAt(list, i, d)
  <2>1. /\ new \in Seq(Device) /\ Len(new) = Len(list) + 1
        /\ \A j \in 1..(Len(list) + 1) :
             new[j] = IF j < i THEN list[j] ELSE IF j = i THEN d ELSE list[j - 1]
    BY <1>2, InsertAtProperties
  <2>2. list' = new
    BY <1>1
  <2> HIDE DEF new
  <2> QED BY <2>1, <2>2
<1>4. DOMAIN list = 1..Len(list) /\ DOMAIN list' = 1..(Len(list) + 1)
  BY <1>2, <1>3
<1>5. list'[i].dev = d.dev
  BY <1>3
<1>6. ASSUME NEW k \in 1..Len(list)
      PROVE  \E j \in 1..(Len(list) + 1) : list'[j].dev = list[k].dev
  <2>1. CASE k < i
    BY <2>1, <1>3
  <2>2. CASE k >= i
    <3>1. k + 1 \in 1..(Len(list) + 1) /\ list'[k + 1] = list[k]
      BY <2>2, <1>2, <1>3
    <3> QED BY <3>1
  <2> QED BY <2>1, <2>2, <1>2
<1>7. ASSUME NEW j \in 1..(Len(list) + 1), j # i
      PROVE  \E k \in 1..Len(list) : list'[j].dev = list[k].dev
  <2>1. CASE j < i
    BY <2>1, <1>3
  <2>2. CASE j > i
    <3>1. j - 1 \in 1..Len(list) /\ list'[j] = list[j - 1]
      BY <2>2, <1>2, <1>3
    <3> QED BY <3>1
  <2> QED BY <2>1, <2>2, <1>2, <1>7
<1>8. Listed \union {d.dev} \subseteq Listed'
  <2>1. ASSUME NEW j \in 1..(Len(list) + 1) PROVE list'[j].dev \in Listed'
    BY <1>4 DEF Listed, ToSet
  <2>2. ASSUME NEW r \in Listed PROVE r \in Listed'
    <3>1. PICK k \in 1..Len(list) : list[k].dev = r
      BY <1>4, ListedDef
    <3> QED BY <1>6, <2>1, <3>1
  <2> QED BY <1>5, <2>1, <2>2
<1>9. Listed' \subseteq Listed \union {d.dev}
  BY <1>4, <1>5, <1>7, ListedDef DEF Listed, ToSet
<1> QED BY <1>8, <1>9

\* remove_device() drops no router but the one it is given.
LEMMA RemoveDeviceLists ==
    ASSUME ListOK, NEW d \in Device, RemoveDevice(d)
    PROVE  Listed \ {d.dev} \subseteq Listed' /\ Listed' \subseteq Listed
<1>1. list \in Seq(Device)
  BY DEF ListOK
<1>2. CASE list' = list
  BY <1>2 DEF Listed
<1>3. ASSUME NEW i \in 1..Len(list), list[i].dev = d.dev, list' = RemoveAt(list, i)
      PROVE  Listed \ {d.dev} \subseteq Listed' /\ Listed' \subseteq Listed
  <2>1. /\ list' \in Seq(Device) /\ Len(list') = Len(list) - 1
        /\ \A j \in 1..(Len(list) - 1) :
             list'[j] = IF j < i THEN list[j] ELSE list[j + 1]
    BY <1>1, <1>3, RemoveAtProperties
  <2>2. DOMAIN list = 1..Len(list) /\ DOMAIN list' = 1..(Len(list) - 1)
    BY <1>1, <2>1
  <2>3. ASSUME NEW k \in 1..Len(list), k # i
        PROVE  \E j \in 1..(Len(list) - 1) : list'[j].dev = list[k].dev
    <3>1. CASE k < i
      BY <3>1, <1>1, <2>1
    <3>2. CASE k > i
      <4>1. k - 1 \in 1..(Len(list) - 1) /\ list'[k - 1] = list[k]
        BY <3>2, <1>1, <2>1
      <4> QED BY <4>1
    <3> QED BY <3>1, <3>2, <2>3
  <2>4. ASSUME NEW r \in Listed, r # d.dev PROVE r \in Listed'
    <3>1. PICK k \in 1..Len(list) : list[k].dev = r
      BY <2>2, <2>4, ListedDef
    <3>2. PICK j \in 1..(Len(list) - 1) : list'[j].dev = r
      BY <1>3, <2>3, <2>4, <3>1
    <3> QED BY <2>2, <3>2 DEF Listed, ToSet
  <2>5. Listed' \subseteq Listed
    <3>1. \A j \in 1..(Len(list) - 1) : \E k \in 1..Len(list) : list'[j] = list[k]
      BY <1>1, <2>1
    <3> QED BY <2>2, <3>1 DEF Listed, ToSet
  <2> QED BY <2>4, <2>5
<1> QED BY <1>1, <1>2, <1>3 DEF RemoveDevice, IsPosition

\* update_device_list() neither drops a router nor brings one.
LEMMA UpdateDeviceListLists ==
    ASSUME ListOK, NEW d \in Device, UpdateDeviceList(d)
    PROVE  Listed' = Listed
<1>1. list \in Seq(Device)
  BY DEF ListOK
<1>2. CASE list' = list
  BY <1>2 DEF Listed
<1>3. ASSUME NEW i \in 1..Len(list), list[i].dev = d.dev,
             list' = InsertAt(RemoveAt(list, i), i, d)
      PROVE  Listed' = Listed
  <2>1. InsertAt(RemoveAt(list, i), i, d) \in Seq(Device)
    BY <1>1, ReplaceProperties
  <2>2. Len(InsertAt(RemoveAt(list, i), i, d)) = Len(list)
    BY <1>1, ReplaceProperties
  <2>3. \A j \in 1..Len(list) :
          InsertAt(RemoveAt(list, i), i, d)[j] = IF j = i THEN d ELSE list[j]
    BY <1>1, ReplaceProperties
  <2>4. DOMAIN list = 1..Len(list) /\ DOMAIN list' = 1..Len(list)
    BY <1>1, <1>3, <2>1, <2>2
  <2>5. \A k \in 1..Len(list) : list'[k].dev = list[k].dev
    BY <1>3, <2>3
  <2> QED BY <2>4, <2>5 DEF Listed, ToSet
<1> QED BY <1>1, <1>2, <1>3 DEF UpdateDeviceList, IsPosition, listVars

\* The last part of Coming(): what the monitor thread, the UI thread and the
\* callback queue hold of r.
Arriving(r) == AddLast(chan, r) \/ (NoRemove(chan, r) /\ Shown(r))

\* Parsing and queueing hand a connected router on.
LEMMA ParseNamePends ==
    ASSUME NEW enum \in Enum, NEW n \in enum.names, NEW r \in present
    PROVE  r \in Pending(enum) => r \in Pending(ParseName(enum, n))
<1>1. CASE r = n
  <2>1. Parse(r) \in ParseName(enum, n).devices /\ Parse(r).dev = r
    BY <1>1 DEF ParseName, Parse
  <2> QED BY <2>1 DEF Pending
<1>2. CASE r # n
  <2>1. enum.names \ {n} = ParseName(enum, n).names
    BY DEF ParseName
  <2>2. enum.devices \subseteq ParseName(enum, n).devices
    BY DEF ParseName
  <2> QED BY <1>2, <2>1, <2>2 DEF Pending
<1> QED BY <1>1, <1>2

\* Queueing one router of an enumeration leaves the others pending.
LEMMA SendPends ==
    ASSUME NEW enum \in Enum, NEW d \in enum.devices, NEW r, r # d.dev
    PROVE  r \in Pending(enum) => r \in Pending([enum EXCEPT !.devices = @ \ {d}])
  BY DEF Pending, Enum

\* Queueing an add or an update takes nothing away, and an add brings r.
LEMMA SendKeeps ==
    ASSUME TypeOK, NEW op \in {"add", "change"}, NEW d \in Device, NEW r, Send(op, d)
    PROVE  /\ AddLast(chan, r) => AddLast(chan', r)
           /\ NoRemove(chan, r) => NoRemove(chan', r)
           /\ op = "add" /\ d.dev = r => AddLast(chan', r)
<1> DEFINE m == [op |-> op, dev |-> d.dev, auth |-> d.auth]
<1>1. m \in Callback /\ m.op = op /\ m.dev = d.dev /\ m.op # "remove"
  BY DEF Callback, Device
<1>2. chan' = Append(chan, m) /\ chan \in Seq(Callback)
  BY DEF Send, TypeOK
<1> HIDE DEF m
<1> QED BY <1>1, <1>2, AppendKeeps

\* At the start nothing is queued anywhere.
LEMMA InitLost == Init => LostInv
<1> SUFFICES ASSUME Init PROVE LostInv
  OBVIOUS
<1>1. \A r : NoRemove(<<>>, r)
  BY DEF NoRemove
<1> QED BY <1>1, InitView DEF Init, LostInv, EndsConnected, NoRouterLost

\* The uevent of a plug, an unplug or a change goes to the end of the uevents.
LEMMA BusKeeps ==
    ASSUME LostInv, NEW n \in Routers, NEW op \in {"add", "remove", "change"},
           udevd' = Append(udevd, [op |-> op, dev |-> n]),
           UNCHANGED <<socket, monVars, chan, uiVars, listVars>>,
           NEW r, r \in present \/ (op = "add" /\ r = n), ~(op = "remove" /\ r = n)
    PROVE  EndsConnected(r)' /\ (monPC \notin {"build", "scan"} => Coming(r)')
<1> DEFINE m == [op |-> op, dev |-> n]
<1>1. m \in Uevent /\ m.op = op /\ m.dev = n /\ udevd \in Seq(Uevent)
  BY DEF Uevent, LostInv, ViewInv, TypeOK
<1> HIDE DEF m
<1>2. /\ AddLast(udevd, r) => AddLast(Append(udevd, m), r)
      /\ NoRemove(udevd, r) => NoRemove(Append(udevd, m), r)
      /\ op = "add" /\ n = r => AddLast(Append(udevd, m), r)
  BY <1>1, AppendKeeps
<1>3. udevd' = Append(udevd, m)
  BY DEF m
<1>4. Listed' = Listed /\ chan' = chan /\ socket' = socket /\ monEnum' = monEnum
        /\ uiEnum' = uiEnum
  BY DEF Listed, listVars, monVars, uiVars
<1> QED BY <1>2, <1>3, <1>4
      DEF LostInv, EndsConnected, NoRouterLost, Coming, Shown

\* udevd's broadcast loses no connected router: the socket either gets the
\* uevent or is not open yet.
LEMMA BroadcastKeeps ==
    ASSUME LostInv, Broadcast, NEW r \in present
    PROVE  EndsConnected(r)' /\ (monPC \notin {"build", "scan"} => Coming(r)')
<1> DEFINE h == Head(udevd)
<1>1. /\ udevd \in Seq(Uevent) /\ udevd # <<>> /\ udevd' = Tail(udevd)
      /\ h \in Uevent /\ socket \in Seq(Uevent)
      /\ Shown(r)' = Shown(r) /\ chan' = chan
  BY HeadTailProperties
     DEF LostInv, ViewInv, TypeOK, Broadcast, Shown, Listed, listVars, monVars, uiVars
<1>2. /\ AddLast(udevd, r) => \/ AddLast(udevd', r)
                              \/ h.op = "add" /\ h.dev = r /\ NoRemove(udevd', r)
      /\ NoRemove(udevd, r) => NoRemove(udevd', r) /\ ~(h.op = "remove" /\ h.dev = r)
  BY <1>1, TailKeeps
<1> HIDE DEF h
<1>3. CASE ~Listening
  <2>1. socket' = <<>> /\ socket = <<>>
    BY <1>3 DEF Listening, LostInv, Broadcast
  <2>2. NoRemove(<<>>, r)
    BY DEF NoRemove
  <2> QED BY <1>2, <1>3, <2>1, <2>2 DEF LostInv, EndsConnected, Listening
<1>4. CASE Listening
  <2>1. socket' = Append(socket, h)
    BY <1>4 DEF Broadcast, h
  <2>2. CASE h.op = "remove" /\ h.dev = r
    BY <1>2, <2>2 DEF LostInv, EndsConnected, NoRouterLost, Coming
  <2>3. CASE ~(h.op = "remove" /\ h.dev = r)
    <3>1. /\ AddLast(socket, r) => AddLast(socket', r)
          /\ NoRemove(socket, r) => NoRemove(socket', r)
          /\ h.op = "add" /\ h.dev = r => AddLast(socket', r)
      BY <1>1, <2>1, <2>3, AppendKeeps
    <3> QED BY <1>1, <1>2, <3>1
          DEF LostInv, EndsConnected, NoRouterLost, Coming
  <2> QED BY <2>2, <2>3
<1> QED BY <1>3, <1>4

\* Forwarding an event of the socket loses no connected router.
LEMMA MonitorEventKeeps ==
    ASSUME LostInv, MonitorEvent, NEW r \in present
    PROVE  EndsConnected(r)' /\ Coming(r)'
<1> DEFINE h == Head(socket)
<1>a. /\ socket \in Seq(Uevent) /\ socket # <<>> /\ socket' = Tail(socket)
      /\ h \in Uevent
  BY HeadTailProperties DEF LostInv, ViewInv, TypeOK, MonitorEvent
<1>b. /\ Parse(h.dev) \in Device /\ Parse(h.dev).dev = h.dev
      /\ h.op \in {"add", "remove", "change"}
  BY <1>a DEF LostInv, ViewInv, TypeOK, Uevent, Parse, Device
<1>c. Shown(r)' = Shown(r) /\ udevd' = udevd /\ Send(h.op, Parse(h.dev))
  BY DEF MonitorEvent, Shown, Listed, listVars, monVars, uiVars
<1>d. Coming(r) /\ EndsConnected(r)
  BY DEF LostInv, MonitorEvent, NoRouterLost
<1>1. /\ socket \in Seq(Uevent) /\ socket # <<>> /\ socket' = Tail(socket)
      /\ h \in Uevent /\ Parse(h.dev) \in Device /\ Send(h.op, Parse(h.dev))
      /\ Parse(h.dev).dev = h.dev /\ h.op \in {"add", "remove", "change"}
      /\ Shown(r)' = Shown(r) /\ udevd' = udevd /\ Coming(r) /\ EndsConnected(r)
  BY <1>a, <1>b, <1>c, <1>d
<1>2. /\ AddLast(socket, r) => \/ AddLast(socket', r)
                               \/ h.op = "add" /\ h.dev = r /\ NoRemove(socket', r)
      /\ NoRemove(socket, r) => NoRemove(socket', r) /\ ~(h.op = "remove" /\ h.dev = r)
  BY <1>1, TailKeeps
<1> HIDE DEF h
<1>3. CASE h.op = "remove"
  <2>1. h.dev # r => /\ AddLast(chan, r) => AddLast(chan', r)
                     /\ NoRemove(chan, r) => NoRemove(chan', r)
    <3> DEFINE m == [op |-> h.op, dev |-> h.dev, auth |-> Parse(h.dev).auth]
    <3>1. m \in Callback /\ m.dev = h.dev /\ m.op = h.op
      BY <1>1 DEF Callback, Device, Uevent
    <3>2. chan' = Append(chan, m) /\ chan \in Seq(Callback)
      BY <1>1 DEF Send, LostInv, ViewInv, TypeOK
    <3> HIDE DEF m
    <3> QED BY <3>1, <3>2, AppendKeeps
  <2> QED BY <1>1, <1>2, <1>3, <2>1 DEF EndsConnected, Coming
<1>4. CASE h.op # "remove"
  <2>1. /\ AddLast(chan, r) => AddLast(chan', r)
        /\ NoRemove(chan, r) => NoRemove(chan', r)
        /\ h.op = "add" /\ h.dev = r => AddLast(chan', r)
    BY <1>1, <1>4, SendKeeps DEF LostInv, ViewInv
  <2> QED BY <1>1, <1>2, <2>1 DEF EndsConnected, Coming
<1> QED BY <1>3, <1>4

\* The callback is taken from the queue and the list is changed accordingly.
LEMMA UiCallbackKeeps ==
    ASSUME LostInv, UiCallback, NEW r
    PROVE  Arriving(r) => Arriving(r)'
<1> DEFINE h == Head(chan)
           d == [dev |-> h.dev, auth |-> h.auth]
<1>1. /\ chan \in Seq(Callback) /\ chan # <<>> /\ chan' = Tail(chan) /\ h \in Callback
  BY HeadTailProperties DEF LostInv, ViewInv, TypeOK, UiCallback
<1>2. d \in Device /\ d.dev = h.dev /\ h.op \in {"add", "remove", "change"} /\ ListOK
  BY <1>1, ListOKFromViewInv DEF Callback, Device, LostInv
<1>3. \/ h.op = "add" /\ AddDevice(d)
      \/ h.op = "remove" /\ RemoveDevice(d)
      \/ h.op = "change" /\ UpdateDeviceList(d)
  BY DEF UiCallback, HandleEvent
<1>4. monEnum' = monEnum /\ uiEnum' = uiEnum
  BY DEF UiCallback, monVars, uiVars
<1>5. /\ AddLast(chan, r) => \/ AddLast(chan', r)
                             \/ h.op = "add" /\ h.dev = r /\ NoRemove(chan', r)
      /\ NoRemove(chan, r) => NoRemove(chan', r) /\ ~(h.op = "remove" /\ h.dev = r)
  BY <1>1, TailKeeps
<1> HIDE DEF h, d
<1>6. /\ h.op = "add" /\ h.dev = r => r \in Listed'
      /\ ~(h.op = "remove" /\ h.dev = r) => (r \in Listed => r \in Listed')
  BY <1>2, <1>3, AddDeviceLists, RemoveDeviceLists, UpdateDeviceListLists
<1> QED BY <1>4, <1>5, <1>6 DEF Arriving, Shown

\* No step loses a router.
LEMMA NextLost == LostInv /\ [Next]_vars => LostInv'
<1> SUFFICES ASSUME LostInv, [Next]_vars PROVE LostInv'
  OBVIOUS
<1>0. ViewInv /\ ViewInv'
  BY NextView DEF LostInv
<1>1. ASSUME NEW n \in Routers, Plug(n) \/ Unplug(n) \/ Authorize(n) PROVE LostInv'
  <2>1. ASSUME NEW r \in present'
        PROVE  EndsConnected(r)' /\ (monPC \notin {"build", "scan"} => Coming(r)')
    <3>1. CASE Plug(n)
      BY <2>1, <3>1, BusKeeps DEF Plug
    <3>2. CASE Unplug(n)
      BY <2>1, <3>2, BusKeeps DEF Unplug
    <3>3. CASE Authorize(n)
      BY <2>1, <3>3, BusKeeps DEF Authorize
    <3> QED BY <1>1, <3>1, <3>2, <3>3
  <2>2. monPC' = monPC /\ socket' = socket /\ chan' = chan
    BY <1>1 DEF Plug, Unplug, Authorize, monVars
  <2> QED BY <1>0, <2>1, <2>2 DEF LostInv, NoRouterLost
<1>2. CASE Broadcast
  <2>1. monPC' = monPC /\ present' = present /\ chan' = chan
          /\ (monPC = "build" => socket' = socket)
    BY <1>2 DEF Broadcast, Listening, monVars, busVars
  <2> QED BY <1>0, <1>2, <2>1, BroadcastKeeps DEF LostInv, NoRouterLost
<1>3. CASE MonitorBuild
  BY <1>0, <1>3 DEF MonitorBuild, LostInv, EndsConnected, NoRouterLost, busVars
<1>4. CASE MonitorScan
  <2>1. \A r \in present : NoRemove(chan, r)
    BY <1>0, <1>4 DEF MonitorScan, LostInv, ViewInv, TypeOK
  <2>2. \A r \in present : r \in Pending(monEnum')
    BY <1>0, <1>4 DEF MonitorScan, Scan, Pending, Enum, ViewInv, TypeOK
  <2>3. UNCHANGED <<present, udevd, socket, chan>> /\ monPC' = "parse"
    BY <1>4 DEF MonitorScan, busVars
  <2> QED BY <1>0, <1>4, <2>1, <2>2, <2>3
        DEF MonitorScan, LostInv, EndsConnected, NoRouterLost, Coming, Shown
<1>5. CASE MonitorParse
  <2>1. /\ UNCHANGED <<present, udevd, socket, chan, uiEnum>> /\ Listed' = Listed
        /\ monPC' \in {"parse", "send"} /\ monPC = "parse"
    BY <1>5 DEF MonitorParse, busVars, uiVars, listVars, Listed
  <2>2. \A r \in present : r \in Pending(monEnum) => r \in Pending(monEnum')
    BY <1>0, <1>5, ParseNamePends DEF MonitorParse, ViewInv, TypeOK
  <2> QED BY <1>0, <2>1, <2>2
        DEF LostInv, EndsConnected, NoRouterLost, Coming, Shown
<1>6. CASE MonitorSend
  <2>1. /\ UNCHANGED <<present, udevd, socket, uiEnum>>
        /\ Listed' = Listed
        /\ monPC = "send" /\ monPC' \in {"send", "poll"}
    BY <1>6 DEF MonitorSend, busVars, uiVars, monVars, listVars, Listed
  <2>2. CASE chan' = chan /\ monEnum' = monEnum
    BY <1>0, <2>1, <2>2 DEF LostInv, EndsConnected, NoRouterLost, Coming, Shown
  <2>3. ASSUME NEW d \in monEnum.devices, Send("add", d),
               monEnum' = [monEnum EXCEPT !.devices = @ \ {d}]
        PROVE  LostInv'
    <3>1. d \in Device /\ monEnum \in Enum /\ TypeOK
      BY <1>0 DEF ViewInv, TypeOK, Enum
    <3>2. \A r : /\ AddLast(chan, r) => AddLast(chan', r)
                 /\ NoRemove(chan, r) => NoRemove(chan', r)
                 /\ d.dev = r => AddLast(chan', r)
      BY <2>3, <3>1, SendKeeps
    <3>3. \A r : r # d.dev => (r \in Pending(monEnum) => r \in Pending(monEnum'))
      BY <2>3, <3>1, SendPends
    <3>4. ASSUME NEW r, Arriving(r) PROVE Arriving(r)'
      <4>1. CASE r = d.dev \/ AddLast(chan, r)
        BY <3>2, <4>1 DEF Arriving
      <4>2. CASE r # d.dev /\ NoRemove(chan, r) /\ Shown(r)
        BY <2>1, <3>2, <3>3, <4>2 DEF Arriving, Shown
      <4> QED BY <3>4, <4>1, <4>2 DEF Arriving
    <3>5. \A r \in present : EndsConnected(r)'
      BY <2>1 DEF LostInv, EndsConnected
    <3>6. \A r : Coming(r) => Coming(r)'
      BY <2>1, <3>4 DEF Coming, Arriving
    <3>7. NoRouterLost'
      BY <2>1, <3>6 DEF LostInv, NoRouterLost
    <3>8. /\ (monPC = "build" => socket = <<>>)'
          /\ (monPC \in {"build", "scan", "parse", "send"} =>
                \A r \in Routers : NoRemove(chan, r))'
      BY <2>1, <3>2 DEF LostInv
    <3> QED BY <1>0, <2>1, <3>5, <3>7, <3>8 DEF LostInv
  <2> QED BY <1>6, <2>2, <2>3 DEF MonitorSend
<1>7. CASE MonitorEvent
  <2>1. UNCHANGED <<present, monPC>> /\ monPC = "poll"
    BY <1>7 DEF MonitorEvent, busVars, monVars
  <2> QED BY <1>0, <1>7, <2>1, MonitorEventKeeps DEF LostInv, NoRouterLost
<1>8. CASE MonitorFails
  <2>1. /\ UNCHANGED <<present, udevd, socket, chan, monEnum, uiEnum>>
        /\ Listed' = Listed /\ monPC' = "dead" /\ monPC = "poll"
    BY <1>8 DEF MonitorFails, busVars, uiVars, listVars, Listed
  <2> QED BY <1>0, <2>1 DEF LostInv, EndsConnected, NoRouterLost, Coming, Shown
<1>9. CASE UiCallback
  <2>1. /\ UNCHANGED <<present, udevd, socket, monPC>>
        /\ chan \in Seq(Callback) /\ chan # <<>> /\ chan' = Tail(chan)
    BY <1>0, <1>9 DEF UiCallback, busVars, monVars, ViewInv, TypeOK
  <2>2. \A r : Arriving(r) => Arriving(r)'
    BY <1>9, UiCallbackKeeps
  <2>3. \A r : NoRemove(chan, r) => NoRemove(chan', r)
    BY <2>1, TailKeeps
  <2>4. \A r \in present : EndsConnected(r)'
    BY <2>1 DEF LostInv, EndsConnected
  <2>5. \A r : Coming(r) => Coming(r)'
    BY <2>1, <2>2 DEF Coming, Arriving
  <2> QED BY <1>0, <2>1, <2>3, <2>4, <2>5 DEF LostInv, NoRouterLost
<1>10. CASE UiMove
  <2>1. /\ UNCHANGED <<present, udevd, socket, chan, monPC, monEnum, uiEnum>>
        /\ Listed' = Listed
    BY <1>10 DEF UiMove, busVars, uiVars, monVars, Listed
  <2> QED BY <1>0, <2>1 DEF LostInv, EndsConnected, NoRouterLost, Coming, Shown
<1>11. CASE RefreshScan
  <2>1. UNCHANGED <<present, udevd, socket, chan, monPC, monEnum>>
    BY <1>11 DEF RefreshScan, busVars, monVars
  <2>2. \A r \in present : r \in Pending(uiEnum')
    BY <1>0, <1>11 DEF RefreshScan, Scan, Pending, Enum, ViewInv, TypeOK
  <2> QED BY <1>0, <2>1, <2>2
        DEF LostInv, EndsConnected, NoRouterLost, Coming, Shown
<1>12. CASE RefreshParse
  <2>1. /\ UNCHANGED <<present, udevd, socket, chan, monPC, monEnum>>
        /\ Listed' = Listed
    BY <1>12 DEF RefreshParse, busVars, monVars, listVars, Listed
  <2>2. \A r \in present : r \in Pending(uiEnum) => r \in Pending(uiEnum')
    BY <1>0, <1>12, ParseNamePends DEF RefreshParse, ViewInv, TypeOK
  <2> QED BY <1>0, <2>1, <2>2
        DEF LostInv, EndsConnected, NoRouterLost, Coming, Shown
<1>13. CASE RefreshSend
  <2>1. /\ UNCHANGED <<present, udevd, socket, monPC, monEnum>>
        /\ Listed' = Listed
    BY <1>13 DEF RefreshSend, busVars, uiVars, monVars, listVars, Listed
  <2>2. CASE chan' = chan /\ uiEnum' = uiEnum
    BY <1>0, <2>1, <2>2 DEF LostInv, EndsConnected, NoRouterLost, Coming, Shown
  <2>3. ASSUME NEW d \in uiEnum.devices, Send("add", d),
               uiEnum' = [uiEnum EXCEPT !.devices = @ \ {d}]
        PROVE  LostInv'
    <3>1. d \in Device /\ uiEnum \in Enum /\ TypeOK
      BY <1>0 DEF ViewInv, TypeOK, Enum
    <3>2. \A r : /\ AddLast(chan, r) => AddLast(chan', r)
                 /\ NoRemove(chan, r) => NoRemove(chan', r)
                 /\ d.dev = r => AddLast(chan', r)
      BY <2>3, <3>1, SendKeeps
    <3>3. \A r : r # d.dev => (r \in Pending(uiEnum) => r \in Pending(uiEnum'))
      BY <2>3, <3>1, SendPends
    <3>4. ASSUME NEW r, Arriving(r) PROVE Arriving(r)'
      <4>1. CASE r = d.dev \/ AddLast(chan, r)
        BY <3>2, <4>1 DEF Arriving
      <4>2. CASE r # d.dev /\ NoRemove(chan, r) /\ Shown(r)
        BY <2>1, <3>2, <3>3, <4>2 DEF Arriving, Shown
      <4> QED BY <3>4, <4>1, <4>2 DEF Arriving
    <3>5. \A r \in present : EndsConnected(r)'
      BY <2>1 DEF LostInv, EndsConnected
    <3>6. \A r : Coming(r) => Coming(r)'
      BY <2>1, <3>4 DEF Coming, Arriving
    <3>7. NoRouterLost'
      BY <2>1, <3>6 DEF LostInv, NoRouterLost
    <3>8. /\ (monPC = "build" => socket = <<>>)'
          /\ (monPC \in {"build", "scan", "parse", "send"} =>
                \A r \in Routers : NoRemove(chan, r))'
      BY <2>1, <3>2 DEF LostInv
    <3> QED BY <1>0, <2>1, <3>5, <3>7, <3>8 DEF LostInv
  <2> QED BY <1>13, <2>2, <2>3 DEF RefreshSend
<1>14. CASE UNCHANGED vars
  <2>1. /\ UNCHANGED <<present, udevd, socket, chan, monPC, monEnum, uiEnum>>
        /\ Listed' = Listed
    BY <1>14 DEF vars, progVars, busVars, uiVars, monVars, listVars, Listed
  <2> QED BY <1>0, <2>1 DEF LostInv, EndsConnected, NoRouterLost, Coming, Shown
<1> QED BY <1>1, <1>2, <1>3, <1>4, <1>5, <1>6, <1>7, <1>8, <1>9, <1>10, <1>11,
           <1>12, <1>13, <1>14 DEF Next, Step, Monitor, Refresh

\* From the first enumeration on, every connected router is in the list or on
\* its way there: building the monitor before enumerating leaves no gap, and
\* neither the three queues nor the handlers drop or reorder what matters.
THEOREM NoRouterIsLost == Spec => []NoRouterLost
<1>1. Spec => []LostInv
  BY InitLost, NextLost, PTL DEF Spec
<1>2. LostInv => NoRouterLost
  BY DEF LostInv
<1> QED BY <1>1, <1>2, PTL
-----------------------------------------------------------------------------
(***************************************************************************)
(* The list implements a live view of the bus. Every step moves messages   *)
(* on, so that the announcements only shrink but for a plug, an unplug or  *)
(* F5; that none of them is dropped too early is NoRouterLost of the next  *)
(* state.                                                                  *)
(***************************************************************************)
\* What queueing a message and taking one do to the routers it is about.
LEMMA AppendAbout ==
    ASSUME NEW M, NEW q \in Seq(M), NEW m \in M, NEW op
    PROVE  About(Append(q, m), op) =
               About(q, op) \union (IF m.op = op THEN {m.dev} ELSE {})
<1> DEFINE p == Append(q, m)
<1>1. /\ DOMAIN p = 1..(Len(q) + 1) /\ DOMAIN q = 1..Len(q) /\ Len(q) \in Nat
      /\ \A i \in 1..Len(q) : p[i] = q[i]
      /\ p[Len(q) + 1] = m
  BY AppendProperties
<1> HIDE DEF p
<1>2. About(p, op) \subseteq About(q, op) \union (IF m.op = op THEN {m.dev} ELSE {})
  BY <1>1 DEF About
<1>3. About(q, op) \subseteq About(p, op)
  BY <1>1 DEF About
<1>4. m.op = op => m.dev \in About(p, op)
  BY <1>1 DEF About
<1> QED BY <1>2, <1>3, <1>4 DEF p

LEMMA TailAbout ==
    ASSUME NEW M, NEW q \in Seq(M), q # <<>>, NEW op
    PROVE  About(q, op) =
               About(Tail(q), op) \union (IF Head(q).op = op THEN {Head(q).dev} ELSE {})
<1> DEFINE p == Tail(q)
<1>1. /\ DOMAIN p = 1..(Len(q) - 1) /\ DOMAIN q = 1..Len(q)
      /\ Len(q) \in Nat /\ Len(q) > 0
      /\ \A i \in 1..(Len(q) - 1) : p[i] = q[i + 1]
      /\ Head(q) = q[1]
  BY HeadTailProperties
<1> HIDE DEF p
<1>2. About(p, op) \subseteq About(q, op)
  BY <1>1 DEF About
<1>3. Head(q).op = op => Head(q).dev \in About(q, op)
  BY <1>1 DEF About
<1>4. ASSUME NEW r \in About(q, op), r \notin About(p, op)
      PROVE  Head(q).op = op /\ Head(q).dev = r
  <2>1. PICK i \in 1..Len(q) : q[i].op = op /\ q[i].dev = r
    BY <1>1, <1>4 DEF About
  <2>2. CASE i = 1
    BY <1>1, <2>1, <2>2
  <2>3. CASE i > 1
    <3>1. i - 1 \in 1..(Len(q) - 1) /\ p[i - 1] = q[i]
      BY <1>1, <2>3
    <3> QED BY <1>1, <1>4, <2>1, <3>1 DEF About
  <2> QED BY <2>2, <2>3
<1> QED BY <1>2, <1>3, <1>4 DEF p

\* A router that is on its way to the list is announced.
LEMMA ComingAnnounced ==
    ASSUME NEW r, Coming(r), r \notin Listed, monPC \notin {"build", "scan"}
    PROVE  r \in Announced
<1>1. \A q : AddLast(q, r) => r \in About(q, "add")
  BY DEF AddLast, About
<1> QED BY <1>1 DEF Coming, Shown, Announced, Queued

\* The condition under which announcements may be dropped.
LEMMA MissingAnnounced == LostInv => present \ Listed \subseteq Announced
<1> SUFFICES ASSUME LostInv PROVE present \ Listed \subseteq Announced
  OBVIOUS
<1>1. CASE monPC \in {"build", "scan"}
  BY <1>1 DEF LostInv, ViewInv, TypeOK, Announced
<1>2. CASE monPC \notin {"build", "scan"}
  BY <1>2, ComingAnnounced DEF LostInv, NoRouterLost
<1> QED BY <1>1, <1>2

\* All that is announced is a router.
LEMMA AboutType ==
    ASSUME NEW q, q \in Seq(Uevent) \/ q \in Seq(Callback), NEW op
    PROVE  About(q, op) \subseteq Routers
<1>1. \A i \in DOMAIN q : q[i] \in Uevent \union Callback
  OBVIOUS
<1>2. \A m \in Uevent \union Callback : m.dev \in Routers
  BY DEF Uevent, Callback
<1> QED BY <1>1, <1>2 DEF About

LEMMA AnnouncedType == ViewInv => Announced \subseteq Routers
<1> SUFFICES ASSUME ViewInv PROVE Announced \subseteq Routers
  OBVIOUS
<1>1. Queued("add") \subseteq Routers
  BY AboutType DEF Queued, ViewInv, TypeOK
<1>2. Pending(monEnum) \subseteq Routers /\ Pending(uiEnum) \subseteq Routers
  BY DEF ViewInv, TypeOK, Pending, Enum, Device
<1> QED BY <1>1, <1>2 DEF Announced

\* A step that leaves the bus alone delivers announcements.
LEMMA Delivers ==
    ASSUME LostInv', UNCHANGED present,
           Listed' \ Listed \subseteq Announced,
           Listed \ Listed' \subseteq Queued("remove"),
           Announced' \subseteq Announced,
           Queued("remove")' \subseteq Queued("remove")
    PROVE  View!Deliver
<1>1. LostInv' => (present \ Listed \subseteq Announced)'
  BY MissingAnnounced, PTL
<1>2. present \ Listed' \subseteq Announced'
  BY <1>1
<1> QED BY <1>2 DEF View!Deliver

\* The uevent of a change of the bus.
LEMMA UeventAbout ==
    ASSUME TypeOK, NEW o \in {"add", "remove", "change"}, NEW r \in Routers,
           udevd' = Append(udevd, [op |-> o, dev |-> r]), NEW op
    PROVE  About(udevd', op) = About(udevd, op) \union (IF o = op THEN {r} ELSE {})
<1> DEFINE m == [op |-> o, dev |-> r]
<1>1. m \in Uevent /\ m.op = o /\ m.dev = r
  BY DEF Uevent
<1>2. udevd' = Append(udevd, m) /\ udevd \in Seq(Uevent)
  BY DEF TypeOK
<1> HIDE DEF m
<1> QED BY <1>1, <1>2, AppendAbout

\* A message that is queued for the UI thread, and what it does there.
LEMMA SendAbout ==
    ASSUME TypeOK, NEW o \in {"add", "remove", "change"}, NEW d \in Device,
           Send(o, d), NEW op
    PROVE  About(chan', op) = About(chan, op) \union (IF o = op THEN {d.dev} ELSE {})
<1> DEFINE m == [op |-> o, dev |-> d.dev, auth |-> d.auth]
<1>1. m \in Callback /\ m.op = o /\ m.dev = d.dev
  BY DEF Callback, Device
<1>2. chan' = Append(chan, m) /\ chan \in Seq(Callback)
  BY DEF Send, TypeOK
<1> HIDE DEF m
<1> QED BY <1>1, <1>2, AppendAbout

LEMMA HandlerLists ==
    ASSUME ListOK, NEW c \in Callback, HandleEvent(c)
    PROVE  /\ Listed' \ Listed \subseteq IF c.op = "add" THEN {c.dev} ELSE {}
           /\ Listed \ Listed' \subseteq IF c.op = "remove" THEN {c.dev} ELSE {}
<1> DEFINE d == [dev |-> c.dev, auth |-> c.auth]
<1>1. d \in Device /\ d.dev = c.dev
  BY DEF Device, Callback
<1>2. \/ c.op = "add" /\ AddDevice(d)
      \/ c.op = "remove" /\ RemoveDevice(d)
      \/ c.op = "change" /\ UpdateDeviceList(d)
  BY DEF HandleEvent
<1> HIDE DEF d
<1>3. CASE c.op = "add" /\ AddDevice(d)
  BY <1>1, <1>3, AddDeviceLists
<1>4. CASE c.op = "remove" /\ RemoveDevice(d)
  BY <1>1, <1>4, RemoveDeviceLists
<1>5. CASE c.op = "change" /\ UpdateDeviceList(d)
  BY <1>1, <1>5, UpdateDeviceListLists
<1> QED BY <1>2, <1>3, <1>4, <1>5

\* What taking the uevents and the callbacks off their queues leaves announced.
LEMMA BroadcastDelivers ==
    ASSUME LostInv, LostInv', Broadcast PROVE View!Deliver
<1>0. LostInv /\ TypeOK
  BY DEF LostInv, ViewInv
<1>1. \A op : /\ About(udevd', op) \subseteq About(udevd, op)
              /\ About(socket', op) \subseteq About(socket, op) \union About(udevd, op)
  <2> SUFFICES ASSUME NEW op
               PROVE  /\ About(udevd', op) \subseteq About(udevd, op)
                      /\ About(socket', op) \subseteq
                             About(socket, op) \union About(udevd, op)
    OBVIOUS
  <2>1. /\ udevd \in Seq(Uevent) /\ udevd # <<>> /\ socket \in Seq(Uevent)
        /\ Head(udevd) \in Uevent /\ udevd' = Tail(udevd)
        /\ socket' = socket \/ socket' = Append(socket, Head(udevd))
    BY <1>0, HeadTailProperties DEF Broadcast, TypeOK
  <2>2. About(udevd, op) = About(udevd', op) \union
            (IF Head(udevd).op = op THEN {Head(udevd).dev} ELSE {})
    BY <2>1, TailAbout
  <2>3. About(Append(socket, Head(udevd)), op) = About(socket, op) \union
            (IF Head(udevd).op = op THEN {Head(udevd).dev} ELSE {})
    BY <2>1, AppendAbout
  <2> QED BY <2>1, <2>2, <2>3
<1>2. /\ UNCHANGED <<present, monPC, monEnum, chan, uiEnum>>
      /\ Listed' = Listed
  BY DEF Broadcast, busVars, monVars, uiVars, listVars, Listed
<1>3. \A op : Queued(op)' \subseteq Queued(op)
  BY <1>1, <1>2 DEF Queued
<1>4. Announced' \subseteq Announced
  BY <1>0, <1>2, <1>3, AboutType DEF Announced, Pending
<1> QED BY <1>2, <1>3, <1>4, Delivers

LEMMA MonitorEventDelivers ==
    ASSUME LostInv, LostInv', MonitorEvent PROVE View!Deliver
<1>0. LostInv /\ TypeOK
  BY DEF LostInv, ViewInv
<1>b. /\ socket \in Seq(Uevent) /\ socket # <<>> /\ socket' = Tail(socket)
      /\ Send(Head(socket).op, Parse(Head(socket).dev))
  BY <1>0 DEF MonitorEvent, TypeOK
<1>c. Head(socket) \in Uevent
  BY <1>b, HeadTailProperties
<1>d. /\ Head(socket).dev \in Routers
      /\ Head(socket).op \in {"add", "remove", "change"}
  BY <1>c DEF Uevent
<1>1. /\ socket \in Seq(Uevent) /\ socket # <<>> /\ socket' = Tail(socket)
      /\ Head(socket) \in Uevent /\ Head(socket).dev \in Routers
      /\ Head(socket).op \in {"add", "remove", "change"}
      /\ Send(Head(socket).op, Parse(Head(socket).dev))
  BY <1>b, <1>c, <1>d
<1>a. \A r \in Routers : Parse(r) \in Device /\ Parse(r).dev = r
  BY <1>0 DEF Parse, Device, TypeOK
<1>2. ASSUME NEW op
      PROVE  About(socket', op) \union About(chan', op) \subseteq
                 About(socket, op) \union About(chan, op)
  <2>1. About(socket, op) = About(socket', op) \union
            (IF Head(socket).op = op THEN {Head(socket).dev} ELSE {})
    BY <1>1, TailAbout
  <2>2. About(chan', op) = About(chan, op) \union
            (IF Head(socket).op = op THEN {Head(socket).dev} ELSE {})
    BY <1>0, <1>1, <1>a, SendAbout
  <2> QED BY <2>1, <2>2
<1>3. /\ UNCHANGED <<present, udevd, monPC, monEnum, uiEnum>>
      /\ Listed' = Listed
  BY DEF MonitorEvent, busVars, monVars, uiVars, listVars, Listed
<1>4. \A op : Queued(op)' \subseteq Queued(op)
  BY <1>2, <1>3 DEF Queued
<1>5. Announced' \subseteq Announced
  BY <1>3, <1>4 DEF Announced, Pending
<1> QED BY <1>3, <1>4, <1>5, Delivers

LEMMA UiCallbackDelivers ==
    ASSUME LostInv, LostInv', UiCallback PROVE View!Deliver
<1>0. LostInv /\ TypeOK /\ ListOK
  BY ListOKFromViewInv DEF LostInv, ViewInv
<1>1. /\ chan \in Seq(Callback) /\ chan # <<>> /\ chan' = Tail(chan)
      /\ Head(chan) \in Callback /\ HandleEvent(Head(chan))
  BY <1>0, HeadTailProperties DEF UiCallback, TypeOK
<1>2. \A op : About(chan, op) = About(chan', op) \union
          (IF Head(chan).op = op THEN {Head(chan).dev} ELSE {})
  BY <1>1, TailAbout
<1>3. UNCHANGED <<present, udevd, socket, monPC, monEnum, uiEnum>>
  BY DEF UiCallback, busVars, monVars, uiVars
<1>4. \A op : Queued(op)' \subseteq Queued(op)
  BY <1>2, <1>3 DEF Queued
<1>5. Announced' \subseteq Announced
  BY <1>3, <1>4 DEF Announced, Pending
<1>6. /\ Listed' \ Listed \subseteq About(chan, "add")
      /\ Listed \ Listed' \subseteq About(chan, "remove")
  BY <1>0, <1>1, <1>2, HandlerLists
<1>7. monPC \in {"build", "scan"} => Listed' \ Listed \subseteq Routers
  BY <1>0, <1>6, AboutType DEF TypeOK
<1>8. Listed' \ Listed \subseteq Announced /\ Listed \ Listed' \subseteq Queued("remove")
  BY <1>6, <1>7 DEF Announced, Queued
<1> QED BY <1>3, <1>4, <1>5, <1>8, Delivers

\* What an enumeration has yet to queue: parsing adds nothing to it and what
\* is queued is announced by the queue.
LEMMA ParsePends ==
    ASSUME NEW enum \in Enum, NEW n \in enum.names
    PROVE  Pending(ParseName(enum, n)) \subseteq Pending(enum)
<1>1. Parse(n).dev = n
  BY DEF Parse
<1>2. /\ ParseName(enum, n).names \subseteq enum.names
      /\ ParseName(enum, n).devices \subseteq enum.devices \union {Parse(n)}
  BY DEF ParseName
<1> QED BY <1>1, <1>2 DEF Pending

LEMMA SendDelivers ==
    ASSUME LostInv, LostInv', NEW enum \in Enum, NEW d \in enum.devices, Send("add", d),
           UNCHANGED <<present, udevd, socket, monPC, list>>,
           monPC \notin {"build", "scan"},
           \/ /\ enum = monEnum /\ uiEnum' = uiEnum
              /\ monEnum' = [enum EXCEPT !.devices = @ \ {d}]
           \/ /\ enum = uiEnum /\ monEnum' = monEnum
              /\ uiEnum' = [enum EXCEPT !.devices = @ \ {d}]
    PROVE  View!Deliver
<1>0. TypeOK /\ d \in Device
  BY DEF LostInv, ViewInv, Enum
<1>1. /\ About(chan', "add") = About(chan, "add") \union {d.dev}
      /\ About(chan', "remove") = About(chan, "remove")
  BY <1>0, SendAbout
<1>2. Pending([enum EXCEPT !.devices = @ \ {d}]) \union {d.dev} \subseteq Pending(enum)
  BY DEF Pending, Enum
<1>3. /\ Queued("add")' = Queued("add") \union {d.dev}
      /\ Queued("remove")' = Queued("remove")
      /\ Listed' = Listed
  BY <1>1 DEF Queued, Listed
<1>4. \/ Pending(monEnum)' \union {d.dev} \subseteq Pending(monEnum) /\ uiEnum' = uiEnum
      \/ Pending(uiEnum)' \union {d.dev} \subseteq Pending(uiEnum) /\ monEnum' = monEnum
  BY <1>2 DEF Pending
<1>5. Announced' \subseteq Announced
  BY <1>3, <1>4 DEF Announced, Pending
<1> QED BY <1>3, <1>5, Delivers

\* Every step is one of the view, or none.
LEMMA NextImplements == LostInv /\ LostInv' /\ [Next]_vars => [View!Next]_(View!vars)
<1> SUFFICES ASSUME LostInv, LostInv', [Next]_vars PROVE [View!Next]_(View!vars)
  OBVIOUS
<1>0. TypeOK /\ LostInv /\ ViewInv /\ monEnum \in Enum /\ uiEnum \in Enum
  BY DEF LostInv, ViewInv, TypeOK
<1> USE DEF busVars, monVars, uiVars, listVars
<1>1. ASSUME NEW r \in Routers, Plug(r) PROVE View!Next
  <2>0. \A op : About(udevd', op) = About(udevd, op) \union
                   (IF "add" = op THEN {r} ELSE {})
    BY <1>0, <1>1, UeventAbout DEF Plug
  <2>1. About(udevd', "add") = About(udevd, "add") \union {r}
    BY <2>0
  <2>2. About(udevd', "remove") = About(udevd, "remove")
    BY <2>0
  <2>3. /\ Queued("add")' = Queued("add") \union {r}
        /\ Queued("remove")' = Queued("remove")
        /\ Listed' = Listed
    BY <1>1, <2>1, <2>2 DEF Plug, Queued, Listed
  <2>4. Announced' = Announced \union {r}
    BY <1>1, <2>3 DEF Plug, Announced, Pending
  <2>5. View!Plug(r)
    BY <1>1, <2>3, <2>4 DEF Plug, View!Plug
  <2> QED BY <2>5 DEF View!Next
<1>2. ASSUME NEW r \in Routers, Unplug(r) PROVE View!Next
  <2>0. \A op : About(udevd', op) = About(udevd, op) \union
                   (IF "remove" = op THEN {r} ELSE {})
    BY <1>0, <1>2, UeventAbout DEF Unplug
  <2>1. About(udevd', "add") = About(udevd, "add")
    BY <2>0
  <2>2. About(udevd', "remove") = About(udevd, "remove") \union {r}
    BY <2>0
  <2>3. /\ Queued("add")' = Queued("add")
        /\ Queued("remove")' = Queued("remove") \union {r}
        /\ Listed' = Listed
    BY <1>2, <2>1, <2>2 DEF Unplug, Queued, Listed
  <2>4. Announced' = Announced
    BY <1>2, <2>3 DEF Unplug, Announced, Pending
  <2>5. View!Unplug(r)
    BY <1>2, <2>3, <2>4 DEF Unplug, View!Unplug
  <2> QED BY <2>5 DEF View!Next
<1>3. ASSUME NEW r \in Routers, Authorize(r) PROVE UNCHANGED View!vars
  <2>0. \A op : About(udevd', op) = About(udevd, op) \union
                   (IF "change" = op THEN {r} ELSE {})
    BY <1>0, <1>3, UeventAbout DEF Authorize
  <2>1. \A op \in {"add", "remove"} : About(udevd', op) = About(udevd, op)
    BY <2>0
  <2>2. /\ Queued("add")' = Queued("add") /\ Queued("remove")' = Queued("remove")
        /\ Listed' = Listed /\ present' = present
    BY <1>3, <2>1 DEF Authorize, Queued, Listed
  <2>3. Announced' = Announced
    BY <1>3, <2>2 DEF Authorize, Announced, Pending
  <2> QED BY <2>2, <2>3 DEF View!vars
<1>4. CASE Broadcast
  BY <1>4, BroadcastDelivers DEF View!Next
<1>5. ASSUME UNCHANGED <<present, udevd, socket, chan, list>>,
             Pending(uiEnum)' \subseteq Pending(uiEnum),
             \/ UNCHANGED <<monPC, monEnum>>
             \/ monPC \in {"build", "scan"}
             \/ monPC' \notin {"build", "scan"} /\ Pending(monEnum)' \subseteq Pending(monEnum)
      PROVE  View!Next
  <2>1. /\ Queued("add")' = Queued("add") /\ Queued("remove")' = Queued("remove")
        /\ Listed' = Listed
    BY <1>5 DEF Queued, Listed
  <2>2. CASE monPC \in {"build", "scan"}
    <3>1. ViewInv' => (Announced \subseteq Routers)'
      BY AnnouncedType, PTL
    <3>2. Announced' \subseteq Announced
      BY <2>2, <3>1 DEF LostInv, Announced
    <3> QED BY <1>5, <2>1, <3>2, Delivers DEF View!Next
  <2>3. CASE monPC \notin {"build", "scan"}
    <3>1. Announced' \subseteq Announced
      BY <1>5, <2>1, <2>3 DEF Announced, Pending
    <3> QED BY <1>5, <2>1, <3>1, Delivers DEF View!Next
  <2> QED BY <2>2, <2>3
<1>6. CASE MonitorBuild \/ MonitorFails
  BY <1>5, <1>6 DEF MonitorBuild, MonitorFails, Pending
<1>7. CASE MonitorScan
  BY <1>5, <1>7 DEF MonitorScan, Pending
<1>8. CASE MonitorParse
  <2>1. Pending(monEnum)' \subseteq Pending(monEnum)
    BY <1>0, <1>8, ParsePends DEF MonitorParse, Pending
  <2> QED BY <1>5, <1>8, <2>1 DEF MonitorParse, Pending
<1>9. CASE MonitorSend
  <2>1. CASE chan' = chan /\ monEnum' = monEnum /\ monPC' = "poll"
    BY <1>5, <1>9, <2>1 DEF MonitorSend, Pending
  <2>2. ASSUME NEW d \in monEnum.devices, Send("add", d),
               monEnum' = [monEnum EXCEPT !.devices = @ \ {d}], monPC' = monPC
        PROVE  View!Next
    <3>1. UNCHANGED <<present, udevd, socket, uiEnum, list>> /\ monPC = "send"
      BY <1>9 DEF MonitorSend
    <3> QED BY <1>0, <2>2, <3>1, SendDelivers DEF View!Next
  <2> QED BY <1>9, <2>1, <2>2 DEF MonitorSend
<1>10. CASE MonitorEvent
  BY <1>10, MonitorEventDelivers DEF View!Next
<1>11. CASE UiCallback
  BY <1>11, UiCallbackDelivers DEF View!Next
<1>12. CASE UiMove
  BY <1>5, <1>12 DEF UiMove, Pending
<1>13. CASE RefreshScan
  <2>1. /\ UNCHANGED <<present, udevd, socket, chan, monPC, monEnum>>
        /\ Queued("add")' = Queued("add") /\ Queued("remove")' = Queued("remove")
    BY <1>13 DEF RefreshScan, Queued
  <2>2. Listed' = {}
    BY <1>13, EmptySeq DEF RefreshScan, Listed, ToSet
  <2>3. present \subseteq Pending(uiEnum)' /\ Pending(uiEnum)' \subseteq Pending(uiEnum) \union present
    BY <1>0, <1>13 DEF RefreshScan, Scan, Pending, Enum
  <2>4. present \subseteq Routers
    BY <1>0 DEF TypeOK
  <2>5. /\ present \subseteq Announced'
        /\ Announced' \subseteq Announced \union present
    BY <2>1, <2>3, <2>4 DEF Announced, Pending
  <2> QED BY <2>1, <2>2, <2>5 DEF View!Next, View!Refresh
<1>14. CASE RefreshParse
  <2>1. Pending(uiEnum)' \subseteq Pending(uiEnum)
    BY <1>0, <1>14, ParsePends DEF RefreshParse, Pending
  <2> QED BY <1>5, <1>14, <2>1 DEF RefreshParse
<1>15. CASE RefreshSend
  <2>1. UNCHANGED <<present, udevd, socket, monPC, monEnum, list>>
    BY <1>15 DEF RefreshSend
  <2>2. CASE chan' = chan /\ uiEnum' = uiEnum
    BY <1>5, <2>1, <2>2 DEF Pending
  <2>3. ASSUME NEW d \in uiEnum.devices, Send("add", d),
               uiEnum' = [uiEnum EXCEPT !.devices = @ \ {d}]
        PROVE  View!Next \/ UNCHANGED View!vars
    <3>1. CASE monPC \notin {"build", "scan"}
      BY <1>0, <2>1, <2>3, <3>1, SendDelivers DEF View!Next
    <3>2. CASE monPC \in {"build", "scan"}
      <4>1. About(chan', "remove") = About(chan, "remove")
        BY <1>0, <2>3, SendAbout DEF Enum
      <4>2. /\ Queued("remove")' = Queued("remove") /\ Listed' = Listed
            /\ Announced' = Announced
        BY <2>1, <3>2, <4>1 DEF Queued, Listed, Announced
      <4> QED BY <2>1, <4>2 DEF View!vars
    <3> QED BY <3>1, <3>2
  <2> QED BY <1>15, <2>2, <2>3 DEF RefreshSend
<1>16. CASE UNCHANGED vars
  BY <1>16 DEF vars, progVars, View!vars, Listed, Announced, Queued, Pending
<1> QED BY <1>1, <1>2, <1>3, <1>4, <1>6, <1>7, <1>8, <1>9, <1>10, <1>11, <1>12, <1>13,
           <1>14, <1>15, <1>16 DEF Next, Step, Monitor, Refresh

\* The list implements the live view: a router that stays connected is never
\* dropped on its way to the screen nor taken off it, whichever enumeration,
\* queue or handler it passes through and in whatever order.
THEOREM ListImplementsView == Spec => ListFollowsBus
<1>1. Init => View!Init
  <2> SUFFICES ASSUME Init PROVE View!Init
    OBVIOUS
  <2>1. Listed = {} /\ Queued("remove") = {} /\ Announced = Routers
    BY EmptySeq DEF Init, Listed, ToSet, Queued, About, Announced
  <2> QED BY <2>1 DEF Init, View!Init
<1>2. Spec => []LostInv
  BY InitLost, NextLost, PTL DEF Spec
<1> QED BY <1>1, <1>2, NextImplements, PTL DEF Spec, View!Spec, ListFollowsBus
-----------------------------------------------------------------------------
(***************************************************************************)
(* The list in a quiet environment. The messages under way lead from the   *)
(* routers on the screen to the ones that have been seen on the bus, each  *)
(* add of a router that is absent by then and each remove of one that is   *)
(* there; the last of them about a router has the attributes it has now,   *)
(* once no uevent of it is under way any more.                             *)
(***************************************************************************)
Moves(m, S, T) ==
    \/ m.op = "add" /\ m.dev \notin S /\ T = S \union {m.dev}
    \/ m.op = "remove" /\ m.dev \in S /\ T = S \ {m.dev}
    \/ m.op = "change" /\ m.dev \in S /\ T = S

Leads(q, S, T) ==
    \E f \in [0..Len(q) -> SUBSET Routers] :
        /\ f[0] = S /\ f[Len(q)] = T
        /\ \A k \in 1..Len(q) : Moves(q[k], f[k - 1], f[k])

\* What the program has seen of the bus: events or enumerations told it.
Seen == IF monPC \in {"build", "scan"} THEN {}
        ELSE present \ (Pending(monEnum) \union Pending(uiEnum))

MembersInv ==
    \E A, B \in SUBSET Routers :
        Leads(chan, Listed, A) /\ Leads(socket, A, B) /\ Leads(udevd, B, Seen)

\* An enumeration that the bus does not change under has what the bus has.
EnumExact(enum) ==
    /\ enum.names \subseteq present
    /\ \A d \in enum.devices :
           d.dev \in present \ enum.names /\ d.auth = auth[d.dev]

Enumerating == monPC \in {"build", "scan", "parse", "send"} \/ uiPC # "loop"

PhaseInv ==
    /\ Enumerating => udevd = <<>> /\ socket = <<>>
    /\ monPC \notin {"poll", "dead"} => uiPC = "loop"
    /\ monPC \in {"build", "scan", "poll", "dead"} => Pending(monEnum) = {}
    /\ uiPC = "loop" => Pending(uiEnum) = {}
    /\ monPC = "send" => monEnum.names = {}
    /\ uiPC = "send" => uiEnum.names = {}
    /\ EnumExact(monEnum) /\ EnumExact(uiEnum)

Silent(q, r) == \A i \in DOMAIN q : q[i].dev # r

LastHas(q, r, a) ==
    \A i \in DOMAIN q :
        q[i].dev = r /\ (\A j \in (i + 1)..Len(q) : q[j].dev # r) => q[i].auth = a

AttrInv ==
    \A r \in Routers :
        Silent(udevd, r) /\ Silent(socket, r) =>
            /\ LastHas(chan, r, auth[r])
            /\ Silent(chan, r) => \A x \in ToSet(list) : x.dev = r => x.auth = auth[r]

Once == \A i, j \in DOMAIN list : i # j => list[i].dev # list[j].dev

DetailsInv ==
    list = <<>> /\ details # NoDevice => chan # <<>> \/ Pending(uiEnum) # {}

ExactInv == MembersInv /\ PhaseInv /\ AttrInv /\ Once /\ DetailsInv

\* Queueing a message and taking one, and where the messages lead.
LEMMA LeadsEmpty ==
    ASSUME NEW S \in SUBSET Routers, NEW T
    PROVE  Leads(<<>>, S, T) <=> S = T
<1>1. Leads(<<>>, S, T) => S = T
  BY DEF Leads
<1>2. ASSUME S = T PROVE Leads(<<>>, S, T)
  <2> DEFINE f == [k \in 0..0 |-> S]
  <2>1. f \in [0..Len(<<>>) -> SUBSET Routers] /\ f[0] = S
    BY EmptySeq
  <2>2. Len(<<>>) = 0
    OBVIOUS
  <2> HIDE DEF f
  <2> QED BY <1>2, <2>1, <2>2 DEF Leads
<1> QED BY <1>1, <1>2

LEMMA LeadsType ==
    ASSUME NEW M, NEW q \in Seq(M), NEW S, NEW T, Leads(q, S, T)
    PROVE  S \in SUBSET Routers /\ T \in SUBSET Routers
<1>1. PICK f \in [0..Len(q) -> SUBSET Routers] : f[0] = S /\ f[Len(q)] = T
  BY DEF Leads
<1>2. Len(q) \in Nat
  OBVIOUS
<1>3. 0 \in 0..Len(q) /\ Len(q) \in 0..Len(q)
  BY <1>2
<1> QED BY <1>1, <1>3

LEMMA LeadsAppend ==
    ASSUME NEW M, NEW q \in Seq(M), NEW m \in M, NEW S, NEW T,
           NEW U \in SUBSET Routers, Leads(q, S, T), Moves(m, T, U)
    PROVE  Leads(Append(q, m), S, U)
<1> DEFINE p == Append(q, m)
           n == Len(q)
<1>1. /\ n \in Nat /\ Len(p) = n + 1 /\ p[n + 1] = m
      /\ \A i \in 1..n : p[i] = q[i]
  BY AppendProperties
<1>2. PICK f \in [0..n -> SUBSET Routers] :
        /\ f[0] = S /\ f[n] = T
        /\ \A k \in 1..n : Moves(q[k], f[k - 1], f[k])
  BY DEF Leads
<1> HIDE DEF p, n
<1> DEFINE g == [k \in 0..(n + 1) |-> IF k = n + 1 THEN U ELSE f[k]]
<1>3. /\ g \in [0..(n + 1) -> SUBSET Routers] /\ g[n + 1] = U
      /\ \A k \in 0..n : g[k] = f[k]
  BY <1>1, <1>2
<1> HIDE DEF g
<1>4. g[0] = S /\ g[n] = T
  BY <1>1, <1>2, <1>3
<1>5. ASSUME NEW k \in 1..(n + 1) PROVE Moves(p[k], g[k - 1], g[k])
  <2>1. CASE k = n + 1
    <3>1. k - 1 = n
      BY <1>1, <2>1
    <3> QED BY <1>1, <1>3, <1>4, <2>1, <3>1
  <2>2. CASE k # n + 1
    <3>1. k \in 1..n /\ k \in 0..n /\ k - 1 \in 0..n
      BY <1>1, <2>2
    <3> QED BY <1>1, <1>2, <1>3, <3>1
  <2> QED BY <2>1, <2>2
<1>6. Leads(p, S, U)
  BY <1>1, <1>3, <1>4, <1>5 DEF Leads
<1> QED BY <1>6 DEF p

LEMMA LeadsTail ==
    ASSUME NEW M, NEW q \in Seq(M), q # <<>>, NEW S, NEW T, Leads(q, S, T)
    PROVE  \E U \in SUBSET Routers : Moves(Head(q), S, U) /\ Leads(Tail(q), U, T)
<1> DEFINE p == Tail(q)
           n == Len(q)
<1>1. /\ n \in Nat /\ n > 0 /\ Len(p) = n - 1 /\ Head(q) = q[1]
      /\ \A i \in 1..(n - 1) : p[i] = q[i + 1]
  BY HeadTailProperties
<1>2. PICK f \in [0..n -> SUBSET Routers] :
        /\ f[0] = S /\ f[n] = T
        /\ \A k \in 1..n : Moves(q[k], f[k - 1], f[k])
  BY DEF Leads
<1> HIDE DEF p, n
<1> DEFINE g == [k \in 0..(n - 1) |-> f[k + 1]]
<1>3. /\ g \in [0..(n - 1) -> SUBSET Routers]
      /\ \A k \in 0..(n - 1) : g[k] = f[k + 1]
  <2>1. \A k \in 0..(n - 1) : k + 1 \in 0..n
    BY <1>1
  <2> QED BY <1>2, <2>1
<1> HIDE DEF g
<1>4. 0 \in 0..(n - 1) /\ n - 1 \in 0..(n - 1) /\ 1 \in 1..n /\ 1 \in 0..n
      /\ (n - 1) + 1 = n /\ 0 + 1 = 1 /\ 1 - 1 = 0
  BY <1>1
<1>5. g[0] = f[1] /\ g[n - 1] = T /\ f[1] \in SUBSET Routers
  BY <1>2, <1>3, <1>4
<1>6. Moves(Head(q), S, f[1])
  BY <1>1, <1>2, <1>4
<1>7. ASSUME NEW k \in 1..(n - 1) PROVE Moves(p[k], g[k - 1], g[k])
  <2>1. /\ k + 1 \in 1..n /\ k - 1 \in 0..(n - 1) /\ k \in 0..(n - 1)
        /\ (k + 1) - 1 = k /\ (k - 1) + 1 = k
    BY <1>1
  <2>2. Moves(q[k + 1], f[k], f[k + 1])
    BY <1>2, <2>1
  <2>3. g[k - 1] = f[k] /\ g[k] = f[k + 1] /\ p[k] = q[k + 1]
    BY <1>1, <1>3, <2>1
  <2> QED BY <2>2, <2>3
<1>8. Leads(p, f[1], T)
  BY <1>1, <1>3, <1>5, <1>7 DEF Leads
<1> QED BY <1>5, <1>6, <1>8 DEF p

\* The same for the last message about a router.
LEMMA AppendLast ==
    ASSUME NEW M, NEW q \in Seq(M), NEW m \in M, NEW r
    PROVE  /\ Silent(Append(q, m), r) <=> Silent(q, r) /\ m.dev # r
           /\ \A a : /\ m.dev = r /\ m.auth = a => LastHas(Append(q, m), r, a)
                     /\ m.dev # r /\ LastHas(q, r, a) => LastHas(Append(q, m), r, a)
<1> DEFINE p == Append(q, m)
           n == Len(q)
<1>1. /\ n \in Nat /\ Len(p) = n + 1 /\ p[n + 1] = m /\ p \in Seq(M)
      /\ \A i \in 1..n : p[i] = q[i]
  BY AppendProperties
<1>2. DOMAIN p = 1..(n + 1) /\ DOMAIN q = 1..n
  BY <1>1
<1> HIDE DEF p, n
<1>3. Silent(p, r) <=> Silent(q, r) /\ m.dev # r
  BY <1>1, <1>2 DEF Silent
<1>4. ASSUME NEW a, m.dev = r, m.auth = a PROVE LastHas(p, r, a)
  <2> SUFFICES ASSUME NEW i \in 1..(n + 1), p[i].dev = r,
                      \A j \in (i + 1)..(n + 1) : p[j].dev # r
               PROVE  p[i].auth = a
    BY <1>1, <1>2 DEF LastHas
  <2>1. i = n + 1
    <3>1. i # n + 1 => n + 1 \in (i + 1)..(n + 1)
      BY <1>1
    <3> QED BY <1>1, <1>4, <3>1
  <2> QED BY <1>1, <1>4, <2>1
<1>5. ASSUME NEW a, m.dev # r, LastHas(q, r, a) PROVE LastHas(p, r, a)
  <2> SUFFICES ASSUME NEW i \in 1..(n + 1), p[i].dev = r,
                      \A j \in (i + 1)..(n + 1) : p[j].dev # r
               PROVE  p[i].auth = a
    BY <1>1, <1>2 DEF LastHas
  <2>1. i \in 1..n /\ p[i] = q[i]
    BY <1>1, <1>5
  <2>2. \A j \in (i + 1)..n : j \in (i + 1)..(n + 1) /\ j \in 1..n
    BY <1>1
  <2>3. \A j \in (i + 1)..n : q[j].dev # r
    BY <1>1, <2>2
  <2> QED BY <1>2, <1>5, <2>1, <2>3 DEF LastHas, n
<1> QED BY <1>3, <1>4, <1>5 DEF p

LEMMA TailLast ==
    ASSUME NEW M, NEW q \in Seq(M), q # <<>>, NEW r
    PROVE  /\ Silent(q, r) <=> Silent(Tail(q), r) /\ Head(q).dev # r
           /\ \A a : LastHas(q, r, a) =>
                 /\ LastHas(Tail(q), r, a)
                 /\ Head(q).dev = r /\ Silent(Tail(q), r) => Head(q).auth = a
<1> DEFINE p == Tail(q)
           n == Len(q)
<1>1. /\ n \in Nat /\ n > 0 /\ Len(p) = n - 1 /\ Head(q) = q[1] /\ p \in Seq(M)
      /\ \A i \in 1..(n - 1) : p[i] = q[i + 1]
  BY HeadTailProperties
<1>2. DOMAIN p = 1..(n - 1) /\ DOMAIN q = 1..n
  BY <1>1
<1> HIDE DEF p, n
<1>3. \A i \in 1..(n - 1) : i + 1 \in 1..n /\ p[i] = q[i + 1]
  BY <1>1
<1>4. ASSUME NEW i \in 1..n PROVE i = 1 \/ (i - 1 \in 1..(n - 1) /\ p[i - 1] = q[i])
  BY <1>1
<1>5. 1 \in 1..n
  BY <1>1
<1>6. Silent(p, r) /\ Head(q).dev # r => Silent(q, r)
  BY <1>1, <1>2, <1>4 DEF Silent
<1>7. Silent(q, r) => Silent(p, r) /\ Head(q).dev # r
  BY <1>1, <1>2, <1>3, <1>5 DEF Silent
<1>8. ASSUME NEW a, LastHas(q, r, a) PROVE LastHas(p, r, a)
  <2> SUFFICES ASSUME NEW i \in 1..(n - 1), p[i].dev = r,
                      \A j \in (i + 1)..(n - 1) : p[j].dev # r
               PROVE  p[i].auth = a
    BY <1>1, <1>2 DEF LastHas
  <2>1. ASSUME NEW j \in (i + 2)..n PROVE q[j].dev # r
    <3>1. j - 1 \in (i + 1)..(n - 1) /\ j \in 1..n /\ j # 1
      BY <1>1
    <3> QED BY <1>4, <3>1
  <2>2. i + 1 \in 1..n /\ p[i] = q[i + 1] /\ (i + 1) + 1 = i + 2
    BY <1>3
  <2> QED BY <1>2, <1>8, <2>1, <2>2 DEF LastHas, n
<1>9. ASSUME NEW a, LastHas(q, r, a), Head(q).dev = r, Silent(p, r)
      PROVE  Head(q).auth = a
  <2>1. ASSUME NEW j \in (1 + 1)..n PROVE q[j].dev # r
    <3>1. j \in 1..n /\ j # 1
      BY <1>1
    <3>2. j - 1 \in 1..(n - 1) /\ p[j - 1] = q[j]
      BY <1>4, <3>1
    <3> QED BY <1>2, <1>9, <3>2 DEF Silent
  <2> QED BY <1>1, <1>2, <1>5, <1>9, <2>1 DEF LastHas, n
<1> QED BY <1>6, <1>7, <1>8, <1>9 DEF p

\* The handlers in a list that has every router once: add_device() with one it
\* has not, remove_device() and update_device_list() with one it has.
LEMMA AddDeviceExact ==
    ASSUME ListOK, Once, NEW d \in Device, AddDevice(d), d.dev \notin Listed
    PROVE  /\ Once' /\ list' # <<>>
           /\ \A x \in ToSet(list') : x = d \/ (x \in ToSet(list) /\ x.dev # d.dev)
<1> DEFINE n == Len(list)
<1>0. PICK i \in 1..(n + 1) : list' = InsertAt(list, i, d)
  BY AddDeviceOK
<1>1. list \in Seq(Device) /\ DOMAIN list = 1..n /\ n \in Nat
  BY DEF ListOK
<1>2. /\ list' \in Seq(Device) /\ Len(list') = n + 1
      /\ \A j \in 1..(n + 1) :
           list'[j] = IF j < i THEN list[j] ELSE IF j = i THEN d ELSE list[j - 1]
  <2> DEFINE new == InsertAt(list, i, d)
  <2>1. /\ new \in Seq(Device) /\ Len(new) = n + 1
        /\ \A j \in 1..(n + 1) :
             new[j] = IF j < i THEN list[j] ELSE IF j = i THEN d ELSE list[j - 1]
    BY <1>1, InsertDevice
  <2>2. list' = new
    BY <1>0
  <2> HIDE DEF new
  <2> QED BY <2>1, <2>2
<1>3. DOMAIN list' = 1..(n + 1) /\ list'[i] = d
  BY <1>2
<1> HIDE DEF n
<1> DEFINE from(j) == IF j < i THEN j ELSE j - 1
<1>4. ASSUME NEW j \in 1..(n + 1), j # i
      PROVE  from(j) \in 1..n /\ list'[j] = list[from(j)]
  <2>1. CASE j < i
    BY <1>1, <1>2, <2>1
  <2>2. CASE j > i
    BY <1>1, <1>2, <2>2
  <2> QED BY <1>1, <1>4, <2>1, <2>2
<1>5. ASSUME NEW j \in 1..(n + 1), NEW k \in 1..(n + 1), j # i, k # i, j # k
      PROVE  from(j) # from(k)
  BY <1>1, <1>5
<1> HIDE DEF from
<1>6. \A k \in 1..n : list[k].dev # d.dev
  BY <1>1, ListedDef
<1>7. ASSUME NEW j \in 1..(n + 1), NEW k \in 1..(n + 1), j # k
      PROVE  list'[j].dev # list'[k].dev
  <2>1. CASE j # i /\ k # i
    BY <1>1, <1>4, <1>5, <1>7, <2>1 DEF Once
  <2>2. CASE j = i
    BY <1>3, <1>4, <1>6, <1>7, <2>2
  <2>3. CASE k = i
    BY <1>3, <1>4, <1>6, <1>7, <2>3
  <2> QED BY <2>1, <2>2, <2>3
<1>8. Once'
  BY <1>3, <1>7 DEF Once
<1>9. list' # <<>>
  BY <1>1, <1>2
<1>10. ASSUME NEW x \in ToSet(list')
       PROVE  x = d \/ (x \in ToSet(list) /\ x.dev # d.dev)
  <2>1. PICK j \in 1..(n + 1) : x = list'[j]
    BY <1>3 DEF ToSet
  <2>2. CASE j = i
    BY <1>3, <2>1, <2>2
  <2>3. CASE j # i
    BY <1>1, <1>4, <1>6, <2>1, <2>3 DEF ToSet
  <2> QED BY <2>2, <2>3
<1> QED BY <1>8, <1>9, <1>10

LEMMA RemoveDeviceExact ==
    ASSUME ListOK, Once, NEW d \in Device, RemoveDevice(d), d.dev \in Listed
    PROVE  /\ Once' /\ Listed' = Listed \ {d.dev}
           /\ list' = <<>> => details' = NoDevice
           /\ \A x \in ToSet(list') : x \in ToSet(list) /\ x.dev # d.dev
<1> DEFINE n == Len(list)
<1>1. list \in Seq(Device) /\ DOMAIN list = 1..n /\ n \in Nat
  BY DEF ListOK
<1>2. PICK i \in 1..n : /\ list[i].dev = d.dev /\ list' = RemoveAt(list, i)
                        /\ list' = <<>> => details' = NoDevice
  BY <1>1 DEF RemoveDevice, IsPosition
<1>3. /\ list' \in Seq(Device) /\ Len(list') = n - 1
      /\ \A j \in 1..(n - 1) : list'[j] = IF j < i THEN list[j] ELSE list[j + 1]
  BY <1>1, <1>2, RemoveDeviceAt
<1>4. DOMAIN list' = 1..(n - 1)
  BY <1>3
<1> HIDE DEF n
<1> DEFINE from(j) == IF j < i THEN j ELSE j + 1
<1>5. ASSUME NEW j \in 1..(n - 1)
      PROVE  from(j) \in 1..n /\ from(j) # i /\ list'[j] = list[from(j)]
  BY <1>1, <1>3
<1>6. ASSUME NEW j \in 1..(n - 1), NEW k \in 1..(n - 1), j # k
      PROVE  from(j) # from(k)
  BY <1>1, <1>6
<1> HIDE DEF from
<1>7. Once'
  BY <1>1, <1>4, <1>5, <1>6 DEF Once
<1>8. ASSUME NEW x \in ToSet(list') PROVE x \in ToSet(list) /\ x.dev # d.dev
  <2>1. PICK j \in 1..(n - 1) : x = list'[j]
    BY <1>4 DEF ToSet
  <2>2. x = list[from(j)] /\ from(j) \in 1..n /\ from(j) # i
    BY <1>5, <2>1
  <2> QED BY <1>1, <1>2, <2>2 DEF Once, ToSet
<1>9. Listed' = Listed \ {d.dev}
  <2>1. d.dev \notin Listed'
    BY <1>8 DEF Listed
  <2> QED BY <2>1, RemoveDeviceLists
<1> QED BY <1>2, <1>7, <1>8, <1>9

LEMMA UpdateDeviceListExact ==
    ASSUME ListOK, Once, NEW d \in Device, UpdateDeviceList(d), d.dev \in Listed
    PROVE  /\ Once' /\ list' # <<>>
           /\ \A x \in ToSet(list') : x = d \/ (x \in ToSet(list) /\ x.dev # d.dev)
<1> DEFINE n == Len(list)
<1>1. list \in Seq(Device) /\ DOMAIN list = 1..n /\ n \in Nat
  BY DEF ListOK
<1>2. PICK i \in 1..n : list[i].dev = d.dev
                        /\ list' = InsertAt(RemoveAt(list, i), i, d)
  BY <1>1 DEF UpdateDeviceList, IsPosition
<1>3. /\ list' \in Seq(Device) /\ Len(list') = n
      /\ \A j \in 1..n : list'[j] = IF j = i THEN d ELSE list[j]
  <2> DEFINE new == InsertAt(RemoveAt(list, i), i, d)
  <2>1. /\ new \in Seq(Device) /\ Len(new) = n
        /\ \A j \in 1..n : new[j] = IF j = i THEN d ELSE list[j]
    <3>1. list \in Seq(Device) /\ i \in 1..n /\ d \in Device
      BY <1>1
    <3>2. new \in Seq(Device) /\ Len(new) = n
      BY <3>1, ReplaceDevice
    <3>3. \A j \in 1..n : new[j] = IF j = i THEN d ELSE list[j]
      BY <3>1, ReplaceDevice
    <3> QED BY <3>2, <3>3
  <2>2. list' = new
    BY <1>2
  <2> HIDE DEF new
  <2> QED BY <2>1, <2>2
<1>4. DOMAIN list' = 1..n /\ list' # <<>>
  BY <1>1, <1>3
<1> HIDE DEF n
<1>5. \A j \in 1..n : list'[j].dev = list[j].dev
  BY <1>2, <1>3
<1>6. Once'
  BY <1>1, <1>4, <1>5 DEF Once
<1>7. ASSUME NEW x \in ToSet(list')
      PROVE  x = d \/ (x \in ToSet(list) /\ x.dev # d.dev)
  <2>1. PICK j \in 1..n : x = list'[j]
    BY <1>4 DEF ToSet
  <2>2. CASE j = i
    BY <1>3, <2>1, <2>2
  <2>3. CASE j # i
    BY <1>1, <1>2, <1>3, <2>1, <2>3 DEF Once, ToSet
  <2> QED BY <2>2, <2>3
<1> QED BY <1>4, <1>6, <1>7

\* What a callback that leads somewhere does to the list.
LEMMA HandleEventExact ==
    ASSUME ListOK, Once, NEW c \in Callback, HandleEvent(c), NEW U, Moves(c, Listed, U)
    PROVE  /\ Once' /\ Listed' = U
           /\ list' = <<>> => details' = NoDevice
           /\ \A x \in ToSet(list') : \/ x.dev = c.dev /\ x.auth = c.auth
                                      \/ x \in ToSet(list) /\ x.dev # c.dev
<1> DEFINE d == [dev |-> c.dev, auth |-> c.auth]
<1>1. d \in Device /\ d.dev = c.dev /\ d.auth = c.auth
  BY DEF Device, Callback
<1>2. \/ c.op = "add" /\ AddDevice(d)
      \/ c.op = "remove" /\ RemoveDevice(d)
      \/ c.op = "change" /\ UpdateDeviceList(d)
  BY DEF HandleEvent
<1> HIDE DEF d
<1>3. CASE c.op = "add" /\ AddDevice(d)
  <2>1. d.dev \notin Listed /\ U = Listed \union {d.dev}
    BY <1>1, <1>3 DEF Moves
  <2> QED BY <1>1, <1>3, <2>1, AddDeviceExact, AddDeviceLists
<1>4. CASE c.op = "remove" /\ RemoveDevice(d)
  <2>1. d.dev \in Listed /\ U = Listed \ {d.dev}
    BY <1>1, <1>4 DEF Moves
  <2> QED BY <1>1, <1>4, <2>1, RemoveDeviceExact
<1>5. CASE c.op = "change" /\ UpdateDeviceList(d)
  <2>1. d.dev \in Listed /\ U = Listed
    BY <1>1, <1>5 DEF Moves
  <2> QED BY <1>1, <1>5, <2>1, UpdateDeviceListExact, UpdateDeviceListLists
<1> QED BY <1>2, <1>3, <1>4, <1>5

\* An enumeration without a router pending is empty.
LEMMA NonePending ==
    ASSUME NEW enum, Pending(enum) = {} PROVE enum.names = {} /\ enum.devices = {}
  BY DEF Pending

\* Parsing a name and queueing a Device of an enumeration of a bus at rest.
LEMMA ParseNameExact ==
    ASSUME NEW enum \in Enum, EnumExact(enum), NEW r \in enum.names
    PROVE  /\ Pending(ParseName(enum, r)) = Pending(enum)
           /\ EnumExact(ParseName(enum, r))
<1> DEFINE new == ParseName(enum, r)
<1>1. r \in present /\ enum.names \subseteq present
  BY DEF EnumExact
<1>2. /\ new.names = enum.names \ {r}
      /\ new.devices = enum.devices \union {Parse(r)}
      /\ Parse(r).dev = r /\ Parse(r).auth = auth[r]
  BY <1>1 DEF ParseName, Parse
<1> HIDE DEF new
<1>3. Pending(new) = Pending(enum)
  BY <1>2 DEF Pending
<1>4. EnumExact(new)
  BY <1>1, <1>2 DEF EnumExact
<1> QED BY <1>3, <1>4 DEF new

LEMMA SendExact ==
    ASSUME NEW enum \in Enum, EnumExact(enum), enum.names = {}, NEW d \in enum.devices
    PROVE  LET new == [enum EXCEPT !.devices = @ \ {d}] IN
           /\ Pending(new) = Pending(enum) \ {d.dev} /\ d.dev \in Pending(enum)
           /\ EnumExact(new) /\ new.names = {}
           /\ d \in Device /\ d.dev \in present /\ d.auth = auth[d.dev]
<1> DEFINE new == [enum EXCEPT !.devices = @ \ {d}]
<1>1. new.names = {} /\ new.devices = enum.devices \ {d} /\ d \in Device
  BY DEF Enum
<1>2. d.dev \in present /\ d.auth = auth[d.dev]
  BY DEF EnumExact
<1>3. ASSUME NEW e \in enum.devices, e # d PROVE e.dev # d.dev
  <2>1. e \in Device /\ e.auth = auth[e.dev]
    BY DEF Enum, EnumExact
  <2>2. e = [dev |-> e.dev, auth |-> e.auth] /\ d = [dev |-> d.dev, auth |-> d.auth]
    BY <1>1, <2>1 DEF Device
  <2> QED BY <1>2, <1>3, <2>1, <2>2
<1> HIDE DEF new
<1>4. Pending(new) = Pending(enum) \ {d.dev} /\ d.dev \in Pending(enum)
  BY <1>1, <1>3 DEF Pending
<1>5. EnumExact(new)
  BY <1>1 DEF EnumExact
<1> QED BY <1>1, <1>2, <1>4, <1>5 DEF new

\* A plug, an unplug or a change while nobody enumerates.
LEMMA BusExact ==
    ASSUME ViewInv, ViewInv', ExactInv, monPC = "poll", uiPC = "loop",
           NEW r \in Routers, Plug(r) \/ Unplug(r) \/ Authorize(r)
    PROVE  ExactInv'
<1>1. /\ UNCHANGED <<socket, monPC, monEnum, chan, uiPC, uiEnum, list, details>>
      /\ Listed' = Listed
  BY DEF Plug, Unplug, Authorize, monVars, uiVars, listVars, Listed
<1>2. PICK m \in Uevent : /\ m.dev = r /\ udevd' = Append(udevd, m)
                          /\ Moves(m, present, present')
  <2>1. CASE Plug(r)
    <3>1. [op |-> "add", dev |-> r] \in Uevent
      BY DEF Uevent
    <3> QED BY <2>1, <3>1 DEF Plug, Moves
  <2>2. CASE Unplug(r)
    <3>1. [op |-> "remove", dev |-> r] \in Uevent
      BY DEF Uevent
    <3> QED BY <2>2, <3>1 DEF Unplug, Moves
  <2>3. CASE Authorize(r)
    <3>1. [op |-> "change", dev |-> r] \in Uevent
      BY DEF Uevent
    <3> QED BY <2>3, <3>1 DEF Authorize, Moves
  <2> QED BY <2>1, <2>2, <2>3
<1>3. \A x \in Routers \ {r} : auth'[x] = auth[x]
  BY DEF Plug, Unplug, Authorize, ViewInv, TypeOK
<1>4. udevd \in Seq(Uevent) /\ present' \in SUBSET Routers
  BY DEF ViewInv, TypeOK
<1>5. Pending(monEnum) = {} /\ Pending(uiEnum) = {}
  BY DEF ExactInv, PhaseInv
<1>6. Seen = present /\ Seen' = present'
  BY <1>1, <1>5 DEF Seen, Pending
<1>7. MembersInv'
  <2>1. PICK A, B \in SUBSET Routers :
          Leads(chan, Listed, A) /\ Leads(socket, A, B) /\ Leads(udevd, B, present)
    BY <1>6 DEF ExactInv, MembersInv
  <2>2. Leads(udevd', B, present')
    BY <1>2, <1>4, <2>1, LeadsAppend
  <2> QED BY <1>1, <1>6, <2>1, <2>2 DEF MembersInv
<1>8. PhaseInv'
  <2>1. EnumExact(monEnum)' /\ EnumExact(uiEnum)'
    BY <1>1, <1>5, NonePending DEF EnumExact
  <2> QED BY <1>1, <1>5, <2>1 DEF PhaseInv, Enumerating, Pending
<1>9. AttrInv'
  <2>1. \A x : Silent(udevd', x) => Silent(udevd, x) /\ x # r
    BY <1>2, <1>4, AppendLast
  <2> QED BY <1>1, <1>3, <2>1 DEF ExactInv, AttrInv
<1>10. Once' /\ DetailsInv'
  BY <1>1 DEF ExactInv, Once, DetailsInv, Pending
<1> QED BY <1>7, <1>8, <1>9, <1>10 DEF ExactInv

\* udevd broadcasts: the socket is open by then.
LEMMA BroadcastExact ==
    ASSUME ViewInv, ExactInv, Broadcast PROVE ExactInv'
<1> DEFINE h == Head(udevd)
<1>1. /\ UNCHANGED <<present, auth, monPC, monEnum, chan, uiPC, uiEnum, list, details>>
      /\ Listed' = Listed /\ Seen' = Seen
  BY DEF Broadcast, busVars, monVars, uiVars, listVars, Listed, Seen, Pending
<1>2. ~Enumerating
  BY DEF Broadcast, ExactInv, PhaseInv
<1>3. /\ udevd \in Seq(Uevent) /\ socket \in Seq(Uevent) /\ h \in Uevent
      /\ udevd # <<>> /\ udevd' = Tail(udevd) /\ socket' = Append(socket, h)
  BY <1>2, HeadTailProperties
     DEF Broadcast, Listening, Enumerating, ViewInv, TypeOK
<1> HIDE DEF h
<1>4. MembersInv'
  <2>1. PICK A, B \in SUBSET Routers :
          Leads(chan, Listed, A) /\ Leads(socket, A, B) /\ Leads(udevd, B, Seen)
    BY DEF ExactInv, MembersInv
  <2>2. PICK U \in SUBSET Routers : Moves(h, B, U) /\ Leads(udevd', U, Seen)
    BY <1>3, <2>1, LeadsTail DEF h
  <2>3. Leads(socket', A, U)
    BY <1>3, <2>1, <2>2, LeadsAppend
  <2> QED BY <1>1, <2>1, <2>2, <2>3 DEF MembersInv
<1>5. PhaseInv'
  BY <1>1, <1>2 DEF ExactInv, PhaseInv, Enumerating, Pending, EnumExact
<1>6. AttrInv'
  <2>1. ASSUME NEW r, Silent(udevd', r), Silent(socket', r)
        PROVE  Silent(udevd, r) /\ Silent(socket, r)
    <3>1. h.dev # r /\ Silent(socket, r)
      BY <1>3, <2>1, AppendLast
    <3>2. Silent(udevd, r) <=> Silent(udevd', r) /\ h.dev # r
      BY <1>3, TailLast DEF h
    <3> QED BY <2>1, <3>1, <3>2
  <2> QED BY <1>1, <2>1 DEF ExactInv, AttrInv
<1>7. Once' /\ DetailsInv'
  BY <1>1 DEF ExactInv, Once, DetailsInv, Pending
<1> QED BY <1>4, <1>5, <1>6, <1>7 DEF ExactInv

\* A step of an enumeration that queues nothing.
LEMMA IdleExact ==
    ASSUME ExactInv, UNCHANGED <<present, auth, udevd, socket, chan, list, details>>,
           Seen' = Seen, PhaseInv', Pending(uiEnum) # {} => Pending(uiEnum)' # {}
    PROVE  ExactInv'
<1>1. Listed' = Listed
  BY DEF Listed
<1>2. MembersInv'
  BY <1>1 DEF ExactInv, MembersInv
<1>3. AttrInv'
  BY DEF ExactInv, AttrInv
<1>4. Once' /\ DetailsInv'
  BY DEF ExactInv, Once, DetailsInv
<1> QED BY <1>2, <1>3, <1>4 DEF ExactInv

\* A step of an enumeration that queues a router.
LEMMA QueueExact ==
    ASSUME ViewInv, ExactInv, UNCHANGED <<present, auth, udevd, socket, list>>,
           Enumerating, NEW d \in Device, Send("add", d),
           d.dev \notin Seen, d.auth = auth[d.dev],
           Seen' = Seen \union {d.dev}, PhaseInv'
    PROVE  ExactInv'
<1> DEFINE m == [op |-> "add", dev |-> d.dev, auth |-> d.auth]
<1>1. /\ m \in Callback /\ m.op = "add" /\ m.dev = d.dev /\ m.auth = d.auth
      /\ chan \in Seq(Callback) /\ chan' = Append(chan, m) /\ d.dev \in Routers
  BY DEF Callback, Device, Send, ViewInv, TypeOK
<1> HIDE DEF m
<1>2. udevd = <<>> /\ socket = <<>> /\ udevd' = <<>> /\ socket' = <<>>
  BY DEF ExactInv, PhaseInv
<1>3. Leads(chan, Listed, Seen) /\ Seen \in SUBSET Routers
  <2>1. PICK A, B \in SUBSET Routers :
          Leads(chan, Listed, A) /\ Leads(socket, A, B) /\ Leads(udevd, B, Seen)
    BY DEF ExactInv, MembersInv
  <2>2. A = B /\ B = Seen
    BY <1>2, <2>1, LeadsEmpty
  <2> QED BY <2>1, <2>2
<1>4. Leads(chan', Listed, Seen') /\ Seen' \in SUBSET Routers
  <2>1. Moves(m, Seen, Seen')
    BY <1>1 DEF Moves
  <2>2. Seen' \in SUBSET Routers
    BY <1>1, <1>3
  <2> QED BY <1>1, <1>3, <2>1, <2>2, LeadsAppend
<1>5. MembersInv'
  <2>1. Leads(socket', Seen', Seen') /\ Leads(udevd', Seen', Seen')
    BY <1>2, <1>4, LeadsEmpty
  <2>2. Listed' = Listed
    BY DEF Listed
  <2> QED BY <1>4, <2>1, <2>2 DEF MembersInv
<1>6. AttrInv'
  <2> SUFFICES ASSUME NEW r \in Routers, Silent(udevd', r), Silent(socket', r)
               PROVE  /\ LastHas(chan', r, auth[r])
                      /\ Silent(chan', r) =>
                             \A x \in ToSet(list) : x.dev = r => x.auth = auth[r]
    BY DEF AttrInv
  <2>1. /\ LastHas(chan, r, auth[r])
        /\ Silent(chan, r) => \A x \in ToSet(list) : x.dev = r => x.auth = auth[r]
    BY DEF ExactInv, AttrInv
  <2>2. Silent(chan', r) => Silent(chan, r)
    BY <1>1, AppendLast
  <2>3. LastHas(chan', r, auth[r])
    BY <1>1, <2>1, AppendLast
  <2> QED BY <2>1, <2>2, <2>3
<1>7. chan' # <<>>
  BY <1>1
<1>8. Once' /\ DetailsInv'
  BY <1>7 DEF ExactInv, Once, DetailsInv
<1> QED BY <1>5, <1>6, <1>8 DEF ExactInv

\* The enumeration of the monitor thread.
LEMMA MonitorScanExact ==
    ASSUME ViewInv, ExactInv, MonitorBuild \/ MonitorScan \/ MonitorParse \/ MonitorSend
    PROVE  ExactInv'
<1> USE DEF busVars, uiVars, listVars
<1>0. /\ monEnum \in Enum /\ uiEnum \in Enum /\ PhaseInv
      /\ UNCHANGED <<present, auth, udevd, socket, uiPC, uiEnum, list, details>>
      /\ monPC \notin {"poll", "dead"}
  BY DEF ViewInv, TypeOK, ExactInv, MonitorBuild, MonitorScan, MonitorParse, MonitorSend
<1>1. /\ uiPC = "loop" /\ Pending(uiEnum) = {} /\ EnumExact(uiEnum)
      /\ EnumExact(monEnum) /\ udevd = <<>> /\ socket = <<>> /\ Enumerating
  BY <1>0 DEF PhaseInv, Enumerating, ViewInv, TypeOK
<1>2. /\ uiPC' = "loop" /\ Pending(uiEnum)' = {} /\ EnumExact(uiEnum)'
      /\ udevd' = <<>> /\ socket' = <<>>
  BY <1>0, <1>1 DEF Pending, EnumExact
<1>3. CASE MonitorBuild
  <2>1. PhaseInv' /\ Seen' = Seen /\ chan' = chan
    BY <1>0, <1>1, <1>2, <1>3 DEF MonitorBuild, PhaseInv, Pending, EnumExact, Seen
  <2> QED BY <1>0, <1>1, <2>1, IdleExact
<1>4. CASE MonitorScan
  <2>1. /\ monEnum.names = {} /\ monEnum.devices = {} /\ monPC' = "parse" /\ chan' = chan
        /\ Seen = {} /\ monEnum' = [monEnum EXCEPT !.names = present]
    BY <1>0, <1>4, NonePending DEF MonitorScan, Scan, PhaseInv, Seen
  <2>2. monEnum'.names = present /\ monEnum'.devices = {}
    BY <1>0, <2>1 DEF Enum
  <2>3. EnumExact(monEnum)' /\ Seen' = Seen
    BY <1>0, <2>1, <2>2 DEF EnumExact, Seen, Pending
  <2>4. PhaseInv'
    BY <1>2, <2>1, <2>3 DEF PhaseInv
  <2> QED BY <1>0, <1>1, <2>1, <2>3, <2>4, IdleExact
<1>5. CASE MonitorParse
  <2>1. /\ monPC = "parse" /\ chan' = chan /\ EnumExact(monEnum)'
        /\ Pending(monEnum)' = Pending(monEnum)
        /\ monPC' = "parse" \/ (monPC' = "send" /\ monEnum'.names = {})
    <3>1. CASE monEnum.names = {} /\ monPC' = "send" /\ monEnum' = monEnum
      BY <1>0, <1>1, <1>5, <3>1 DEF MonitorParse, EnumExact, Pending
    <3>2. ASSUME NEW r \in monEnum.names, monEnum' = ParseName(monEnum, r), monPC' = monPC
          PROVE  /\ EnumExact(monEnum)' /\ Pending(monEnum)' = Pending(monEnum)
      <4>1. EnumExact(monEnum') /\ Pending(monEnum') = Pending(monEnum)
        BY <1>0, <1>1, <3>2, ParseNameExact
      <4> QED BY <1>0, <4>1 DEF EnumExact, Pending
    <3> QED BY <1>5, <3>1, <3>2 DEF MonitorParse
  <2>2. PhaseInv' /\ Seen' = Seen
    BY <1>0, <1>1, <1>2, <2>1 DEF PhaseInv, Seen
  <2> QED BY <1>0, <1>1, <2>1, <2>2, IdleExact
<1>6. CASE MonitorSend
  <2>1. CASE monEnum.devices = {} /\ monPC' = "poll" /\ chan' = chan /\ monEnum' = monEnum
    <3>1. Pending(monEnum) = {} /\ Pending(monEnum)' = {} /\ EnumExact(monEnum)'
      BY <1>0, <1>1, <1>6, <2>1 DEF MonitorSend, PhaseInv, Pending, EnumExact
    <3>2. PhaseInv' /\ Seen' = Seen
      BY <1>0, <1>1, <1>2, <1>6, <2>1, <3>1 DEF MonitorSend, PhaseInv, Seen, Enumerating
    <3> QED BY <1>0, <1>1, <2>1, <3>2, IdleExact
  <2>2. ASSUME NEW d \in monEnum.devices, Send("add", d), monPC' = monPC,
               monEnum' = [monEnum EXCEPT !.devices = @ \ {d}]
        PROVE  ExactInv'
    <3>1. monPC = "send" /\ monPC' = "send" /\ monEnum.names = {}
      BY <1>0, <1>6, <2>2 DEF MonitorSend, PhaseInv
    <3>2. /\ Pending(monEnum') = Pending(monEnum) \ {d.dev} /\ d.dev \in Pending(monEnum)
          /\ EnumExact(monEnum') /\ monEnum'.names = {}
          /\ d \in Device /\ d.dev \in present /\ d.auth = auth[d.dev]
      BY <1>0, <1>1, <2>2, <3>1, SendExact
    <3>3. EnumExact(monEnum)' /\ Pending(monEnum)' = Pending(monEnum) \ {d.dev}
      BY <1>0, <3>2 DEF EnumExact, Pending
    <3>4. PhaseInv'
      BY <1>2, <3>1, <3>2, <3>3 DEF PhaseInv
    <3>5. d.dev \notin Seen /\ Seen' = Seen \union {d.dev}
      BY <1>0, <1>1, <1>2, <3>1, <3>2, <3>3 DEF Seen
    <3> QED BY <1>0, <1>1, <2>2, <3>2, <3>4, <3>5, QueueExact
  <2> QED BY <1>6, <2>1, <2>2 DEF MonitorSend
<1> QED BY <1>3, <1>4, <1>5, <1>6

\* select() fails.
LEMMA MonitorFailsExact ==
    ASSUME ViewInv, ExactInv, MonitorFails PROVE ExactInv'
<1>1. /\ UNCHANGED <<present, auth, udevd, socket, monEnum, chan, uiPC, uiEnum, list, details>>
      /\ monPC = "poll" /\ monPC' = "dead"
  BY DEF MonitorFails, busVars, uiVars, listVars
<1>2. PhaseInv' /\ Seen' = Seen /\ Pending(uiEnum)' = Pending(uiEnum)
  BY <1>1 DEF ExactInv, PhaseInv, Seen, Pending, EnumExact, Enumerating
<1> QED BY <1>1, <1>2, IdleExact

\* The enumeration of refresh_devices().
LEMMA RefreshExact ==
    ASSUME ViewInv, ExactInv, RefreshParse \/ RefreshSend PROVE ExactInv'
<1>0. /\ monEnum \in Enum /\ uiEnum \in Enum /\ PhaseInv /\ uiPC # "loop"
      /\ UNCHANGED <<present, auth, udevd, socket, monPC, monEnum, list, details>>
  BY DEF ViewInv, TypeOK, ExactInv, RefreshParse, RefreshSend, busVars, monVars, listVars
<1>1. /\ monPC \in {"poll", "dead"} /\ Pending(monEnum) = {} /\ EnumExact(uiEnum)
      /\ EnumExact(monEnum) /\ udevd = <<>> /\ socket = <<>> /\ Enumerating
  BY <1>0 DEF PhaseInv, Enumerating
<1>2. /\ monPC' \in {"poll", "dead"} /\ Pending(monEnum)' = {} /\ EnumExact(monEnum)'
      /\ udevd' = <<>> /\ socket' = <<>>
  BY <1>0, <1>1 DEF Pending, EnumExact
<1>5. CASE RefreshParse
  <2>1. /\ chan' = chan /\ EnumExact(uiEnum)'
        /\ Pending(uiEnum)' = Pending(uiEnum)
        /\ uiPC' = "parse" \/ (uiPC' = "send" /\ uiEnum'.names = {})
    <3>1. CASE uiEnum.names = {} /\ uiPC' = "send" /\ uiEnum' = uiEnum
      BY <1>0, <1>1, <1>5, <3>1 DEF RefreshParse, EnumExact, Pending
    <3>2. ASSUME NEW r \in uiEnum.names, uiEnum' = ParseName(uiEnum, r), uiPC' = uiPC
          PROVE  EnumExact(uiEnum)' /\ Pending(uiEnum)' = Pending(uiEnum)
      <4>1. EnumExact(uiEnum') /\ Pending(uiEnum') = Pending(uiEnum)
        BY <1>0, <1>1, <3>2, ParseNameExact
      <4> QED BY <1>0, <4>1 DEF EnumExact, Pending
    <3> QED BY <1>5, <3>1, <3>2 DEF RefreshParse
  <2>2. PhaseInv' /\ Seen' = Seen
    BY <1>0, <1>1, <1>2, <2>1 DEF PhaseInv, Seen
  <2> QED BY <1>0, <2>1, <2>2, IdleExact
<1>6. CASE RefreshSend
  <2>1. CASE uiEnum.devices = {} /\ uiPC' = "loop" /\ chan' = chan /\ uiEnum' = uiEnum
    <3>1. Pending(uiEnum) = {} /\ Pending(uiEnum)' = {} /\ EnumExact(uiEnum)'
      BY <1>0, <1>1, <1>6, <2>1 DEF RefreshSend, PhaseInv, Pending, EnumExact
    <3>2. PhaseInv' /\ Seen' = Seen
      BY <1>0, <1>1, <1>2, <2>1, <3>1 DEF PhaseInv, Seen
    <3> QED BY <1>0, <2>1, <3>1, <3>2, IdleExact
  <2>2. ASSUME NEW d \in uiEnum.devices, Send("add", d), uiPC' = uiPC,
               uiEnum' = [uiEnum EXCEPT !.devices = @ \ {d}]
        PROVE  ExactInv'
    <3>1. uiPC = "send" /\ uiPC' = "send" /\ uiEnum.names = {}
      BY <1>0, <1>6, <2>2 DEF RefreshSend, PhaseInv
    <3>2. /\ Pending(uiEnum') = Pending(uiEnum) \ {d.dev} /\ d.dev \in Pending(uiEnum)
          /\ EnumExact(uiEnum') /\ uiEnum'.names = {}
          /\ d \in Device /\ d.dev \in present /\ d.auth = auth[d.dev]
      BY <1>0, <1>1, <2>2, <3>1, SendExact
    <3>3. EnumExact(uiEnum)' /\ Pending(uiEnum)' = Pending(uiEnum) \ {d.dev}
      BY <1>0, <3>2 DEF EnumExact, Pending
    <3>4. PhaseInv'
      BY <1>2, <3>1, <3>2, <3>3 DEF PhaseInv
    <3>5. d.dev \notin Seen /\ Seen' = Seen \union {d.dev}
      BY <1>0, <1>1, <1>2, <3>2, <3>3 DEF Seen
    <3> QED BY <1>0, <1>1, <2>2, <3>2, <3>4, <3>5, QueueExact
  <2> QED BY <1>6, <2>1, <2>2 DEF RefreshSend
<1> QED BY <1>5, <1>6

\* The monitor thread forwards an event with the attributes the router has now.
LEMMA MonitorEventExact ==
    ASSUME ViewInv, ExactInv, MonitorEvent PROVE ExactInv'
<1> DEFINE h == Head(socket)
           m == [op |-> h.op, dev |-> h.dev, auth |-> auth[h.dev]]
<1>1. /\ UNCHANGED <<present, auth, udevd, monPC, monEnum, uiPC, uiEnum, list, details>>
      /\ Listed' = Listed /\ Seen' = Seen /\ Pending(uiEnum)' = Pending(uiEnum)
  BY DEF MonitorEvent, busVars, monVars, uiVars, listVars, Listed, Seen, Pending
<1>2. /\ socket \in Seq(Uevent) /\ socket # <<>> /\ socket' = Tail(socket)
      /\ h \in Uevent /\ chan \in Seq(Callback)
  BY HeadTailProperties DEF MonitorEvent, ViewInv, TypeOK
<1>3. m \in Callback /\ chan' = Append(chan, m)
  BY <1>2 DEF MonitorEvent, Send, Parse, Uevent, Callback, ViewInv, TypeOK
<1>4. m.op = h.op /\ m.dev = h.dev /\ m.auth = auth[h.dev]
  OBVIOUS
<1>5. ~Enumerating /\ chan' # <<>>
  BY <1>2, <1>3 DEF ExactInv, PhaseInv
<1> HIDE DEF h, m
<1>6. MembersInv'
  <2>1. PICK A, B \in SUBSET Routers :
          Leads(chan, Listed, A) /\ Leads(socket, A, B) /\ Leads(udevd, B, Seen)
    BY DEF ExactInv, MembersInv
  <2>2. PICK U \in SUBSET Routers : Moves(h, A, U) /\ Leads(socket', U, B)
    BY <1>2, <2>1, LeadsTail DEF h
  <2>3. Moves(m, A, U)
    BY <1>4, <2>2 DEF Moves
  <2>4. Leads(chan', Listed, U)
    BY <1>2, <1>3, <2>1, <2>3, LeadsAppend
  <2> QED BY <1>1, <2>1, <2>2, <2>4 DEF MembersInv
<1>7. PhaseInv'
  BY <1>1, <1>5 DEF ExactInv, PhaseInv, Enumerating, Pending, EnumExact
<1>8. AttrInv'
  <2> SUFFICES ASSUME NEW r \in Routers, Silent(udevd, r), Silent(socket', r)
               PROVE  /\ LastHas(chan', r, auth[r])
                      /\ Silent(chan', r) =>
                             \A x \in ToSet(list) : x.dev = r => x.auth = auth[r]
    BY <1>1 DEF AttrInv
  <2>1. CASE h.dev = r
    BY <1>2, <1>3, <1>4, <2>1, AppendLast
  <2>2. CASE h.dev # r
    <3>1. Silent(socket, r)
      BY <1>2, <2>2, TailLast DEF h
    <3>2. /\ LastHas(chan, r, auth[r])
          /\ Silent(chan, r) => \A x \in ToSet(list) : x.dev = r => x.auth = auth[r]
      BY <3>1 DEF ExactInv, AttrInv
    <3> QED BY <1>2, <1>3, <1>4, <2>2, <3>2, AppendLast
  <2> QED BY <2>1, <2>2
<1>9. Once' /\ DetailsInv'
  BY <1>1, <1>5 DEF ExactInv, Once, DetailsInv
<1> QED BY <1>6, <1>7, <1>8, <1>9 DEF ExactInv

\* The UI thread executes a callback.
LEMMA UiCallbackExact ==
    ASSUME ViewInv, ExactInv, UiCallback PROVE ExactInv'
<1> DEFINE h == Head(chan)
<1>1. /\ UNCHANGED <<present, auth, udevd, socket, monPC, monEnum, uiPC, uiEnum>>
      /\ Seen' = Seen
  BY DEF UiCallback, busVars, monVars, uiVars, Seen, Pending
<1>2. /\ chan \in Seq(Callback) /\ chan # <<>> /\ chan' = Tail(chan)
      /\ h \in Callback /\ HandleEvent(h) /\ ListOK /\ Once
  BY HeadTailProperties, ListOKFromViewInv DEF UiCallback, ViewInv, TypeOK, ExactInv
<1>3. PICK A, B \in SUBSET Routers :
        Leads(chan, Listed, A) /\ Leads(socket, A, B) /\ Leads(udevd, B, Seen)
  BY DEF ExactInv, MembersInv
<1>4. PICK U \in SUBSET Routers : Moves(h, Listed, U) /\ Leads(chan', U, A)
  BY <1>2, <1>3, LeadsTail
<1>5. \A r : /\ Silent(chan, r) <=> Silent(chan', r) /\ h.dev # r
             /\ \A a : LastHas(chan, r, a) =>
                   /\ LastHas(chan', r, a)
                   /\ h.dev = r /\ Silent(chan', r) => h.auth = a
  BY <1>2, TailLast
<1> HIDE DEF h
<1>6. /\ Once' /\ Listed' = U
      /\ list' = <<>> => details' = NoDevice
      /\ \A x \in ToSet(list') : \/ x.dev = h.dev /\ x.auth = h.auth
                                 \/ x \in ToSet(list) /\ x.dev # h.dev
  BY <1>2, <1>4, HandleEventExact
<1>7. MembersInv'
  BY <1>1, <1>3, <1>4, <1>6 DEF MembersInv
<1>8. PhaseInv'
  BY <1>1 DEF ExactInv, PhaseInv, Enumerating, Pending, EnumExact
<1>9. AttrInv'
  <2> SUFFICES ASSUME NEW r \in Routers, Silent(udevd, r), Silent(socket, r)
               PROVE  /\ LastHas(chan', r, auth[r])
                      /\ Silent(chan', r) =>
                             \A x \in ToSet(list') : x.dev = r => x.auth = auth[r]
    BY <1>1 DEF AttrInv
  <2>1. /\ LastHas(chan, r, auth[r])
        /\ Silent(chan, r) => \A x \in ToSet(list) : x.dev = r => x.auth = auth[r]
    BY DEF ExactInv, AttrInv
  <2>2. LastHas(chan', r, auth[r])
    BY <1>5, <2>1
  <2>3. ASSUME Silent(chan', r), NEW x \in ToSet(list'), x.dev = r
        PROVE  x.auth = auth[r]
    <3>1. CASE h.dev = r
      <4>1. h.auth = auth[r]
        BY <1>5, <2>1, <2>3, <3>1
      <4> QED BY <1>6, <2>3, <3>1, <4>1
    <3>2. CASE h.dev # r
      <4>1. Silent(chan, r)
        BY <1>5, <2>3, <3>2
      <4> QED BY <1>6, <2>1, <2>3, <3>2, <4>1
    <3> QED BY <3>1, <3>2
  <2> QED BY <2>2, <2>3
<1>10. DetailsInv'
  BY <1>6 DEF DetailsInv, NoDevice
<1> QED BY <1>6, <1>7, <1>8, <1>9, <1>10 DEF ExactInv

\* The user moves the selection.
LEMMA UiMoveExact ==
    ASSUME ViewInv, ExactInv, UiMove PROVE ExactInv'
<1>1. /\ UNCHANGED <<present, auth, udevd, socket, monPC, monEnum, chan, uiPC, uiEnum, list>>
      /\ Listed' = Listed /\ Seen' = Seen
  BY DEF UiMove, busVars, monVars, uiVars, Listed, Seen, Pending
<1>2. list' # <<>>
  BY <1>1 DEF UiMove
<1>3. MembersInv'
  BY <1>1 DEF ExactInv, MembersInv
<1>4. PhaseInv'
  BY <1>1 DEF ExactInv, PhaseInv, Enumerating, Pending, EnumExact
<1>5. AttrInv'
  BY <1>1 DEF ExactInv, AttrInv
<1>6. Once' /\ DetailsInv'
  BY <1>1, <1>2 DEF ExactInv, Once, DetailsInv
<1> QED BY <1>3, <1>4, <1>5, <1>6 DEF ExactInv

\* What the list is when nothing is under way.
LEMMA DrainedExact ==
    ASSUME ViewInv, ExactInv, Drained
    PROVE  /\ Listed = present /\ ToSet(list) = {Parse(r) : r \in present}
           /\ list = <<>> => details = NoDevice
<1>1. /\ udevd = <<>> /\ socket = <<>> /\ chan = <<>>
      /\ Pending(monEnum) = {} /\ Pending(uiEnum) = {} /\ Seen = present
  BY DEF Drained, ExactInv, PhaseInv, Seen
<1>2. list \in Seq(Device) /\ present \in SUBSET Routers
  BY DEF ViewInv, TypeOK
<1>3. \A x \in ToSet(list) : x \in Device
  BY <1>2 DEF ToSet
<1>4. Listed = present
  <2>1. PICK A, B \in SUBSET Routers :
          Leads(<<>>, Listed, A) /\ Leads(<<>>, A, B) /\ Leads(<<>>, B, present)
    BY <1>1 DEF ExactInv, MembersInv
  <2>2. Listed \in SUBSET Routers
    BY <1>3 DEF Listed, Device
  <2> QED BY <2>1, <2>2, LeadsEmpty
<1>5. ASSUME NEW x \in ToSet(list) PROVE x = Parse(x.dev) /\ x.dev \in present
  <2>1. x \in Device /\ x.dev \in Routers /\ x.dev \in Listed
    BY <1>3 DEF Device, Listed
  <2>2. \A r : Silent(<<>>, r)
    BY DEF Silent
  <2>3. x.auth = auth[x.dev]
    BY <1>1, <2>1, <2>2 DEF ExactInv, AttrInv
  <2>4. x = [dev |-> x.dev, auth |-> x.auth]
    BY <2>1 DEF Device
  <2> QED BY <1>4, <2>1, <2>3, <2>4 DEF Parse
<1>6. ASSUME NEW r \in present PROVE Parse(r) \in ToSet(list)
  <2>1. PICK x \in ToSet(list) : x.dev = r
    BY <1>4 DEF Listed
  <2> QED BY <1>5, <2>1
<1>7. list = <<>> => details = NoDevice
  BY <1>1 DEF ExactInv, DetailsInv
<1> QED BY <1>4, <1>5, <1>6, <1>7

\* F5 is pressed when nothing is under way.
LEMMA RefreshScanExact ==
    ASSUME ViewInv, ExactInv, Drained, RefreshScan PROVE ExactInv'
<1>1. /\ UNCHANGED <<present, auth, udevd, socket, monPC, monEnum, chan, details>>
      /\ list' = <<>> /\ uiPC' = "parse" /\ uiEnum' = [uiEnum EXCEPT !.names = present]
  BY DEF RefreshScan, Scan, busVars, monVars
<1>2. /\ udevd' = <<>> /\ socket' = <<>> /\ chan' = <<>> /\ monPC' = "poll"
      /\ Pending(monEnum) = {} /\ Pending(uiEnum) = {} /\ EnumExact(monEnum)
  BY <1>1 DEF Drained, ExactInv, PhaseInv
<1>3. /\ uiEnum.names = {} /\ uiEnum.devices = {} /\ uiEnum \in Enum
      /\ present \in SUBSET Routers
  BY <1>2, NonePending DEF ViewInv, TypeOK
<1>4. uiEnum'.names = present /\ uiEnum'.devices = {}
  BY <1>1, <1>3 DEF Enum
<1>5. /\ Pending(monEnum)' = {} /\ Pending(uiEnum)' = present
      /\ EnumExact(monEnum)' /\ EnumExact(uiEnum)'
  BY <1>1, <1>2, <1>4 DEF Pending, EnumExact
<1>6. PhaseInv'
  BY <1>1, <1>2, <1>5 DEF PhaseInv
<1>7. Seen' = {} /\ Listed' = {} /\ ToSet(list') = {}
  BY <1>1, <1>2, <1>5 DEF Seen, Listed, ToSet
<1>8. MembersInv'
  <2>1. Leads(<<>>, {}, {}) /\ {} \in SUBSET Routers
    BY LeadsEmpty
  <2> QED BY <1>2, <1>7, <2>1 DEF MembersInv
<1>9. AttrInv' /\ Once'
  BY <1>1, <1>2, <1>7 DEF AttrInv, Once, LastHas
<1>10. DetailsInv'
  <2>1. present = {} => list = <<>>
    <3>1. present = {} => ToSet(list) = {}
      BY DrainedExact
    <3>2. list \in Seq(Device)
      BY DEF ViewInv, TypeOK
    <3>3. list # <<>> => 1 \in DOMAIN list
      BY <3>2
    <3>4. list # <<>> => list[1] \in ToSet(list)
      BY <3>3 DEF ToSet
    <3> QED BY <3>1, <3>4
  <2>2. present = {} => details = NoDevice
    BY <2>1, DrainedExact
  <2> QED BY <1>1, <1>5, <2>2 DEF DetailsInv, NoDevice
<1> QED BY <1>6, <1>8, <1>9, <1>10 DEF ExactInv

\* At the start nothing is seen and nothing shown.
LEMMA InitExact == Init => ExactInv
<1> SUFFICES ASSUME Init PROVE ExactInv
  OBVIOUS
<1>1. /\ udevd = <<>> /\ socket = <<>> /\ chan = <<>> /\ list = <<>> /\ details = NoDevice
      /\ monPC = "build" /\ uiPC = "loop"
      /\ monEnum.names = {} /\ monEnum.devices = {}
      /\ uiEnum.names = {} /\ uiEnum.devices = {}
  BY DEF Init, NoEnum
<1>2. Seen = {} /\ Listed = {} /\ Pending(monEnum) = {} /\ Pending(uiEnum) = {}
  BY <1>1 DEF Seen, Listed, ToSet, Pending
<1>3. MembersInv
  <2>1. Leads(<<>>, {}, {}) /\ {} \in SUBSET Routers
    BY LeadsEmpty
  <2> QED BY <1>1, <1>2, <2>1 DEF MembersInv
<1>4. PhaseInv
  BY <1>1, <1>2 DEF PhaseInv, EnumExact
<1>5. AttrInv /\ Once /\ DetailsInv
  BY <1>1 DEF AttrInv, Once, DetailsInv, LastHas, ToSet
<1> QED BY <1>3, <1>4, <1>5 DEF ExactInv

\* In a quiet environment every step keeps the list exact.
LEMMA NextExact ==
    ASSUME ViewInv, ViewInv', quiet => ExactInv, [Next]_vars PROVE quiet' => ExactInv'
<1>1. CASE UNCHANGED vars
  <2>1. /\ UNCHANGED <<present, auth, udevd, socket, monPC, monEnum, chan, uiPC, uiEnum,
                       list, details, quiet>>
    BY <1>1 DEF vars, progVars, busVars, monVars, uiVars, listVars
  <2>2. Seen' = Seen /\ Pending(uiEnum)' = Pending(uiEnum)
    BY <2>1 DEF Seen, Pending
  <2>3. PhaseInv => PhaseInv'
    BY <2>1 DEF PhaseInv, Enumerating, Pending, EnumExact
  <2> QED BY <2>1, <2>2, <2>3, IdleExact DEF ExactInv
<1>2. ASSUME Next, quiet' PROVE ExactInv'
  <2>1. Step /\ Quiet /\ ExactInv
    BY <1>2 DEF Next
  <2>2. ASSUME NEW r \in Routers, Plug(r) \/ Unplug(r) \/ Authorize(r) PROVE ExactInv'
    <3>1. hotplugs' # hotplugs \/ auths' # auths
      BY <2>2 DEF Plug, Unplug, Authorize, ViewInv, TypeOK
    <3>2. monPC = "poll" /\ uiPC = "loop"
      BY <2>1, <3>1 DEF Quiet, busVars
    <3> QED BY <2>1, <2>2, <3>2, BusExact
  <2>3. CASE RefreshScan
    <3>1. refreshes' # refreshes
      BY <2>3 DEF RefreshScan, ViewInv, TypeOK
    <3> QED BY <2>1, <2>3, <3>1, RefreshScanExact DEF Quiet
  <2>4. CASE Broadcast
    BY <2>1, <2>4, BroadcastExact
  <2>5. CASE Monitor \/ MonitorFails
    BY <2>1, <2>5, MonitorScanExact, MonitorEventExact, MonitorFailsExact DEF Monitor
  <2>6. CASE UiCallback \/ UiMove
    BY <2>1, <2>6, UiCallbackExact, UiMoveExact
  <2>7. CASE Refresh
    BY <2>1, <2>7, RefreshExact DEF Refresh
  <2> QED BY <2>1, <2>2, <2>3, <2>4, <2>5, <2>6, <2>7 DEF Step
<1> QED BY <1>1, <1>2

\* In a quiet environment the list has no router twice, and is the bus when
\* nothing is under way: the routers, their attributes and the details pane.
\* The two enumerations, the three queues and the handlers neither lose nor
\* double anything, and the last message about a router has its attributes.
THEOREM ListIsExact == Spec => []ListExact
<1> DEFINE Inv == ViewInv /\ (quiet => ExactInv)
<1>1. Init => Inv
  BY InitView, InitExact
<1>2. Inv /\ [Next]_vars => Inv'
  BY NextView, NextExact
<1>3. Inv => ListExact
  BY DrainedExact DEF ListExact, ExactInv, Once
<1> QED BY <1>1, <1>2, <1>3, PTL DEF Spec
=============================================================================
