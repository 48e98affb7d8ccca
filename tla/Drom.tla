-------------------------------- MODULE Drom --------------------------------
(***************************************************************************)
(* The device ROM of a router: a header and entries, each of which begins  *)
(* with its length. Nothing but the data says that the lengths fit.        *)
(*                                                                         *)
(* A ROM is its number of bytes ("size"), what its header says of it, and  *)
(* what the bytes at an offset say when an entry begins there. An entry is *)
(* its length, its kind, the number of bytes that its text or its list of  *)
(* ranks takes, which the data says on its own, and whether the text is    *)
(* UTF-8, which nothing guarantees either.                                 *)
(***************************************************************************)
EXTENDS Integers

AdapterKinds == {"unused", "dp", "lane", "pcie", "adapter"}
GenericKinds == {"ascii", "tmu", "product", "serial", "usb3", "utf16",
                 "singlePath", "dptx", "embedded", "generic"}
Kinds == AdapterKinds \union GenericKinds

\* "text" is the length of the text with its terminator, or the number of
\* ranks; a text without terminator is longer than any entry.
Entry == [len : Nat, kind : Kinds, text : Nat, utf8 : BOOLEAN]

IsDrom(d) ==
    /\ d = [size |-> d.size, length |-> d.length, version |-> d.version, at |-> d.at]
    /\ d.size \in Nat /\ d.length \in Nat /\ d.version \in Nat
    /\ d.at \in [0..(d.size - 1) -> Entry]

NoDrom == [size |-> 0, length |-> 0, version |-> 0, at |-> [o \in {} |-> 0]]

-----------------------------------------------------------------------------
(***************************************************************************)
(* Drom::parse().                                                          *)
(***************************************************************************)
\* The header is longer when it is compatible with Thunderbolt 3.
HeaderSize(d) == IF d.version < 3 THEN 22 ELSE 16

Accepted(d) ==
    /\ d.size >= 16
    /\ d.length + 13 = d.size
    /\ d.version < 3 => d.size >= 22

-----------------------------------------------------------------------------
(***************************************************************************)
(* DromEntry::parse(): the bytes of an entry that are accessed without     *)
(* asking whether it is that long.                                         *)
(***************************************************************************)
Accessed(e) ==
    CASE e.kind \in {"dp"}                        -> 5
      [] e.kind \in {"lane", "singlePath"}        -> 4
      [] e.kind \in {"pcie", "tmu", "embedded"}   -> 3
      [] e.kind = "product"                       -> 14
      [] e.kind = "serial"                        -> 4
      [] e.kind = "ascii"                         -> 2 + e.text
      [] e.kind = "dptx"                          -> 5 + e.text
      [] OTHER                                    -> 2

Utf16 == {"serial", "utf16"}

\* An entry of less than two bytes is not looked at. A name is unwrap()ped: it
\* has to be UTF-8, or an even number of bytes.
Parses(e) ==
    \/ e.len < 2
    \/ /\ Accessed(e) <= e.len
       /\ e.kind = "ascii" => e.utf8
       /\ e.kind \in Utf16 => e.len % 2 = 0

\* The slice with the entry at an offset is within the ROM.
Fits(d, offset) == offset + d.at[offset].len <= d.size

-----------------------------------------------------------------------------
\* Cuts of the body between which there is one entry each.
CutsEntries(d, cuts) ==
    /\ HeaderSize(d) \in cuts /\ d.size \in cuts
    /\ \A c \in cuts \ {d.size} :
         /\ d.at[c].len > 0 /\ c + d.at[c].len \in cuts
         /\ Parses(d.at[c])

\* The body of a ROM is a series of entries, one behind the other, which are as
\* long as what they hold and whose names are text.
WellFormed(d) ==
    /\ HeaderSize(d) < d.size
    /\ \E cuts \in SUBSET (HeaderSize(d)..d.size) : CutsEntries(d, cuts)
=============================================================================
