--------------------------- MODULE RegisterFields ---------------------------
(***************************************************************************)
(* The values of registers and their fields. A value is the set of the     *)
(* bits that are 1, a field the bits from lo to hi. A shift drops what     *)
(* leaves the register, as the shifts of u32 do.                           *)
(***************************************************************************)
EXTENDS Integers

CONSTANT Width  \* the number of bits of a register

ASSUME WidthAssumption == Width \in Nat \ {0}

Bits  == 0..(Width - 1)
Value == SUBSET Bits

Field == {f \in [lo : Bits, hi : Bits] : f.lo <= f.hi}

Mask(f) == f.lo..f.hi

ShiftLeft(x, n)  == {b \in Bits : b - n \in x}
ShiftRight(x, n) == {b \in Bits : b + n \in x}

FieldValue(v, f) == ShiftRight(v \intersect Mask(f), f.lo)

\* What the field keeps of a value that may be too wide for it.
Truncated(x, f) == x \intersect 0..(f.hi - f.lo)

\* Mutant: the old value of the field is not cleared first.
SetFieldOr(v, f, x) == v \union ShiftLeft(x, f.lo)

\* Mutant: the mask has one bit too many.
SetFieldWide(v, f, x) == (v \ (f.lo..(f.hi + 1))) \union ShiftLeft(x, f.lo)

\* The value is not masked: bits that do not fit go to the fields above.
SetField(v, f, x) == (v \ Mask(f)) \union ShiftLeft(x, f.lo)

\* The bits that set_field() may change.
Touched(f, x) == Mask(f) \union ShiftLeft(x, f.lo)
=============================================================================
