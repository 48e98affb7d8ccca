---------------------------- MODULE MCRouterTools ----------------------------
(***************************************************************************)
(* A router with two registers, of which one tells the number of adapters, *)
(* and an adapter with one register in each of its spaces.                 *)
(***************************************************************************)
EXTENDS RouterTools

CONSTANTS t1, t2

MCRegisters == 1..5
MCSpaceOf ==
    <<"router", "router", "adapter", "path", "counters">>

\* A field with a neighbour on either side.
Middle == [lo |-> 1, hi |-> 1]
Low    == [lo |-> 0, hi |-> 1]

ByName(r, part, f, x) ==
    [reg |-> r, by |-> "name", part |-> part, field |-> f, bits |-> x]
ByOffset(r, x) ==
    [reg |-> r, by |-> "offset", part |-> "whole", field |-> Middle, bits |-> x]

Line(prog, adapter, space, args) ==
    [prog |-> prog, adapter |-> adapter, space |-> space, verbose |-> TRUE,
     from |-> 1, byName |-> FALSE, nregs |-> 1, args |-> args]

MCAll == {
    Line("set", 0, "router", <<ByName(2, "field", Middle, {0})>>),
    Line("set", 0, "router", <<ByName(2, "field", Middle, {0, 1}), ByName(2, "field", Low, {0})>>),
    Line("set", 0, "router", <<ByOffset(1, {0, 2}), ByName(2, "field", Middle, {})>>),
    Line("set", 1, "path", <<ByOffset(4, {1}), ByName(4, "field", Middle, {0})>>),
    Line("set", 1, "adapter", <<ByName(3, "unknown", Middle, {0}), ByName(3, "whole", Middle, {1})>>),
    Line("set", 1, "adapter", <<ByName(3, "field", Middle, {0})>>),
    Line("set", 1, "counters", <<ByOffset(5, {1})>>),
    Line("get", 0, "router", <<ByName(2, "field", Middle, {}), ByOffset(1, {})>>),
    Line("get", 2, "adapter", <<ByOffset(3, {})>>),
    Line("get", 1, "counters", <<ByOffset(5, {})>>),
    Line("query", 1, "path", <<>>),
    [Line("dump", 0, "router", <<>>) EXCEPT !.from = 2, !.byName = TRUE],
    Line("dump", 1, "path", <<>>),
    Line("dump", 0, "drom", <<>>),
    [Line("dump", 0, "drom", <<>>) EXCEPT !.verbose = FALSE]}

\* One process runs anything, the other one accesses the same register.
MCOther == {
    Line("set", 0, "router", <<ByName(2, "field", Low, {0})>>),
    Line("get", 0, "router", <<ByName(2, "field", Middle, {})>>)}

MCTools == {t1, t2}
MCCommands == [t \in MCTools |-> IF t = t1 THEN MCAll ELSE MCOther]

MCContents == {[r \in MCRegisters |-> {0, 1}]}

(***************************************************************************)
(* ROMs with two entries that fill it, or do not.                          *)
(***************************************************************************)
An(len, kind, text) == [len |-> len, kind |-> kind, text |-> text, utf8 |-> TRUE]

Filler == An(0, "generic", 0)

Entries == {An(0, "generic", 0), An(1, "generic", 0), An(3, "tmu", 0), An(2, "tmu", 0),
            An(4, "ascii", 2), An(4, "ascii", 255),
            [An(4, "ascii", 2) EXCEPT !.utf8 = FALSE], An(4, "utf16", 0), An(3, "utf16", 0),
            An(6, "dptx", 1), An(5, "dptx", 1)}

Rom(size, length, version, entries) ==
    LET start == IF version < 3 THEN 22 ELSE 16
    IN  [size |-> size, length |-> length, version |-> version,
         at |-> [o \in 0..(size - 1) |->
                    IF o = start THEN entries[1]
                    ELSE IF o = start + entries[1].len THEN entries[2] ELSE Filler]]

MCDroms ==
    {Rom(16 + e.len + f.len, 3 + e.len + f.len, 3, <<e, f>>) :
         e \in Entries, f \in {An(3, "tmu", 0), An(0, "generic", 0)}}
    \union {Rom(15, 2, 3, <<Filler, Filler>>), Rom(18, 6, 3, <<Filler, Filler>>),
            Rom(18, 5, 1, <<Filler, Filler>>), Rom(19, 6, 3, <<An(4, "tmu", 0), Filler>>),
            Rom(25, 12, 1, <<An(3, "tmu", 0), Filler>>)}
=============================================================================
