------------------------------ MODULE Margining ------------------------------
(***************************************************************************)
(* Receiver lane margining of one USB4 port or retimer with tbmargin.      *)
(*                                                                         *)
(* The kernel has one set of parameters and one result for a port, which   *)
(* every program that runs margining on it writes and reads with a system  *)
(* call each. tbmargin goes through the tests, the lanes and the margins   *)
(* that the capabilities call for, writes all parameters before each run   *)
(* and keeps those of the run before where the next one has none of its    *)
(* own. What a run returns names its test, lanes and margin itself.        *)
(*                                                                         *)
(* The speed of the link, which says how the capabilities are laid out, is *)
(* that of the port: find_device() may return another device, which is a   *)
(* matter of addresses. Scaling to mV and UI is left out.                  *)
(***************************************************************************)
EXTENDS Integers, SequencesExt

CONSTANTS
    Tools,  \* the programs that run margining on the port
    Ports   \* what the port may report of its capabilities

\* The capability dwords: the bits as they are, the fields as numbers.
RawCaps == [gen4 : BOOLEAN, hardware : BOOLEAN, software : BOOLEAN,
            allLanes : BOOLEAN, time : BOOLEAN, destructive : BOOLEAN,
            voltage : 0..3, timing : 0..3]

ASSUME PortsAssumption == Ports \subseteq RawCaps

Tests   == {"voltage", "time"}
Lanes   == {"0", "1", "2", "all"}
Margins == {"low", "high", "left", "right"}
Modes   == {"hardware", "software"}
NoMargin == "none"

HighOrRight == {"high", "right"}

\* The fields of the result registers: one for each lane and side.
Fields == {"0", "1", "2"} \X {"ll", "hr"}

VARIABLES
    caps,      \* the capability dwords of the port
    attrs,     \* the parameters in the kernel
    result,    \* the result of the last run, in the kernel
    tool,      \* the programs: place, Margining object and loops
    shown,     \* what a program has shown last, and the result it is of
    measured,  \* the runs each program has started
    disturbed  \* the programs that another one has interfered with

vars == <<caps, attrs, result, tool, shown, measured, disturbed>>

-----------------------------------------------------------------------------
(***************************************************************************)
(* Capabilities.                                                           *)
(***************************************************************************)
\* How the margins of the two sides are returned. A Gen 4 link has no either.
Independent(field) ==
    CASE field = 0 -> "minimum"
      [] field = 1 -> IF caps.gen4 THEN "both" ELSE "either"
      [] field = 2 -> IF caps.gen4 THEN "unsupported" ELSE "both"
      [] OTHER     -> "unsupported"

\* On a Gen 4 link the field for time is made of bits 9 and 10 of dword 2,
\* which are the lowest bits of the number of voltage steps as well.
IndependentMargins(test) ==
    Independent(IF test = "voltage" THEN caps.voltage ELSE caps.timing)

CapsUnsupported ==
    \/ IndependentMargins("voltage") = "unsupported"
    \/ caps.time /\ IndependentMargins("time") = "unsupported"

\* The object has a margin when one of the tests takes one.
TakesMargin ==
    \/ IndependentMargins("voltage") = "either"
    \/ caps.time /\ IndependentMargins("time") = "either"

(***************************************************************************)
(* The loops of run_margining().                                           *)
(***************************************************************************)
\* Mutant: a time test that is destructive is run all the same.
TestsOfAnyTime == IF caps.time THEN <<"voltage", "time">> ELSE <<"voltage">>

TestsOf == IF caps.time /\ ~caps.destructive THEN <<"voltage", "time">>
                                             ELSE <<"voltage">>

\* Mutant: hardware margining whatever the port can do.
ModeAlwaysHardware == "hardware"

ModeOf == IF caps.hardware THEN "hardware" ELSE "software"

LanesOf == IF caps.allLanes THEN <<"all">> ELSE <<"0", "1">>

MarginsOf(test) ==
    IF IndependentMargins(test) # "either" THEN <<>>
    ELSE IF test = "voltage" THEN <<"low", "high">> ELSE <<"left", "right">>

\* Margining::run() begins, with what the object has.
StartRun(s) == [s EXCEPT !.pc = IF s.mode = "hardware" THEN "ber" ELSE "lanes"]

NextMargin(s) ==
    StartRun([s EXCEPT !.margin = Head(s.marginsLeft),
                       !.marginsLeft = Tail(s.marginsLeft)])

\* Mutant: the lane is not set again for each round.
NextLaneKept(s) ==
    LET t == [s EXCEPT !.lanesLeft = Tail(s.lanesLeft),
                       !.marginsLeft = MarginsOf(s.test)]
    IN  IF t.marginsLeft = <<>> THEN StartRun(t) ELSE NextMargin(t)

NextLane(s) ==
    LET t == [s EXCEPT !.lanes = Head(s.lanesLeft), !.lanesLeft = Tail(s.lanesLeft),
                       !.marginsLeft = MarginsOf(s.test)]
    IN  IF t.marginsLeft = <<>> THEN StartRun(t) ELSE NextMargin(t)

NextTest(s) ==
    NextLane([s EXCEPT !.test = Head(s.testsLeft), !.testsLeft = Tail(s.testsLeft),
                       !.lanesLeft = LanesOf])

Advance(s) ==
    CASE s.marginsLeft # <<>> -> NextMargin(s)
      [] s.marginsLeft = <<>> /\ s.lanesLeft # <<>> -> NextLane(s)
      [] s.marginsLeft = <<>> /\ s.lanesLeft = <<>> /\ s.testsLeft # <<>> ->
             NextTest(s)
      [] OTHER -> [s EXCEPT !.pc = "done"]

-----------------------------------------------------------------------------
(***************************************************************************)
(* Results.                                                                *)
(***************************************************************************)
IntersectsWith(lanes, lane) == lanes = "all" \/ lanes = lane

\* LaneResult::new(): what is shown of a lane, with the fields it takes for the
\* low or left and for the high or right margin.
LaneResult(test, rhu, lane, ll, hr) ==
    LET Show(side, field) ==
            [test |-> test, lane |-> lane, side |-> side, field |-> field]
    IN  CASE IndependentMargins(test) = "minimum" -> {Show("min", ll)}
          [] IndependentMargins(test) = "both" ->
                 {Show("ll", ll), Show("hr", hr)}
          [] OTHER -> {Show(IF rhu THEN "hr" ELSE "ll", hr)}

\* Mutant: a line for all lanes, beside those of each lane.
MarginLinesOfAll(r) ==
    UNION {LaneResult(r.test, r.rhu, l, <<l, "hr">>, <<"0", "ll">>) : l \in Lanes}

\* margins(): the values are those that handle_lane() hands over.
MarginLines(r) ==
    UNION {LaneResult(r.test, r.rhu, l, <<l, "hr">>, <<"0", "ll">>) :
               l \in {k \in {"0", "1", "2"} : IntersectsWith(r.lanes, k)}}

\* Mutant: the lanes are those of the object, not those of the result.
ShowLinesOfObject(s, r) == MarginLines([r EXCEPT !.lanes = s.lanes])

\* show_results(): of all lanes, software margining shows the first.
ShowLines(s, r) ==
    IF s.mode = "hardware" THEN MarginLines(r)
    ELSE LET lane == IF s.lanes = "all" THEN "0" ELSE s.lanes
         IN  {[test |-> s.test, lane |-> lane, side |-> "errors",
               field |-> <<lane, "hr">>]}

-----------------------------------------------------------------------------
(***************************************************************************)
(* Steps of a program: each is a system call and what follows up to the    *)
(* next one. An error of any ends the program.                             *)
(***************************************************************************)
At(t, pc) == tool[t].pc = pc

\* Everybody else who is at work has been interfered with.
Disturb(t) ==
    disturbed' = disturbed \union
                     {u \in Tools \ {t} : tool[u].pc \notin {"new", "done"}}

Fail(t) ==
    /\ tool[t].pc \notin {"done", "failed", "panic", "unsupported"}
    /\ tool' = [tool EXCEPT ![t].pc = "failed"]
    /\ UNCHANGED <<caps, attrs, result, shown, measured, disturbed>>

\* Margining::new(), which reads the parameters the kernel has, and
\* run_margining() up to the first run. The panic is that of Caps::new().
New(t) ==
    /\ At(t, "new")
    /\ \/ /\ CapsUnsupported \/ ~(caps.hardware \/ caps.software)
          /\ tool' = [tool EXCEPT ![t].pc = "unsupported"]
       \/ /\ ~CapsUnsupported /\ (caps.hardware \/ caps.software)
          /\ tool' = [tool EXCEPT ![t] = NextTest(
                 [pc      |-> "new",
                  mode    |-> ModeOf,
                  ber     |-> caps.hardware,
                  lanes   |-> attrs.lanes,
                  test    |-> attrs.test,
                  margin  |-> IF TakesMargin THEN attrs.margin ELSE NoMargin,
                  testsLeft |-> TestsOf, lanesLeft |-> <<>>, marginsLeft |-> <<>>])]
    /\ UNCHANGED <<caps, attrs, result, shown, measured, disturbed>>

\* tbmargin --caps goes no further.
ShowCaps(t) ==
    /\ At(t, "new") /\ ~CapsUnsupported
    /\ tool' = [tool EXCEPT ![t].pc = "unsupported"]
    /\ UNCHANGED <<caps, attrs, result, shown, measured, disturbed>>

\* write_ber_level_contour(), with the unwrap().
WriteBer(t) ==
    /\ At(t, "ber")
    /\ tool' = [tool EXCEPT ![t].pc = IF tool[t].ber THEN "lanes" ELSE "panic"]
    /\ UNCHANGED <<caps, attrs, result, shown, measured, disturbed>>

\* write_attr() of one parameter.
Write(t, attr, next) ==
    /\ At(t, attr)
    /\ attrs' = [attrs EXCEPT ![attr] = tool[t][attr]]
    /\ tool' = [tool EXCEPT ![t].pc = next]
    /\ Disturb(t)
    /\ UNCHANGED <<caps, result, shown, measured>>

WriteLanes(t) == Write(t, "lanes", "mode")
WriteMode(t)  == Write(t, "mode", "test")

WriteTest(t) == Write(t, "test",
                      IF tool[t].margin = NoMargin THEN "run" ELSE "margin")
WriteMargin(t) == tool[t].margin # NoMargin /\ Write(t, "margin", "run")

\* The port is margined with the parameters there are. RHU is the margin when
\* the test has one of the two, and the port's choice otherwise.
Run(t) ==
    /\ At(t, "run")
    /\ \E rhu \in BOOLEAN :
         /\ IndependentMargins(attrs.test) = "either" =>
                rhu = (attrs.margin \in HighOrRight)
         /\ result' = [test |-> attrs.test, lanes |-> attrs.lanes, rhu |-> rhu]
    /\ measured' = [measured EXCEPT ![t] = @ \union {attrs}]
    /\ tool' = [tool EXCEPT ![t].pc = "results"]
    /\ Disturb(t)
    /\ UNCHANGED <<caps, attrs, shown>>

\* read_results() and show_results(); LaneResult::new() unwraps the
\* capabilities for time.
ReadResults(t) ==
    /\ At(t, "results")
    /\ \/ /\ tool[t].mode = "hardware" /\ result.test = "time" /\ ~caps.time
          /\ tool' = [tool EXCEPT ![t].pc = "panic"]
          /\ UNCHANGED shown
       \/ /\ ~(tool[t].mode = "hardware" /\ result.test = "time" /\ ~caps.time)
          /\ shown' = [shown EXCEPT ![t] =
                           [lines |-> ShowLines(tool[t], result), of |-> result]]
          /\ tool' = [tool EXCEPT ![t] = Advance(tool[t])]
    /\ UNCHANGED <<caps, attrs, result, measured, disturbed>>

-----------------------------------------------------------------------------
Attrs == [lanes : Lanes, mode : Modes, test : Tests, margin : Margins]

Results == [test : Tests, lanes : Lanes, rhu : BOOLEAN]

\* The parameters are what was run on the port before, as far as it can.
Init ==
    /\ caps \in Ports
    /\ attrs \in Attrs
    /\ attrs.lanes = "all" <=> caps.allLanes
    /\ attrs.lanes = "2" => caps.gen4
    /\ attrs.test = "time" => caps.time
    /\ attrs.mode = "hardware" => caps.hardware
    /\ attrs.margin \in IF attrs.test = "voltage" THEN {"low", "high"}
                                                 ELSE {"left", "right"}
    /\ result = [test |-> attrs.test, lanes |-> attrs.lanes, rhu |-> FALSE]
    /\ tool = [t \in Tools |->
                  [pc |-> "new", mode |-> attrs.mode, ber |-> FALSE,
                   lanes |-> attrs.lanes, test |-> attrs.test,
                   margin |-> NoMargin, testsLeft |-> <<>>,
                   lanesLeft |-> <<>>, marginsLeft |-> <<>>]]
    /\ shown = [t \in Tools |-> [lines |-> {}, of |-> result]]
    /\ measured = [t \in Tools |-> {}]
    /\ disturbed = {}

Step(t) ==
    \/ New(t) \/ ShowCaps(t) \/ WriteBer(t) \/ WriteLanes(t) \/ WriteMode(t)
    \/ WriteTest(t) \/ WriteMargin(t) \/ Run(t) \/ ReadResults(t) \/ Fail(t)

Next == \E t \in Tools : Step(t)

Spec == Init /\ [][Next]_vars

-----------------------------------------------------------------------------
(***************************************************************************)
(* Properties.                                                             *)
(***************************************************************************)
Line == [test : Tests, lane : {"0", "1", "2"},
         side : {"min", "ll", "hr", "errors"}, field : Fields]

PCs == {"new", "ber", "lanes", "mode", "test", "margin", "run", "results",
        "done", "failed", "panic", "unsupported"}

Tool == [pc : PCs, mode : Modes, ber : BOOLEAN, lanes : Lanes, test : Tests,
         margin : Margins \union {NoMargin}, testsLeft : Seq(Tests),
         lanesLeft : Seq(Lanes), marginsLeft : Seq(Margins)]

\* Every variable has its type.
TypeOK ==
    /\ caps \in RawCaps
    /\ attrs \in Attrs
    /\ result \in Results
    /\ tool \in [Tools -> Tool]
    /\ shown \in [Tools -> [lines : SUBSET Line, of : Results]]
    /\ measured \in [Tools -> SUBSET Attrs]
    /\ disturbed \subseteq Tools

\* A time test that breaks the link is never run, whatever parameters tbmargin
\* finds in the kernel and whoever else runs margining on the port.
NeverDestructive ==
    \A t \in Tools : \A m \in measured[t] :
        m.test = "time" => caps.time /\ ~caps.destructive

\* Once new() has accepted the port, no unwrap() fails and no match panics.
NoPanic == \A t \in Tools : ~At(t, "panic")

\* With hardware margining, what is shown is what the run was that returned it:
\* its lanes, its test and its side, also when another program has changed the
\* parameters or run the port in between.
ShownIsMeasured ==
    caps.hardware =>
        \A t \in Tools : \A line \in shown[t].lines :
            /\ line.test = shown[t].of.test
            /\ shown[t].of.lanes \in {line.lane, "all"}
            /\ IndependentMargins(line.test) = "either" =>
                   line.side = IF shown[t].of.rhu THEN "hr" ELSE "ll"

\* A program that has come to its end without interference has run each test
\* on each of the two lanes and, where the port returns one of the two margins
\* only, once for each of them.
EveryMarginMeasured ==
    \A t \in Tools \ disturbed : At(t, "done") =>
        \A test \in Tests, lane \in {"0", "1"}, high \in BOOLEAN :
            test = "voltage" \/ (caps.time /\ ~caps.destructive) =>
                \E m \in measured[t] :
                    /\ m.test = test /\ m.lanes \in {lane, "all"}
                    /\ m.mode = "hardware" <=> caps.hardware
                    /\ IndependentMargins(test) = "either" =>
                           high = (m.margin \in HighOrRight)

\* The margins that are shown of a lane are those measured on it, the low or
\* left one and the high or right one each from its field of the result.
MarginsOfTheirLane ==
    \A t \in Tools : \A line \in shown[t].lines :
        line.side \in {"ll", "hr"} => line.field = <<line.lane, line.side>>
=============================================================================
