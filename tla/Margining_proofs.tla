--------------------------- MODULE Margining_proofs ---------------------------
(***************************************************************************)
(* Proofs about Margining, for any number of programs and any port.        *)
(***************************************************************************)
EXTENDS Margining, TLAPS

USE PortsAssumption

\* What may be run: a time test only where there is one that is harmless.
Permitted(test) == test = "time" => caps.time /\ ~caps.destructive

\* A program at work has the mode the port has, the BER level contour when it is
\* going to write it, and permitted tests only, in its object and ahead of it.
Working(s) ==
    /\ s.mode = ModeOf
    /\ s.ber = caps.hardware
    /\ Permitted(s.test)
    /\ \A i \in 1..Len(s.testsLeft) : Permitted(s.testsLeft[i])
    /\ s.pc # "panic"
    /\ s.pc = "ber" => s.mode = "hardware"

WorkInv ==
    \A t \in Tools :
        \/ tool[t].pc \in {"new", "failed", "unsupported"}
        \/ Working(tool[t])

\* From the write of the test on, the kernel has a permitted one, as every
\* program writes such only.
TestInv ==
    /\ attrs.test = "time" => caps.time
    /\ result.test = "time" => caps.time
    /\ \A t \in Tools : tool[t].pc \in {"margin", "run"} => Permitted(attrs.test)

IInv == TypeOK /\ WorkInv /\ TestInv /\ NeverDestructive /\ ShownIsMeasured

-----------------------------------------------------------------------------
(***************************************************************************)
(* The loops keep the types and the permitted tests.                       *)
(***************************************************************************)
LEMMA MarginsType ==
    ASSUME NEW test PROVE MarginsOf(test) \in Seq(Margins)
<1>1. <<>> \in Seq(Margins)
    OBVIOUS
<1>2. <<"low", "high">> \in Seq(Margins)
    BY DEF Margins
<1>3. <<"left", "right">> \in Seq(Margins)
    BY DEF Margins
<1>4. QED
    BY <1>1, <1>2, <1>3, Zenon DEF MarginsOf

\* Mode, BER and tests of a run that starts are those of the object, and it
\* begins with the first write.
Starts(s) == s.pc \in {"ber", "lanes"}

LEMMA StartRunKeeps ==
    ASSUME NEW s \in Tool, Working(s)
    PROVE  StartRun(s) \in Tool /\ Working(StartRun(s)) /\ Starts(StartRun(s))
BY DEF StartRun, Tool, PCs, Working, Permitted, ModeOf, Starts

LEMMA NextMarginKeeps ==
    ASSUME NEW s \in Tool, Working(s), s.marginsLeft # <<>>
    PROVE  NextMargin(s) \in Tool /\ Working(NextMargin(s)) /\ Starts(NextMargin(s))
<1> DEFINE u == [s EXCEPT !.margin = Head(s.marginsLeft),
                          !.marginsLeft = Tail(s.marginsLeft)]
<1>1. Head(s.marginsLeft) \in Margins /\ Tail(s.marginsLeft) \in Seq(Margins)
    BY DEF Tool
<1>2. u \in Tool
    BY <1>1 DEF Tool
<1>3. Working(u)
    BY DEF Working, Permitted, Tool, ModeOf
<1>4. QED
    BY <1>2, <1>3, StartRunKeeps DEF NextMargin

LEMMA NextLaneKeeps ==
    ASSUME NEW s \in Tool, Working(s), s.lanesLeft # <<>>
    PROVE  NextLane(s) \in Tool /\ Working(NextLane(s)) /\ Starts(NextLane(s))
<1> DEFINE u == [s EXCEPT !.lanes = Head(s.lanesLeft),
                          !.lanesLeft = Tail(s.lanesLeft),
                          !.marginsLeft = MarginsOf(s.test)]
<1>1. Head(s.lanesLeft) \in Lanes /\ Tail(s.lanesLeft) \in Seq(Lanes)
    BY DEF Tool
<1>2. u \in Tool
    BY <1>1, MarginsType DEF Tool
<1>3. Working(u)
    BY DEF Working, Permitted, Tool, ModeOf
<1>4. QED
    BY <1>2, <1>3, StartRunKeeps, NextMarginKeeps DEF NextLane

LEMMA NextTestKeeps ==
    ASSUME NEW s \in Tool, s.testsLeft # <<>>, s.mode = ModeOf,
           s.ber = caps.hardware, s.pc # "panic",
           s.pc = "ber" => s.mode = "hardware",
           \A i \in 1..Len(s.testsLeft) : Permitted(s.testsLeft[i])
    PROVE  NextTest(s) \in Tool /\ Working(NextTest(s)) /\ Starts(NextTest(s))
<1> DEFINE u == [s EXCEPT !.test = Head(s.testsLeft),
                          !.testsLeft = Tail(s.testsLeft),
                          !.lanesLeft = LanesOf]
<1>1. /\ Head(s.testsLeft) \in Tests /\ Tail(s.testsLeft) \in Seq(Tests)
      /\ Head(s.testsLeft) = s.testsLeft[1]
      /\ Len(s.testsLeft) \in Nat \ {0}
      /\ Len(Tail(s.testsLeft)) = Len(s.testsLeft) - 1
      /\ \A i \in 1..Len(Tail(s.testsLeft)) :
             Tail(s.testsLeft)[i] = s.testsLeft[i + 1]
    BY DEF Tool
<1>2. LanesOf \in Seq(Lanes) /\ LanesOf # <<>>
    <2>1. <<"all">> \in Seq(Lanes) /\ <<"all">> # <<>>
        BY DEF Lanes
    <2>2. <<"0", "1">> \in Seq(Lanes) /\ <<"0", "1">> # <<>>
        BY DEF Lanes
    <2>3. QED
        BY <2>1, <2>2 DEF LanesOf
<1>3. u \in Tool /\ u.lanesLeft # <<>>
    BY <1>1, <1>2 DEF Tool
<1>4. Permitted(Head(s.testsLeft))
    BY <1>1
<1>5. \A i \in 1..Len(Tail(s.testsLeft)) : Permitted(Tail(s.testsLeft)[i])
    BY <1>1
<1>6. Working(u)
    BY <1>3, <1>4, <1>5 DEF Working, Tool, ModeOf
<1>7. QED
    BY <1>3, <1>6, NextLaneKeeps DEF NextTest

LEMMA AdvanceKeeps ==
    ASSUME NEW s \in Tool, Working(s)
    PROVE  /\ Advance(s) \in Tool /\ Working(Advance(s))
           /\ Starts(Advance(s)) \/ Advance(s).pc = "done"
<1>1. CASE s.marginsLeft # <<>>
    BY <1>1, NextMarginKeeps DEF Advance
<1>2. CASE s.marginsLeft = <<>> /\ s.lanesLeft # <<>>
    BY <1>2, NextLaneKeeps DEF Advance
<1>3. CASE s.marginsLeft = <<>> /\ s.lanesLeft = <<>> /\ s.testsLeft # <<>>
    BY <1>3, NextTestKeeps DEF Advance, Working
<1>4. CASE s.marginsLeft = <<>> /\ s.lanesLeft = <<>> /\ s.testsLeft = <<>>
    <2>1. Advance(s) = [s EXCEPT !.pc = "done"]
        BY <1>4 DEF Advance
    <2>2. QED
        BY <2>1 DEF Tool, PCs, Working, Permitted, ModeOf
<1>5. QED
    BY <1>1, <1>2, <1>3, <1>4

-----------------------------------------------------------------------------
(***************************************************************************)
(* What is shown.                                                          *)
(***************************************************************************)
LEMMA LaneResultIs ==
    ASSUME NEW test \in Tests, NEW rhu \in BOOLEAN, NEW lane \in {"0", "1", "2"},
           NEW ll \in Fields, NEW hr \in Fields
    PROVE  /\ LaneResult(test, rhu, lane, ll, hr) \subseteq Line
           /\ \A line \in LaneResult(test, rhu, lane, ll, hr) :
                  /\ line.test = test /\ line.lane = lane
                  /\ IndependentMargins(test) = "either" =>
                         line.side = IF rhu THEN "hr" ELSE "ll"
<1>1. CASE IndependentMargins(test) = "minimum"
    BY <1>1 DEF LaneResult, Line
<1>2. CASE IndependentMargins(test) = "both"
    BY <1>2 DEF LaneResult, Line
<1>3. CASE IndependentMargins(test) \notin {"minimum", "both"}
    BY <1>3 DEF LaneResult, Line
<1>4. QED
    BY <1>1, <1>2, <1>3

LEMMA MarginLinesAre ==
    ASSUME NEW r \in Results
    PROVE  /\ MarginLines(r) \subseteq Line
           /\ \A line \in MarginLines(r) :
                  /\ line.test = r.test
                  /\ r.lanes \in {line.lane, "all"}
                  /\ IndependentMargins(line.test) = "either" =>
                         line.side = IF r.rhu THEN "hr" ELSE "ll"
<1> SUFFICES ASSUME NEW line \in MarginLines(r)
             PROVE  /\ line \in Line
                    /\ line.test = r.test
                    /\ r.lanes \in {line.lane, "all"}
                    /\ IndependentMargins(line.test) = "either" =>
                           line.side = IF r.rhu THEN "hr" ELSE "ll"
    OBVIOUS
<1>1. PICK l \in {"0", "1", "2"} :
          /\ IntersectsWith(r.lanes, l)
          /\ line \in LaneResult(r.test, r.rhu, l, <<l, "hr">>, <<"0", "ll">>)
    BY DEF MarginLines
<1>2. r.test \in Tests /\ r.rhu \in BOOLEAN
    BY DEF Results
<1>3. <<l, "hr">> \in Fields /\ <<"0", "ll">> \in Fields
    BY DEF Fields
<1>4. QED
    BY <1>1, <1>2, <1>3, LaneResultIs DEF IntersectsWith

LEMMA ShowLinesType ==
    ASSUME NEW s \in Tool, NEW r \in Results
    PROVE  ShowLines(s, r) \subseteq Line
<1>1. CASE s.mode = "hardware"
    BY <1>1, MarginLinesAre DEF ShowLines
<1>2. CASE s.mode # "hardware"
    <2> DEFINE lane == IF s.lanes = "all" THEN "0" ELSE s.lanes
    <2>1. lane \in {"0", "1", "2"} /\ s.test \in Tests
        BY DEF Tool, Lanes
    <2>2. ShowLines(s, r) = {[test |-> s.test, lane |-> lane, side |-> "errors",
                              field |-> <<lane, "hr">>]}
        BY <1>2 DEF ShowLines
    <2>3. QED
        BY <2>1, <2>2 DEF Line, Fields
<1>3. QED
    BY <1>1, <1>2

-----------------------------------------------------------------------------
(***************************************************************************)
(* The invariant.                                                          *)
(***************************************************************************)
LEMMA InvInit == Init => IInv
<1> SUFFICES ASSUME Init PROVE IInv
    OBVIOUS
<1>1. caps \in RawCaps /\ attrs \in Attrs /\ (attrs.test = "time" => caps.time)
    BY DEF Init
<1>2. result \in Results /\ result.test = attrs.test
    BY <1>1 DEF Init, Results, Attrs
<1>3. tool \in [Tools -> Tool] /\ \A t \in Tools : tool[t].pc = "new"
    BY <1>1 DEF Init, Attrs, Tool, PCs
<1>4. shown \in [Tools -> [lines : SUBSET Line, of : Results]]
    BY <1>2 DEF Init
<1>5. measured \in [Tools -> SUBSET Attrs] /\ disturbed \subseteq Tools
    BY DEF Init
<1>6. TypeOK
    BY <1>1, <1>2, <1>3, <1>4, <1>5 DEF TypeOK
<1>7. WorkInv
    BY <1>3 DEF WorkInv
<1>8. TestInv
    BY <1>1, <1>2, <1>3 DEF TestInv
<1>9. NeverDestructive /\ ShownIsMeasured
    BY DEF Init, NeverDestructive, ShownIsMeasured
<1>10. QED
    BY <1>6, <1>7, <1>8, <1>9 DEF IInv

\* What a program does with its own place and object only.
LEMMA LocalStep ==
    ASSUME IInv, NEW t \in Tools, NEW u \in Tool,
           tool' = [tool EXCEPT ![t] = u],
           u.pc \in {"new", "failed", "unsupported"} \/ Working(u),
           u.pc \in {"margin", "run"} => Permitted(attrs.test),
           UNCHANGED <<caps, attrs, result, shown, measured, disturbed>>
    PROVE  IInv'
<1>1. TypeOK'
    BY DEF IInv, TypeOK
<1>2. \A s : Working(s)' <=> Working(s)
    BY DEF Working, Permitted, ModeOf
<1>3. tool'[t] = u /\ \A w \in Tools \ {t} : tool'[w] = tool[w]
    BY DEF IInv, TypeOK
<1>4. WorkInv'
    BY <1>2, <1>3 DEF IInv, WorkInv
<1>5. TestInv'
    BY <1>3 DEF IInv, TestInv, Permitted
<1>6. NeverDestructive'
    BY DEF IInv, NeverDestructive
<1>7. ShownIsMeasured'
    BY DEF IInv, ShownIsMeasured, IndependentMargins, Independent
<1>8. QED
    BY <1>1, <1>4, <1>5, <1>6, <1>7 DEF IInv

LEMMA NewStep ==
    ASSUME IInv, NEW t \in Tools, New(t) PROVE IInv'
<1> DEFINE o == [pc |-> "new", mode |-> ModeOf, ber |-> caps.hardware,
                 lanes |-> attrs.lanes, test |-> attrs.test,
                 margin |-> IF TakesMargin THEN attrs.margin ELSE NoMargin,
                 testsLeft |-> TestsOf, lanesLeft |-> <<>>,
                 marginsLeft |-> <<>>]
<1>1. CASE tool' = [tool EXCEPT ![t].pc = "unsupported"]
    <2> DEFINE u == [tool[t] EXCEPT !.pc = "unsupported"]
    <2>1. u \in Tool /\ u.pc = "unsupported"
        <3>1. tool[t] \in Tool
            BY DEF IInv, TypeOK
        <3>2. "unsupported" \in PCs
            BY DEF PCs
        <3>3. QED
            BY <3>1, <3>2 DEF Tool
    <2>2. tool' = [tool EXCEPT ![t] = u]
        BY <1>1
    <2>3. QED
        BY <2>1, <2>2, LocalStep DEF New
<1>2. CASE tool' = [tool EXCEPT ![t] = NextTest(o)]
    <2>1. TestsOf \in Seq(Tests) /\ TestsOf # <<>>
          /\ \A i \in 1..Len(TestsOf) : Permitted(TestsOf[i])
        <3>1. CASE caps.time /\ ~caps.destructive
            <4>1. TestsOf = <<"voltage", "time">>
                BY <3>1 DEF TestsOf
            <4>2. QED
                BY <3>1, <4>1 DEF Tests, Permitted
        <3>2. CASE ~(caps.time /\ ~caps.destructive)
            <4>1. TestsOf = <<"voltage">>
                BY <3>2 DEF TestsOf
            <4>2. QED
                BY <4>1 DEF Tests, Permitted
        <3>3. QED
            BY <3>1, <3>2
    <2>2. /\ ModeOf \in Modes /\ caps.hardware \in BOOLEAN
          /\ attrs.lanes \in Lanes /\ attrs.test \in Tests
          /\ attrs.margin \in Margins
        BY DEF IInv, TypeOK, RawCaps, Attrs, ModeOf, Modes
    <2>3. (IF TakesMargin THEN attrs.margin ELSE NoMargin)
              \in Margins \union {NoMargin}
        BY <2>2
    <2>4. o \in Tool
        BY <2>1, <2>2, <2>3 DEF Tool, PCs
    <2>5. NextTest(o) \in Tool /\ Working(NextTest(o)) /\ Starts(NextTest(o))
        BY <2>1, <2>4, NextTestKeeps
    <2>6. QED
        BY <1>2, <2>5, LocalStep DEF New, Starts
<1>3. QED
    BY <1>1, <1>2 DEF New

LEMMA WriteBerStep ==
    ASSUME IInv, NEW t \in Tools, WriteBer(t) PROVE IInv'
<1> DEFINE u == [tool[t] EXCEPT !.pc = "lanes"]
<1>1. tool[t] \in Tool /\ tool[t].pc = "ber" /\ Working(tool[t])
    BY DEF IInv, TypeOK, WorkInv, WriteBer, At
<1>2. CASE tool[t].ber
    <2>1. tool' = [tool EXCEPT ![t] = u]
        BY <1>2 DEF WriteBer
    <2>2. u \in Tool /\ Working(u) /\ u.pc = "lanes"
        BY <1>1 DEF Tool, PCs, Working, Permitted, ModeOf
    <2>3. QED
        BY <2>1, <2>2, LocalStep DEF WriteBer
<1>3. CASE ~tool[t].ber
    \* The object has no level only when the mode is software.
    BY <1>1, <1>3 DEF Working, ModeOf
<1>4. QED
    BY <1>2, <1>3

\* The writes: of the parameters only the test matters, and it is permitted.
LEMMA WriteStep ==
    ASSUME IInv, NEW t \in Tools, NEW attr \in {"lanes", "mode", "test", "margin"},
           NEW next \in {"mode", "test", "margin", "run"},
           attr = "margin" => tool[t].margin # NoMargin,
           next = "margin" => attr = "test",
           next = "run" => attr \in {"test", "margin"},
           Write(t, attr, next)
    PROVE  IInv'
<1> DEFINE u == [tool[t] EXCEPT !.pc = next]
<1>1. tool[t] \in Tool /\ tool[t].pc = attr /\ Working(tool[t])
    BY DEF IInv, TypeOK, WorkInv, Write, At
<1>2. /\ tool' = [tool EXCEPT ![t] = u]
      /\ attrs' = [attrs EXCEPT ![attr] = tool[t][attr]]
      /\ UNCHANGED <<caps, result, shown, measured>>
    BY DEF Write
<1>3. /\ u \in Tool /\ u.pc = next /\ Working(u)
    BY <1>1 DEF Tool, PCs, Working, Permitted, ModeOf
<1>4. attrs' \in Attrs
    BY <1>1, <1>2 DEF IInv, TypeOK, Attrs, Tool
<1>5. disturbed' \subseteq Tools
    BY DEF Write, Disturb, IInv, TypeOK
<1>6. TypeOK'
    BY <1>2, <1>3, <1>4, <1>5 DEF IInv, TypeOK
<1>7. tool'[t] = u /\ \A w \in Tools \ {t} : tool'[w] = tool[w]
    BY <1>2 DEF IInv, TypeOK
<1>8. WorkInv'
    <2>1. \A s : Working(s)' <=> Working(s)
        BY <1>2 DEF Working, Permitted, ModeOf
    <2>2. QED
        BY <1>3, <1>7, <2>1 DEF IInv, WorkInv
<1>9. TestInv'
    <2>1. CASE attr = "test"
        <3>1. attrs'.test = tool[t].test /\ Permitted(attrs'.test)
            BY <1>1, <1>2, <2>1 DEF IInv, TypeOK, Attrs, Working
        <3>2. QED
            BY <1>2, <3>1 DEF IInv, TestInv, Permitted
    <2>2. CASE attr # "test"
        <3>1. attrs'.test = attrs.test
            BY <1>2, <2>2 DEF IInv, TypeOK, Attrs
        <3>2. next \in {"margin", "run"} => tool[t].pc = "margin"
            BY <1>1, <2>2
        <3>3. QED
            BY <1>2, <1>3, <1>7, <3>1, <3>2 DEF IInv, TestInv, Permitted
    <2>3. QED
        BY <2>1, <2>2
<1>10. NeverDestructive'
    BY <1>2 DEF IInv, NeverDestructive
<1>11. ShownIsMeasured'
    BY <1>2 DEF IInv, ShownIsMeasured, IndependentMargins, Independent
<1>12. QED
    BY <1>6, <1>8, <1>9, <1>10, <1>11 DEF IInv

LEMMA RunStep ==
    ASSUME IInv, NEW t \in Tools, Run(t) PROVE IInv'
<1> DEFINE u == [tool[t] EXCEPT !.pc = "results"]
<1>1. tool[t] \in Tool /\ tool[t].pc = "run" /\ Working(tool[t])
    BY DEF IInv, TypeOK, WorkInv, Run, At
<1>2. /\ tool' = [tool EXCEPT ![t] = u]
      /\ measured' = [measured EXCEPT ![t] = measured[t] \union {attrs}]
      /\ UNCHANGED <<caps, attrs, shown>>
    BY DEF Run
<1>3. u \in Tool /\ u.pc = "results" /\ Working(u)
    BY <1>1 DEF Tool, PCs, Working, Permitted, ModeOf
<1>4. result' \in Results /\ result'.test = attrs.test
    BY DEF Run, Results, IInv, TypeOK, Attrs
<1>5. attrs \in Attrs /\ Permitted(attrs.test)
    BY <1>1 DEF IInv, TypeOK, TestInv
<1>6. TypeOK'
    <2>1. disturbed' \subseteq Tools
        BY DEF Run, Disturb, IInv, TypeOK
    <2>2. QED
        BY <1>2, <1>3, <1>4, <1>5, <2>1 DEF IInv, TypeOK
<1>7. tool'[t] = u /\ \A w \in Tools \ {t} : tool'[w] = tool[w]
    BY <1>2 DEF IInv, TypeOK
<1>8. WorkInv'
    <2>1. \A s : Working(s)' <=> Working(s)
        BY <1>2 DEF Working, Permitted, ModeOf
    <2>2. QED
        BY <1>3, <1>7, <2>1 DEF IInv, WorkInv
<1>9. TestInv'
    BY <1>2, <1>3, <1>4, <1>7 DEF IInv, TestInv, Permitted
<1>10. NeverDestructive'
    BY <1>2, <1>5 DEF IInv, TypeOK, NeverDestructive, Permitted
<1>11. ShownIsMeasured'
    BY <1>2 DEF IInv, ShownIsMeasured, IndependentMargins, Independent
<1>12. QED
    BY <1>6, <1>8, <1>9, <1>10, <1>11 DEF IInv

LEMMA ReadStep ==
    ASSUME IInv, NEW t \in Tools, ReadResults(t) PROVE IInv'
<1> DEFINE u == Advance(tool[t])
           n == [lines |-> ShowLines(tool[t], result), of |-> result]
<1>1. tool[t] \in Tool /\ tool[t].pc = "results" /\ Working(tool[t])
    BY DEF IInv, TypeOK, WorkInv, ReadResults, At
<1>2. /\ tool' = [tool EXCEPT ![t] = u]
      /\ shown' = [shown EXCEPT ![t] = n]
      /\ UNCHANGED <<caps, attrs, result, measured, disturbed>>
    \* The other disjunct unwraps the capabilities for time, which are there.
    BY DEF ReadResults, IInv, TestInv
<1>3. u \in Tool /\ Working(u) /\ u.pc \in {"ber", "lanes", "done"}
    BY <1>1, AdvanceKeeps DEF Starts
<1>4. result \in Results /\ n \in [lines : SUBSET Line, of : Results]
    BY <1>1, ShowLinesType DEF IInv, TypeOK
<1>5. TypeOK'
    BY <1>2, <1>3, <1>4 DEF IInv, TypeOK
<1>6. tool'[t] = u /\ \A w \in Tools \ {t} : tool'[w] = tool[w]
    BY <1>2 DEF IInv, TypeOK
<1>7. WorkInv'
    <2>1. \A s : Working(s)' <=> Working(s)
        BY <1>2 DEF Working, Permitted, ModeOf
    <2>2. QED
        BY <1>3, <1>6, <2>1 DEF IInv, WorkInv
<1>8. TestInv'
    BY <1>2, <1>3, <1>6 DEF IInv, TestInv, Permitted
<1>9. NeverDestructive'
    BY <1>2 DEF IInv, NeverDestructive
<1>10. ShownIsMeasured'
    <2> SUFFICES ASSUME caps.hardware, NEW w \in Tools,
                        NEW line \in shown'[w].lines
                 PROVE  /\ line.test = shown'[w].of.test
                        /\ shown'[w].of.lanes \in {line.lane, "all"}
                        /\ IndependentMargins(line.test) = "either" =>
                               line.side = IF shown'[w].of.rhu THEN "hr" ELSE "ll"
        BY <1>2 DEF ShownIsMeasured, IndependentMargins, Independent
    <2>1. CASE w = t
        <3>1. shown'[w] = n
            BY <1>2, <2>1 DEF IInv, TypeOK
        <3>2. n.lines = MarginLines(result) /\ n.of = result
            BY <1>1 DEF ShowLines, Working, ModeOf
        <3>3. QED
            BY <1>4, <3>1, <3>2, MarginLinesAre
    <2>2. CASE w # t
        <3>1. shown'[w] = shown[w]
            BY <1>2, <2>2 DEF IInv, TypeOK
        <3>2. QED
            BY <3>1 DEF IInv, ShownIsMeasured
    <2>3. QED
        BY <2>1, <2>2
<1>11. QED
    BY <1>5, <1>7, <1>8, <1>9, <1>10 DEF IInv

LEMMA EndStep ==
    ASSUME IInv, NEW t \in Tools, ShowCaps(t) \/ Fail(t) PROVE IInv'
<1>1. PICK pc \in {"unsupported", "failed"} :
          tool' = [tool EXCEPT ![t].pc = pc]
    BY DEF ShowCaps, Fail
<1> DEFINE u == [tool[t] EXCEPT !.pc = pc]
<1>2. u \in Tool /\ u.pc = pc
    <2>1. tool[t] \in Tool /\ pc \in PCs
        BY DEF IInv, TypeOK, PCs
    <2>2. QED
        BY <2>1 DEF Tool
<1>3. tool' = [tool EXCEPT ![t] = u]
    BY <1>1
<1>4. QED
    BY <1>2, <1>3, LocalStep DEF ShowCaps, Fail

LEMMA InvStep == IInv /\ [Next]_vars => IInv'
<1> SUFFICES ASSUME IInv, [Next]_vars PROVE IInv'
    OBVIOUS
<1>1. CASE UNCHANGED vars
    BY <1>1 DEF vars, IInv, TypeOK, WorkInv, Working, Permitted, ModeOf, TestInv,
                NeverDestructive, ShownIsMeasured, IndependentMargins, Independent
<1>2. ASSUME NEW t \in Tools, Step(t) PROVE IInv'
    <2>1. CASE New(t)
        BY <2>1, NewStep
    <2>2. CASE ShowCaps(t) \/ Fail(t)
        BY <2>2, EndStep
    <2>3. CASE WriteBer(t)
        BY <2>3, WriteBerStep
    <2>4. CASE WriteLanes(t)
        BY <2>4, WriteStep DEF WriteLanes
    <2>5. CASE WriteMode(t)
        BY <2>5, WriteStep DEF WriteMode
    <2>6. CASE WriteTest(t)
        <3> DEFINE next == IF tool[t].margin = NoMargin THEN "run" ELSE "margin"
        <3>1. next \in {"run", "margin"} /\ Write(t, "test", next)
            BY <2>6 DEF WriteTest
        <3>2. QED
            BY <3>1, WriteStep
    <2>7. CASE WriteMargin(t)
        BY <2>7, WriteStep DEF WriteMargin
    <2>8. CASE Run(t)
        BY <2>8, RunStep
    <2>9. CASE ReadResults(t)
        BY <2>9, ReadStep
    <2>10. QED
        BY <1>2, <2>1, <2>2, <2>3, <2>4, <2>5, <2>6, <2>7, <2>8, <2>9 DEF Step
<1>3. QED
    BY <1>1, <1>2 DEF Next

LEMMA InvAlways == Spec => []IInv
BY InvInit, InvStep, PTL DEF Spec

-----------------------------------------------------------------------------
(***************************************************************************)
(* What is measured by a program that nobody interferes with.              *)
(***************************************************************************)
\* The margin is one that tells about this side, where sides are told apart.
OfSide(test, high, margin) ==
    IndependentMargins(test) = "either" => high = (margin \in HighOrRight)

Covered(ms, test, lane, high) ==
    \E m \in ms : /\ m.test = test /\ m.lanes \in {lane, "all"}
                  /\ m.mode = "hardware" <=> caps.hardware
                  /\ OfSide(test, high, m.margin)

\* The loops are still to come by it.
Ahead(s, test, lane, high) ==
    \/ \E i \in 1..Len(s.testsLeft) : s.testsLeft[i] = test
    \/ /\ test = s.test
       /\ \E i \in 1..Len(s.lanesLeft) : s.lanesLeft[i] \in {lane, "all"}
    \/ /\ test = s.test /\ s.lanes \in {lane, "all"}
       /\ \E i \in 1..Len(s.marginsLeft) :
              high = (s.marginsLeft[i] \in HighOrRight)

\* It is what the object asks for.
Asked(s, test, lane, high) ==
    test = s.test /\ s.lanes \in {lane, "all"} /\ OfSide(test, high, s.margin)

Places == {"ber", "lanes", "mode", "test", "margin", "run"}

\* Each of the margins there are to measure has been measured, is asked for, or
\* is still to come.
Course(t) ==
    \A test \in Tests, lane \in {"0", "1"}, high \in BOOLEAN :
        Permitted(test) =>
            \/ Covered(measured[t], test, lane, high)
            \/ tool[t].pc # "done" /\ Ahead(tool[t], test, lane, high)
            \/ tool[t].pc \in Places /\ Asked(tool[t], test, lane, high)

\* What it has written so far is what the kernel has.
Written(t) ==
    LET s == tool[t]
    IN  /\ s.pc \in {"mode", "test", "margin", "run"} => attrs.lanes = s.lanes
        /\ s.pc \in {"test", "margin", "run"} => attrs.mode = s.mode
        /\ s.pc \in {"margin", "run"} => attrs.test = s.test
        /\ s.pc = "run" /\ s.margin # NoMargin => attrs.margin = s.margin

HasMargin(s) == IndependentMargins(s.test) = "either" => s.margin # NoMargin

CourseInv ==
    \A t \in Tools \ disturbed :
        tool[t].pc \in Places \union {"results", "done"} =>
            Course(t) /\ Written(t) /\ HasMargin(tool[t])

\* A run that starts changes the place alone.
LEMMA StartRunAsks ==
    ASSUME NEW s \in Tool
    PROVE  /\ StartRun(s).pc \in {"ber", "lanes"}
           /\ HasMargin(StartRun(s)) <=> HasMargin(s)
           /\ \A test, lane, high :
                  /\ Ahead(StartRun(s), test, lane, high) <=> Ahead(s, test, lane, high)
                  /\ Asked(StartRun(s), test, lane, high) <=> Asked(s, test, lane, high)
<1>1. /\ StartRun(s).pc \in {"ber", "lanes"}
      /\ StartRun(s).test = s.test /\ StartRun(s).lanes = s.lanes
      /\ StartRun(s).margin = s.margin
      /\ StartRun(s).testsLeft = s.testsLeft
      /\ StartRun(s).lanesLeft = s.lanesLeft
      /\ StartRun(s).marginsLeft = s.marginsLeft
    BY DEF StartRun, Tool
<1>2. HasMargin(StartRun(s)) <=> HasMargin(s)
    BY <1>1 DEF HasMargin
<1>3. ASSUME NEW test, NEW lane, NEW high
      PROVE  Ahead(StartRun(s), test, lane, high) <=> Ahead(s, test, lane, high)
    BY <1>1 DEF Ahead
<1>4. ASSUME NEW test, NEW lane, NEW high
      PROVE  Asked(StartRun(s), test, lane, high) <=> Asked(s, test, lane, high)
    BY <1>1 DEF Asked
<1>5. QED
    BY <1>1, <1>2, <1>3, <1>4

\* What is ahead of a round of a loop is asked for by the round or ahead of
\* what follows it.
GoesOn(s, u) ==
    /\ u.pc \in {"ber", "lanes"}
    /\ HasMargin(u)
    /\ \A test \in Tests, lane \in {"0", "1"}, high \in BOOLEAN :
           Ahead(s, test, lane, high) =>
               Ahead(u, test, lane, high) \/ Asked(u, test, lane, high)

LEMMA StartRunGoesOn ==
    ASSUME NEW s, NEW u \in Tool, HasMargin(u),
           \A test \in Tests, lane \in {"0", "1"}, high \in BOOLEAN :
               Ahead(s, test, lane, high) =>
                   Ahead(u, test, lane, high) \/ Asked(u, test, lane, high)
    PROVE  GoesOn(s, StartRun(u))
BY StartRunAsks DEF GoesOn

\* The head and the tail of a sequence are all of it.
LEMMA HeadOrTail ==
    ASSUME NEW S, NEW q \in Seq(S), q # <<>>
    PROVE  /\ Head(q) \in S /\ Tail(q) \in Seq(S)
           /\ \A i \in 1..Len(q) :
                  q[i] = Head(q) \/ \E j \in 1..Len(Tail(q)) : Tail(q)[j] = q[i]
<1>1. /\ Head(q) \in S /\ Tail(q) \in Seq(S) /\ Len(q) \in Nat
      /\ Head(q) = q[1] /\ Len(Tail(q)) = Len(q) - 1
      /\ \A j \in 1..Len(Tail(q)) : Tail(q)[j] = q[j + 1]
    OBVIOUS
<1>2. ASSUME NEW i \in 1..Len(q), i # 1
      PROVE  \E j \in 1..Len(Tail(q)) : Tail(q)[j] = q[i]
    <2>1. i - 1 \in 1..Len(Tail(q)) /\ (i - 1) + 1 = i
        BY <1>1, <1>2
    <2>2. QED
        BY <1>1, <2>1
<1>3. QED
    BY <1>1, <1>2

LEMMA NextMarginGoesOn ==
    ASSUME NEW s \in Tool, s.marginsLeft # <<>>
    PROVE  GoesOn(s, NextMargin(s))
<1> DEFINE u == [s EXCEPT !.margin = Head(s.marginsLeft),
                          !.marginsLeft = Tail(s.marginsLeft)]
<1>1. s.marginsLeft \in Seq(Margins)
    BY DEF Tool
<1>2. /\ Head(s.marginsLeft) \in Margins /\ Tail(s.marginsLeft) \in Seq(Margins)
      /\ \A i \in 1..Len(s.marginsLeft) :
             \/ s.marginsLeft[i] = Head(s.marginsLeft)
             \/ \E j \in 1..Len(Tail(s.marginsLeft)) :
                    Tail(s.marginsLeft)[j] = s.marginsLeft[i]
    BY <1>1, HeadOrTail
<1>3. /\ u \in Tool /\ u.margin = Head(s.marginsLeft)
      /\ u.marginsLeft = Tail(s.marginsLeft)
      /\ u.test = s.test /\ u.lanes = s.lanes
      /\ u.testsLeft = s.testsLeft /\ u.lanesLeft = s.lanesLeft
    BY <1>2 DEF Tool
<1>4. HasMargin(u)
    BY <1>2, <1>3 DEF HasMargin, Margins, NoMargin
<1>5. ASSUME NEW test \in Tests, NEW lane \in {"0", "1"}, NEW high \in BOOLEAN,
             Ahead(s, test, lane, high)
      PROVE  Ahead(u, test, lane, high) \/ Asked(u, test, lane, high)
    <2>1. CASE \E i \in 1..Len(s.testsLeft) : s.testsLeft[i] = test
        BY <1>3, <2>1 DEF Ahead
    <2>2. CASE /\ test = s.test
               /\ \E i \in 1..Len(s.lanesLeft) : s.lanesLeft[i] \in {lane, "all"}
        BY <1>3, <2>2 DEF Ahead
    <2>3. CASE /\ test = s.test /\ s.lanes \in {lane, "all"}
               /\ \E i \in 1..Len(s.marginsLeft) :
                      high = (s.marginsLeft[i] \in HighOrRight)
        <3>1. PICK i \in 1..Len(s.marginsLeft) :
                  high = (s.marginsLeft[i] \in HighOrRight)
            BY <2>3
        <3>2. CASE s.marginsLeft[i] = Head(s.marginsLeft)
            BY <1>3, <2>3, <3>1, <3>2 DEF Asked, OfSide
        <3>3. CASE \E j \in 1..Len(Tail(s.marginsLeft)) :
                       Tail(s.marginsLeft)[j] = s.marginsLeft[i]
            BY <1>3, <2>3, <3>1, <3>3 DEF Ahead
        <3>4. QED
            BY <1>2, <3>2, <3>3
    <2>4. QED
        BY <1>5, <2>1, <2>2, <2>3 DEF Ahead
<1>6. NextMargin(s) = StartRun(u)
    BY DEF NextMargin
<1>7. QED
    BY <1>3, <1>4, <1>5, <1>6, StartRunGoesOn

\* A test that takes a margin is run with one of each side.
LEMMA BothSides ==
    ASSUME NEW test, NEW high \in BOOLEAN,
           IndependentMargins(test) = "either"
    PROVE  /\ MarginsOf(test) # <<>>
           /\ \E i \in 1..Len(MarginsOf(test)) :
                  high = (MarginsOf(test)[i] \in HighOrRight)
<1>1. MarginsOf(test) \in {<<"low", "high">>, <<"left", "right">>}
    BY DEF MarginsOf
<1>2. /\ MarginsOf(test) # <<>> /\ Len(MarginsOf(test)) = 2
      /\ MarginsOf(test)[1] \in {"low", "left"}
      /\ MarginsOf(test)[2] \in {"high", "right"}
    BY <1>1
<1>3. MarginsOf(test)[1] \notin HighOrRight /\ MarginsOf(test)[2] \in HighOrRight
    BY <1>2 DEF HighOrRight
<1>4. 1 \in 1..Len(MarginsOf(test)) /\ 2 \in 1..Len(MarginsOf(test))
    BY <1>2
<1>5. CASE high
    BY <1>2, <1>3, <1>4, <1>5
<1>6. CASE ~high
    BY <1>2, <1>3, <1>4, <1>6
<1>7. QED
    BY <1>5, <1>6

LEMMA NoSides ==
    ASSUME NEW test, IndependentMargins(test) # "either"
    PROVE  MarginsOf(test) = <<>>
BY DEF MarginsOf

LEMMA GoesOnChains ==
    ASSUME NEW s, NEW u, NEW w, GoesOn(u, w),
           \A test \in Tests, lane \in {"0", "1"}, high \in BOOLEAN :
               Ahead(s, test, lane, high) => Ahead(u, test, lane, high)
    PROVE  GoesOn(s, w)
BY DEF GoesOn

LEMMA NextLaneGoesOn ==
    ASSUME NEW s \in Tool, s.marginsLeft = <<>>, s.lanesLeft # <<>>
    PROVE  GoesOn(s, NextLane(s))
<1> DEFINE u == [s EXCEPT !.lanes = Head(s.lanesLeft),
                          !.lanesLeft = Tail(s.lanesLeft),
                          !.marginsLeft = MarginsOf(s.test)]
<1>1. s.lanesLeft \in Seq(Lanes) /\ Len(s.marginsLeft) = 0
    BY DEF Tool
<1>2. /\ Head(s.lanesLeft) \in Lanes /\ Tail(s.lanesLeft) \in Seq(Lanes)
      /\ \A i \in 1..Len(s.lanesLeft) :
             \/ s.lanesLeft[i] = Head(s.lanesLeft)
             \/ \E j \in 1..Len(Tail(s.lanesLeft)) :
                    Tail(s.lanesLeft)[j] = s.lanesLeft[i]
    BY <1>1, HeadOrTail
<1>3. /\ u \in Tool /\ u.lanes = Head(s.lanesLeft)
      /\ u.lanesLeft = Tail(s.lanesLeft) /\ u.marginsLeft = MarginsOf(s.test)
      /\ u.test = s.test /\ u.margin = s.margin /\ u.testsLeft = s.testsLeft
    BY <1>2, MarginsType DEF Tool
<1>4. ASSUME NEW test \in Tests, NEW lane \in {"0", "1"}, NEW high \in BOOLEAN,
             Ahead(s, test, lane, high), ~Ahead(u, test, lane, high)
      PROVE  /\ test = u.test /\ u.lanes \in {lane, "all"}
             /\ IndependentMargins(test) # "either"
    <2>1. ~\E i \in 1..Len(s.testsLeft) : s.testsLeft[i] = test
        BY <1>3, <1>4 DEF Ahead
    <2>2. PICK i \in 1..Len(s.lanesLeft) :
              test = s.test /\ s.lanesLeft[i] \in {lane, "all"}
        BY <1>1, <1>4, <2>1 DEF Ahead
    <2>3. s.lanesLeft[i] = Head(s.lanesLeft)
        <3>1. ~\E j \in 1..Len(Tail(s.lanesLeft)) :
                   Tail(s.lanesLeft)[j] = s.lanesLeft[i]
            BY <1>3, <1>4, <2>2 DEF Ahead
        <3>2. QED
            BY <1>2, <3>1
    <2>4. test = u.test /\ u.lanes \in {lane, "all"}
        BY <1>3, <2>2, <2>3
    <2>5. IndependentMargins(test) # "either"
        <3>1. SUFFICES ASSUME IndependentMargins(test) = "either" PROVE FALSE
            OBVIOUS
        <3>2. \E k \in 1..Len(u.marginsLeft) :
                  high = (u.marginsLeft[k] \in HighOrRight)
            BY <1>3, <2>2, <3>1, BothSides
        <3>3. QED
            BY <1>4, <2>4, <3>2 DEF Ahead
    <2>6. QED
        BY <2>4, <2>5
<1>5. CASE IndependentMargins(s.test) = "either"
    <2>1. u.marginsLeft # <<>>
        BY <1>3, <1>5, BothSides
    <2>2. GoesOn(u, NextMargin(u)) /\ NextLane(s) = NextMargin(u)
        BY <1>3, <2>1, NextMarginGoesOn DEF NextLane
    <2>3. \A test \in Tests, lane \in {"0", "1"}, high \in BOOLEAN :
              Ahead(s, test, lane, high) => Ahead(u, test, lane, high)
        BY <1>3, <1>4, <1>5
    <2>4. QED
        BY <2>2, <2>3, GoesOnChains
<1>6. CASE IndependentMargins(s.test) # "either"
    <2>1. u.marginsLeft = <<>>
        BY <1>3, <1>6, NoSides
    <2>2. NextLane(s) = StartRun(u)
        BY <2>1 DEF NextLane
    <2>3. HasMargin(u)
        BY <1>3, <1>6 DEF HasMargin
    <2>4. \A test \in Tests, lane \in {"0", "1"}, high \in BOOLEAN :
              Ahead(s, test, lane, high) =>
                  Ahead(u, test, lane, high) \/ Asked(u, test, lane, high)
        BY <1>4 DEF Asked, OfSide
    <2>5. QED
        BY <1>3, <2>2, <2>3, <2>4, StartRunGoesOn
<1>7. QED
    BY <1>5, <1>6

LEMMA NextTestGoesOn ==
    ASSUME NEW s \in Tool, s.marginsLeft = <<>>, s.lanesLeft = <<>>,
           s.testsLeft # <<>>
    PROVE  GoesOn(s, NextTest(s))
<1> DEFINE u == [s EXCEPT !.test = Head(s.testsLeft),
                          !.testsLeft = Tail(s.testsLeft),
                          !.lanesLeft = LanesOf]
<1>1. /\ s.testsLeft \in Seq(Tests)
      /\ Len(s.marginsLeft) = 0 /\ Len(s.lanesLeft) = 0
    BY DEF Tool
<1>2. /\ Head(s.testsLeft) \in Tests /\ Tail(s.testsLeft) \in Seq(Tests)
      /\ \A i \in 1..Len(s.testsLeft) :
             \/ s.testsLeft[i] = Head(s.testsLeft)
             \/ \E j \in 1..Len(Tail(s.testsLeft)) :
                    Tail(s.testsLeft)[j] = s.testsLeft[i]
    BY <1>1, HeadOrTail
<1>3. /\ LanesOf \in Seq(Lanes) /\ LanesOf # <<>>
      /\ \A lane \in {"0", "1"} :
             \E i \in 1..Len(LanesOf) : LanesOf[i] \in {lane, "all"}
    <2>1. CASE caps.allLanes
        <3>1. LanesOf = <<"all">>
            BY <2>1 DEF LanesOf
        <3>2. Len(LanesOf) = 1 /\ LanesOf[1] = "all" /\ 1 \in 1..1
            BY <3>1
        <3>3. QED
            BY <3>1, <3>2 DEF Lanes
    <2>2. CASE ~caps.allLanes
        <3>1. LanesOf = <<"0", "1">>
            BY <2>2 DEF LanesOf
        <3>2. /\ Len(LanesOf) = 2 /\ LanesOf[1] = "0" /\ LanesOf[2] = "1"
              /\ 1 \in 1..2 /\ 2 \in 1..2
            BY <3>1
        <3>3. QED
            BY <3>1, <3>2 DEF Lanes
    <2>3. QED
        BY <2>1, <2>2
<1>4. /\ u \in Tool /\ u.test = Head(s.testsLeft)
      /\ u.testsLeft = Tail(s.testsLeft) /\ u.lanesLeft = LanesOf
      /\ u.marginsLeft = <<>>
    BY <1>2, <1>3 DEF Tool
<1>5. GoesOn(u, NextLane(u)) /\ NextTest(s) = NextLane(u)
    BY <1>3, <1>4, NextLaneGoesOn DEF NextTest
<1>6. ASSUME NEW test \in Tests, NEW lane \in {"0", "1"}, NEW high \in BOOLEAN,
             Ahead(s, test, lane, high)
      PROVE  Ahead(u, test, lane, high)
    <2>1. PICK i \in 1..Len(s.testsLeft) : s.testsLeft[i] = test
        BY <1>1, <1>6 DEF Ahead
    <2>2. CASE s.testsLeft[i] = Head(s.testsLeft)
        <3>1. \E k \in 1..Len(u.lanesLeft) : u.lanesLeft[k] \in {lane, "all"}
            BY <1>3, <1>4
        <3>2. QED
            BY <1>4, <2>1, <2>2, <3>1 DEF Ahead
    <2>3. CASE \E j \in 1..Len(Tail(s.testsLeft)) :
                   Tail(s.testsLeft)[j] = s.testsLeft[i]
        BY <1>4, <2>1, <2>3 DEF Ahead
    <2>4. QED
        BY <1>2, <2>2, <2>3
<1>7. QED
    BY <1>5, <1>6, GoesOnChains

LEMMA AdvanceGoesOn ==
    ASSUME NEW s \in Tool
    PROVE  \/ GoesOn(s, Advance(s))
           \/ /\ Advance(s) = [s EXCEPT !.pc = "done"]
              /\ ~\E test, lane, high : Ahead(s, test, lane, high)
<1>1. CASE s.marginsLeft # <<>>
    BY <1>1, NextMarginGoesOn DEF Advance
<1>2. CASE s.marginsLeft = <<>> /\ s.lanesLeft # <<>>
    BY <1>2, NextLaneGoesOn DEF Advance
<1>3. CASE s.marginsLeft = <<>> /\ s.lanesLeft = <<>> /\ s.testsLeft # <<>>
    BY <1>3, NextTestGoesOn DEF Advance
<1>4. CASE s.marginsLeft = <<>> /\ s.lanesLeft = <<>> /\ s.testsLeft = <<>>
    <2>1. Advance(s) = [s EXCEPT !.pc = "done"]
        BY <1>4 DEF Advance
    <2>2. Len(s.marginsLeft) = 0 /\ Len(s.lanesLeft) = 0 /\ Len(s.testsLeft) = 0
        BY <1>4
    <2>3. QED
        BY <2>1, <2>2 DEF Ahead
<1>5. QED
    BY <1>1, <1>2, <1>3, <1>4

\* Where caps and the parts of a program stay, so does what is said of them.
LEMMA SameCourse ==
    ASSUME NEW t, caps' = caps, tool'[t] = tool[t], measured'[t] = measured[t]
    PROVE  /\ Course(t) => Course(t)'
           /\ HasMargin(tool[t]) => HasMargin(tool[t])'
<1>1. \A test : IndependentMargins(test)' = IndependentMargins(test)
    BY DEF IndependentMargins, Independent
<1>2. HasMargin(tool[t]) => HasMargin(tool[t])'
    BY <1>1 DEF HasMargin
<1>3. \A test : Permitted(test)' <=> Permitted(test)
    BY DEF Permitted
<1>4. ASSUME NEW test, NEW lane, NEW high
      PROVE  /\ Covered(measured[t], test, lane, high)' <=>
                    Covered(measured[t], test, lane, high)
             /\ Ahead(tool[t], test, lane, high)' <=> Ahead(tool[t], test, lane, high)
             /\ Asked(tool[t], test, lane, high)' <=> Asked(tool[t], test, lane, high)
    <2>1. \A margin : OfSide(test, high, margin)' <=> OfSide(test, high, margin)
        BY <1>1 DEF OfSide
    <2>2. Covered(measured[t], test, lane, high)' <=>
              Covered(measured[t], test, lane, high)
        BY <2>1 DEF Covered
    <2>3. Ahead(tool[t], test, lane, high)' <=> Ahead(tool[t], test, lane, high)
        BY DEF Ahead
    <2>4. Asked(tool[t], test, lane, high)' <=> Asked(tool[t], test, lane, high)
        BY <2>1 DEF Asked
    <2>5. QED
        BY <2>2, <2>3, <2>4
<1>5. Course(t) => Course(t)'
    BY <1>3, <1>4 DEF Course
<1>6. QED
    BY <1>2, <1>5

\* The same with another place of the program that does not matter here.
LEMMA PlaceCourse ==
    ASSUME NEW t \in Tools, TypeOK, NEW pc \in PCs, caps' = caps,
           measured' = measured,
           tool' = [tool EXCEPT ![t].pc = pc],
           Course(t), HasMargin(tool[t]), tool[t].pc # "done",
           pc \in Places \/ (pc # "done" /\ tool[t].pc \notin Places)
    PROVE  Course(t)' /\ HasMargin(tool[t])'
<1>1. /\ tool'[t].pc = pc
      /\ tool'[t].test = tool[t].test /\ tool'[t].lanes = tool[t].lanes
      /\ tool'[t].margin = tool[t].margin
      /\ tool'[t].testsLeft = tool[t].testsLeft
      /\ tool'[t].lanesLeft = tool[t].lanesLeft
      /\ tool'[t].marginsLeft = tool[t].marginsLeft
    BY DEF TypeOK, Tool
<1>2. \A test : IndependentMargins(test)' = IndependentMargins(test)
    BY DEF IndependentMargins, Independent
<1>3. \A test : Permitted(test)' <=> Permitted(test)
    BY DEF Permitted
<1>4. HasMargin(tool[t])'
    BY <1>1, <1>2 DEF HasMargin
<1>5. ASSUME NEW test \in Tests, NEW lane \in {"0", "1"}, NEW high \in BOOLEAN,
             Permitted(test)
      PROVE  \/ Covered(measured[t], test, lane, high)'
             \/ tool'[t].pc # "done" /\ Ahead(tool[t], test, lane, high)'
             \/ tool'[t].pc \in Places /\ Asked(tool[t], test, lane, high)'
    <2>1. \A margin : OfSide(test, high, margin)' <=> OfSide(test, high, margin)
        BY <1>2 DEF OfSide
    <2>2. Covered(measured[t], test, lane, high) =>
              Covered(measured[t], test, lane, high)'
        BY <2>1 DEF Covered
    <2>3. Ahead(tool[t], test, lane, high) => Ahead(tool[t], test, lane, high)'
        BY <1>1 DEF Ahead
    <2>4. Asked(tool[t], test, lane, high) => Asked(tool[t], test, lane, high)'
        BY <1>1, <2>1 DEF Asked
    <2>5. pc # "done"
        BY DEF Places
    <2>6. QED
        BY <1>1, <1>5, <2>2, <2>3, <2>4, <2>5 DEF Course
<1>6. QED
    BY <1>3, <1>4, <1>5 DEF Course

\* Nobody else is affected by a step of t: whoever is at work when a parameter
\* or the result changes has been interfered with.
LEMMA OtherCourse ==
    ASSUME IInv, CourseInv, NEW t \in Tools, Step(t),
           NEW w \in Tools \ disturbed', w # t,
           tool'[w].pc \in Places \union {"results", "done"}
    PROVE  Course(w)' /\ Written(w)' /\ HasMargin(tool[w])'
<1>1. caps' = caps /\ tool'[w] = tool[w] /\ measured'[w] = measured[w]
    BY DEF IInv, TypeOK, Step, New, ShowCaps, WriteBer, WriteLanes, WriteMode,
           WriteTest, WriteMargin, Write, Run, ReadResults, Fail
<1>2. /\ disturbed \subseteq disturbed'
      /\ attrs' = attrs \/ tool[w].pc \in {"new", "done"}
    BY DEF Step, New, ShowCaps, WriteBer, WriteLanes, WriteMode, WriteTest,
           WriteMargin, Write, Run, ReadResults, Fail, Disturb
<1>3. Course(w) /\ Written(w) /\ HasMargin(tool[w])
    BY <1>1, <1>2 DEF CourseInv
<1>4. Written(w)'
    BY <1>1, <1>2, <1>3 DEF Written, Places
<1>5. QED
    BY <1>1, <1>3, <1>4, SameCourse

LEMMA NewCourse ==
    ASSUME IInv, NEW t \in Tools, New(t), tool'[t].pc # "unsupported"
    PROVE  Course(t)' /\ Written(t)' /\ HasMargin(tool[t])'
<1> DEFINE o == [pc |-> "new", mode |-> ModeOf, ber |-> caps.hardware,
                 lanes |-> attrs.lanes, test |-> attrs.test,
                 margin |-> IF TakesMargin THEN attrs.margin ELSE NoMargin,
                 testsLeft |-> TestsOf, lanesLeft |-> <<>>,
                 marginsLeft |-> <<>>]
<1>1. tool[t] \in Tool
    BY DEF IInv, TypeOK
<1>2. tool' = [tool EXCEPT ![t] = NextTest(o)]
    <2>1. tool' # [tool EXCEPT ![t].pc = "unsupported"]
        BY <1>1 DEF IInv, TypeOK, Tool
    <2>2. QED
        BY <2>1 DEF New
<1>3. /\ TestsOf \in Seq(Tests) /\ TestsOf # <<>>
      /\ \A test \in Tests : Permitted(test) =>
             \E i \in 1..Len(TestsOf) : TestsOf[i] = test
    <2>1. CASE caps.time /\ ~caps.destructive
        <3>1. TestsOf = <<"voltage", "time">>
            BY <2>1 DEF TestsOf
        <3>2. /\ Len(TestsOf) = 2 /\ TestsOf[1] = "voltage" /\ TestsOf[2] = "time"
              /\ 1 \in 1..2 /\ 2 \in 1..2
            BY <3>1
        <3>3. QED
            BY <3>1, <3>2 DEF Tests
    <2>2. CASE ~(caps.time /\ ~caps.destructive)
        <3>1. TestsOf = <<"voltage">>
            BY <2>2 DEF TestsOf
        <3>2. Len(TestsOf) = 1 /\ TestsOf[1] = "voltage" /\ 1 \in 1..1
            BY <3>1
        <3>3. QED
            BY <2>2, <3>1, <3>2 DEF Tests, Permitted
    <2>3. QED
        BY <2>1, <2>2
<1>4. o \in Tool
    <2>1. /\ ModeOf \in Modes /\ caps.hardware \in BOOLEAN
          /\ attrs.lanes \in Lanes /\ attrs.test \in Tests
          /\ attrs.margin \in Margins
        BY DEF IInv, TypeOK, RawCaps, Attrs, ModeOf, Modes
    <2>2. (IF TakesMargin THEN attrs.margin ELSE NoMargin)
              \in Margins \union {NoMargin}
        BY <2>1
    <2>3. QED
        BY <1>3, <2>1, <2>2 DEF Tool, PCs
<1>5. GoesOn(o, NextTest(o))
    BY <1>3, <1>4, NextTestGoesOn
<1>6. tool'[t] = NextTest(o)
    BY <1>2 DEF IInv, TypeOK
<1>7. caps' = caps
    BY DEF New
<1>8. Places \intersect {"done", "results"} = {} /\ {"ber", "lanes"} \subseteq Places
    BY DEF Places
<1>9. ASSUME NEW test \in Tests, NEW lane \in {"0", "1"}, NEW high \in BOOLEAN,
             Permitted(test)
      PROVE  \/ Ahead(NextTest(o), test, lane, high)
             \/ Asked(NextTest(o), test, lane, high)
    <2>1. Ahead(o, test, lane, high)
        BY <1>3, <1>9 DEF Ahead
    <2>2. QED
        BY <1>5, <2>1 DEF GoesOn
<1>10. QED
    <2>1. \A test : IndependentMargins(test)' = IndependentMargins(test)
        BY <1>7 DEF IndependentMargins, Independent
    <2>2. HasMargin(tool[t])'
        BY <1>5, <1>6, <2>1 DEF HasMargin, GoesOn
    <2>3. Written(t)'
        BY <1>5, <1>6 DEF Written, GoesOn
    <2>4. Course(t)'
        <3>1. ASSUME NEW test \in Tests, NEW lane \in {"0", "1"},
                     NEW high \in BOOLEAN, Permitted(test)'
              PROVE  /\ tool'[t].pc # "done" /\ tool'[t].pc \in Places
                     /\ \/ Ahead(tool[t], test, lane, high)'
                        \/ Asked(tool[t], test, lane, high)'
            <4>1. Permitted(test)
                BY <1>7, <3>1 DEF Permitted
            <4>2. Ahead(NextTest(o), test, lane, high) =>
                      Ahead(tool[t], test, lane, high)'
                BY <1>6 DEF Ahead
            <4>3. Asked(NextTest(o), test, lane, high) =>
                      Asked(tool[t], test, lane, high)'
                BY <1>6, <2>1 DEF Asked, OfSide
            <4>4. tool'[t].pc # "done" /\ tool'[t].pc \in Places
                BY <1>5, <1>6, <1>8 DEF GoesOn
            <4>5. QED
                BY <1>9, <4>1, <4>2, <4>3, <4>4
        <3>2. QED
            BY <3>1 DEF Course
    <2>5. QED
        BY <2>2, <2>3, <2>4

\* The steps of a program that only write.
LEMMA WriteCourse ==
    ASSUME IInv, NEW t \in Tools,
           Course(t), Written(t), HasMargin(tool[t]),
           NEW attr \in {"lanes", "mode", "test", "margin"},
           NEW next \in {"mode", "test", "margin", "run"},
           \/ attr = "lanes" /\ next = "mode"
           \/ attr = "mode" /\ next = "test"
           \/ attr = "test" /\ next = IF tool[t].margin = NoMargin THEN "run"
                                                                 ELSE "margin"
           \/ attr = "margin" /\ next = "run",
           Write(t, attr, next)
    PROVE  Course(t)' /\ Written(t)' /\ HasMargin(tool[t])'
<1>1. /\ tool[t] \in Tool /\ tool[t].pc = attr /\ attrs \in Attrs
      /\ attrs' = [attrs EXCEPT ![attr] = tool[t][attr]]
      /\ tool' = [tool EXCEPT ![t].pc = next]
      /\ UNCHANGED <<caps, measured>>
    BY DEF IInv, TypeOK, Write, At
<1>2. next \in PCs /\ next \in Places /\ tool[t].pc # "done"
    BY <1>1 DEF PCs, Places
<1>3. Course(t)' /\ HasMargin(tool[t])'
    BY <1>1, <1>2, PlaceCourse DEF IInv
<1>4. /\ tool'[t].pc = next
      /\ tool'[t].test = tool[t].test /\ tool'[t].lanes = tool[t].lanes
      /\ tool'[t].mode = tool[t].mode /\ tool'[t].margin = tool[t].margin
    BY <1>1 DEF IInv, TypeOK, Tool
<1>5. CASE attr = "lanes" /\ next = "mode"
    <2>1. attrs'.lanes = tool[t].lanes
        BY <1>1, <1>5 DEF Attrs
    <2>2. Written(t)'
        BY <1>4, <1>5, <2>1 DEF Written
    <2>3. QED
        BY <1>3, <2>2
<1>6. CASE attr = "mode" /\ next = "test"
    <2>1. attrs'.lanes = tool[t].lanes /\ attrs'.mode = tool[t].mode
        BY <1>1, <1>6 DEF Attrs, Written
    <2>2. Written(t)'
        BY <1>4, <1>6, <2>1 DEF Written
    <2>3. QED
        BY <1>3, <2>2
<1>7. CASE attr = "test" /\ next = IF tool[t].margin = NoMargin THEN "run"
                                                              ELSE "margin"
    <2>1. /\ attrs'.lanes = tool[t].lanes /\ attrs'.mode = tool[t].mode
          /\ attrs'.test = tool[t].test
        BY <1>1, <1>7 DEF Attrs, Written
    <2>2. Written(t)'
        BY <1>4, <1>7, <2>1 DEF Written
    <2>3. QED
        BY <1>3, <2>2
<1>8. CASE attr = "margin" /\ next = "run"
    <2>1. /\ attrs'.lanes = tool[t].lanes /\ attrs'.mode = tool[t].mode
          /\ attrs'.test = tool[t].test /\ attrs'.margin = tool[t].margin
        BY <1>1, <1>8 DEF Attrs, Written
    <2>2. Written(t)'
        BY <1>4, <1>8, <2>1 DEF Written
    <2>3. QED
        BY <1>3, <2>2
<1>9. QED
    BY <1>5, <1>6, <1>7, <1>8

LEMMA RunCourse ==
    ASSUME IInv, NEW t \in Tools, Run(t),
           Course(t), Written(t), HasMargin(tool[t])
    PROVE  Course(t)' /\ Written(t)' /\ HasMargin(tool[t])'
<1>1. /\ tool[t] \in Tool /\ tool[t].pc = "run" /\ Working(tool[t])
    BY DEF IInv, TypeOK, WorkInv, Run, At
<1>2. /\ tool' = [tool EXCEPT ![t].pc = "results"]
      /\ measured'[t] = measured[t] \union {attrs}
      /\ caps' = caps
    BY DEF Run, IInv, TypeOK
<1>3. /\ tool'[t].pc = "results"
      /\ tool'[t].test = tool[t].test /\ tool'[t].lanes = tool[t].lanes
      /\ tool'[t].margin = tool[t].margin
      /\ tool'[t].testsLeft = tool[t].testsLeft
      /\ tool'[t].lanesLeft = tool[t].lanesLeft
      /\ tool'[t].marginsLeft = tool[t].marginsLeft
    BY <1>1, <1>2 DEF IInv, TypeOK, Tool
<1>4. /\ attrs.lanes = tool[t].lanes /\ attrs.test = tool[t].test
      /\ attrs.mode = "hardware" <=> caps.hardware
      /\ tool[t].margin # NoMargin => attrs.margin = tool[t].margin
    BY <1>1 DEF Written, Working, ModeOf
<1>5. \A test : IndependentMargins(test)' = IndependentMargins(test)
    BY <1>2 DEF IndependentMargins, Independent
<1>6. HasMargin(tool[t])'
    BY <1>3, <1>5 DEF HasMargin
<1>7. Written(t)'
    BY <1>3 DEF Written
<1>8. ASSUME NEW test \in Tests, NEW lane \in {"0", "1"}, NEW high \in BOOLEAN,
             Permitted(test)'
      PROVE  \/ Covered(measured[t], test, lane, high)'
             \/ Ahead(tool[t], test, lane, high)'
    <2>1. \A margin : OfSide(test, high, margin)' <=> OfSide(test, high, margin)
        BY <1>5 DEF OfSide
    <2>2. Permitted(test)
        BY <1>2, <1>8 DEF Permitted
    <2>3. CASE Covered(measured[t], test, lane, high)
        BY <1>2, <2>1, <2>3 DEF Covered
    <2>4. CASE Ahead(tool[t], test, lane, high)
        BY <1>3, <2>4 DEF Ahead
    <2>5. CASE Asked(tool[t], test, lane, high)
        <3>1. OfSide(test, high, attrs.margin)
            BY <1>4, <2>5 DEF Asked, OfSide, HasMargin
        <3>2. attrs.test = test /\ attrs.lanes \in {lane, "all"}
            BY <1>4, <2>5 DEF Asked
        <3>3. QED
            BY <1>2, <1>4, <2>1, <3>1, <3>2 DEF Covered
    <2>6. QED
        BY <2>2, <2>3, <2>4, <2>5 DEF Course
<1>9. Course(t)'
    BY <1>3, <1>8 DEF Course
<1>10. QED
    BY <1>6, <1>7, <1>9

LEMMA ReadCourse ==
    ASSUME IInv, NEW t \in Tools, ReadResults(t),
           Course(t), Written(t), HasMargin(tool[t])
    PROVE  Course(t)' /\ Written(t)' /\ HasMargin(tool[t])'
<1> DEFINE u == Advance(tool[t])
<1>1. tool[t] \in Tool /\ tool[t].pc = "results"
    BY DEF IInv, TypeOK, ReadResults, At
<1>2. tool'[t] = u /\ UNCHANGED <<caps, measured>>
    BY DEF ReadResults, IInv, TestInv, TypeOK
<1>3. \A test : IndependentMargins(test)' = IndependentMargins(test)
    BY <1>2 DEF IndependentMargins, Independent
<1>4. ASSUME NEW test \in Tests, NEW lane \in {"0", "1"}, NEW high \in BOOLEAN
      PROVE  /\ Permitted(test)' <=> Permitted(test)
             /\ Covered(measured[t], test, lane, high)' <=>
                    Covered(measured[t], test, lane, high)
             /\ Ahead(tool[t], test, lane, high)' <=> Ahead(u, test, lane, high)
             /\ Asked(tool[t], test, lane, high)' <=> Asked(u, test, lane, high)
    <2>1. \A margin : OfSide(test, high, margin)' <=> OfSide(test, high, margin)
        BY <1>3 DEF OfSide
    <2>2. Permitted(test)' <=> Permitted(test)
        BY <1>2 DEF Permitted
    <2>3. Covered(measured[t], test, lane, high)' <=>
              Covered(measured[t], test, lane, high)
        BY <1>2, <2>1 DEF Covered
    <2>4. Ahead(tool[t], test, lane, high)' <=> Ahead(u, test, lane, high)
        BY <1>2 DEF Ahead
    <2>5. Asked(tool[t], test, lane, high)' <=> Asked(u, test, lane, high)
        BY <1>2, <2>1 DEF Asked
    <2>6. QED
        BY <2>2, <2>3, <2>4, <2>5
<1>5. \A test \in Tests, lane \in {"0", "1"}, high \in BOOLEAN :
          Permitted(test) => \/ Covered(measured[t], test, lane, high)
                             \/ Ahead(tool[t], test, lane, high)
    BY <1>1 DEF Course, Places
<1>6. CASE GoesOn(tool[t], u)
    <2>1. HasMargin(tool[t])'
        BY <1>2, <1>3, <1>6 DEF HasMargin, GoesOn
    <2>2. Written(t)'
        BY <1>2, <1>6 DEF Written, GoesOn
    <2>3. tool'[t].pc # "done" /\ tool'[t].pc \in Places
        BY <1>2, <1>6 DEF GoesOn, Places
    <2>4. Course(t)'
        BY <1>4, <1>5, <1>6, <2>3 DEF Course, GoesOn
    <2>5. QED
        BY <2>1, <2>2, <2>4
<1>7. CASE /\ u = [tool[t] EXCEPT !.pc = "done"]
           /\ ~\E test, lane, high : Ahead(tool[t], test, lane, high)
    <2>1. /\ tool'[t].pc = "done" /\ tool'[t].test = tool[t].test
          /\ tool'[t].margin = tool[t].margin
        BY <1>1, <1>2, <1>7 DEF Tool
    <2>2. HasMargin(tool[t])' /\ Written(t)'
        BY <1>3, <2>1 DEF HasMargin, Written
    <2>3. Course(t)'
        BY <1>4, <1>5, <1>7 DEF Course
    <2>4. QED
        BY <2>2, <2>3
<1>8. QED
    BY <1>1, <1>6, <1>7, AdvanceGoesOn

\* Each step of a program keeps it on its course.
LEMMA OwnCourse ==
    ASSUME IInv, CourseInv, NEW t \in Tools \ disturbed, Step(t),
           tool'[t].pc \in Places \union {"results", "done"}
    PROVE  Course(t)' /\ Written(t)' /\ HasMargin(tool[t])'
<1>1. {"new", "failed", "unsupported", "panic"} \intersect
          (Places \union {"results", "done"}) = {}
      /\ {"ber", "lanes", "mode", "test", "margin", "run"} = Places
    BY DEF Places
<1>2. tool[t].pc \in Places \union {"results", "done"} =>
          Course(t) /\ Written(t) /\ HasMargin(tool[t])
    BY DEF CourseInv
<1>3. tool \in [Tools -> Tool]
    BY DEF IInv, TypeOK
<1>4. CASE New(t)
    BY <1>1, <1>4, NewCourse
<1>5. CASE ShowCaps(t) \/ Fail(t)
    <2>1. tool'[t].pc \in {"failed", "unsupported"}
        BY <1>3, <1>5 DEF ShowCaps, Fail, Tool
    <2>2. QED
        BY <1>1, <2>1
<1>6. CASE WriteBer(t)
    <2>1. tool[t].pc = "ber" /\ UNCHANGED <<caps, measured>>
        BY <1>6 DEF WriteBer, At
    <2>2. tool' = [tool EXCEPT ![t].pc = "lanes"]
        <3>1. CASE tool[t].ber
            BY <1>6, <3>1 DEF WriteBer
        <3>2. CASE ~tool[t].ber
            <4>1. tool'[t].pc = "panic"
                BY <1>3, <1>6, <3>2 DEF WriteBer, Tool
            <4>2. QED
                BY <1>1, <4>1
        <3>3. QED
            BY <3>1, <3>2
    <2>3. Course(t)' /\ HasMargin(tool[t])'
        BY <1>1, <1>2, <2>1, <2>2, PlaceCourse DEF IInv, PCs
    <2>4. tool'[t].pc = "lanes"
        BY <1>3, <2>2 DEF Tool
    <2>5. Written(t)'
        BY <2>4 DEF Written
    <2>6. QED
        BY <2>3, <2>5
<1>7. CASE WriteLanes(t)
    <2>1. tool[t].pc = "lanes" /\ Write(t, "lanes", "mode")
        BY <1>7 DEF WriteLanes, Write, At
    <2>2. QED
        BY <1>1, <1>2, <2>1, WriteCourse
<1>8. CASE WriteMode(t)
    <2>1. tool[t].pc = "mode" /\ Write(t, "mode", "test")
        BY <1>8 DEF WriteMode, Write, At
    <2>2. QED
        BY <1>1, <1>2, <2>1, WriteCourse
<1>9. CASE WriteTest(t)
    <2> DEFINE next == IF tool[t].margin = NoMargin THEN "run" ELSE "margin"
    <2>1. tool[t].pc = "test" /\ Write(t, "test", next) /\ next \in {"run", "margin"}
        BY <1>9 DEF WriteTest, Write, At
    <2>2. Course(t) /\ Written(t) /\ HasMargin(tool[t])
        BY <1>1, <1>2, <2>1
    <2>3. QED
        BY <2>1, <2>2, WriteCourse
<1>10. CASE WriteMargin(t)
    <2>1. tool[t].pc = "margin" /\ Write(t, "margin", "run")
        BY <1>10 DEF WriteMargin, Write, At
    <2>2. QED
        BY <1>1, <1>2, <2>1, WriteCourse
<1>11. CASE Run(t)
    <2>1. tool[t].pc = "run"
        BY <1>11 DEF Run, At
    <2>2. QED
        BY <1>1, <1>2, <1>11, <2>1, RunCourse
<1>12. CASE ReadResults(t)
    <2>1. tool[t].pc = "results"
        BY <1>12 DEF ReadResults, At
    <2>2. QED
        BY <1>2, <1>12, <2>1, ReadCourse
<1>13. QED
    BY <1>4, <1>5, <1>6, <1>7, <1>8, <1>9, <1>10, <1>11, <1>12 DEF Step

LEMMA CourseStep == IInv /\ CourseInv /\ [Next]_vars => CourseInv'
<1> SUFFICES ASSUME IInv, CourseInv, [Next]_vars PROVE CourseInv'
    OBVIOUS
<1>1. CASE UNCHANGED vars
    <2> SUFFICES ASSUME NEW w \in Tools \ disturbed,
                        tool[w].pc \in Places \union {"results", "done"}
                 PROVE  Course(w)' /\ Written(w)' /\ HasMargin(tool[w])'
        BY <1>1 DEF vars, CourseInv
    <2>1. Course(w) /\ Written(w) /\ HasMargin(tool[w])
        BY DEF CourseInv
    <2>2. caps' = caps /\ tool'[w] = tool[w] /\ measured'[w] = measured[w]
          /\ attrs' = attrs
        BY <1>1 DEF vars
    <2>3. Written(w)'
        BY <2>1, <2>2 DEF Written
    <2>4. QED
        BY <2>1, <2>2, <2>3, SameCourse
<1>2. ASSUME NEW t \in Tools, Step(t) PROVE CourseInv'
    <2> SUFFICES ASSUME NEW w \in Tools \ disturbed',
                        tool'[w].pc \in Places \union {"results", "done"}
                 PROVE  Course(w)' /\ Written(w)' /\ HasMargin(tool[w])'
        BY DEF CourseInv
    <2>1. CASE w = t
        <3>1. disturbed \subseteq disturbed'
            BY <1>2 DEF Step, New, ShowCaps, WriteBer, WriteLanes, WriteMode,
                WriteTest, WriteMargin, Write, Run, ReadResults, Fail, Disturb
        <3>2. QED
            BY <1>2, <2>1, <3>1, OwnCourse
    <2>2. CASE w # t
        BY <1>2, <2>2, OtherCourse
    <2>3. QED
        BY <2>1, <2>2
<1>3. QED
    BY <1>1, <1>2 DEF Next

LEMMA CourseInit == Init => CourseInv
<1>1. Init => \A t \in Tools : tool[t].pc = "new"
    BY DEF Init
<1>2. QED
    BY <1>1 DEF CourseInv, Places

-----------------------------------------------------------------------------
(***************************************************************************)
(* The theorems.                                                           *)
(***************************************************************************)
\* The variables have their types: the parameters tbmargin writes are ones the
\* kernel has and the results it shows are of a lane and a side.
THEOREM TypeCorrect == Spec => []TypeOK
<1>1. IInv => TypeOK
    BY DEF IInv
<1>2. QED
    BY <1>1, InvAlways, PTL

\* No destructive time test is run, whatever was in the kernel and however many
\* programs share the port: run_margining() sets the test before each run.
THEOREM NeverRunDestructive == Spec => []NeverDestructive
<1>1. IInv => NeverDestructive
    BY DEF IInv
<1>2. QED
    BY <1>1, InvAlways, PTL

\* What run() and margins() unwrap is there: the BER level contour when the mode
\* is hardware, the capabilities for time when the result is of a time test.
THEOREM NeverPanics == Spec => []NoPanic
<1>1. IInv => NoPanic
    BY DEF IInv, WorkInv, Working, NoPanic, At
<1>2. QED
    BY <1>1, InvAlways, PTL

\* Results::new() takes lanes, test and side from what the run returned: the
\* lines that are shown are true also when the programs disturb each other.
THEOREM ShownIsTrue == Spec => []ShownIsMeasured
<1>1. IInv => ShownIsMeasured
    BY DEF IInv
<1>2. QED
    BY <1>1, InvAlways, PTL

\* run_margining() leaves nothing out: a program that nobody has interfered with
\* has, when it is done, run each test it may on each lane and for each of the
\* two sides, where a run returns one of them only. What has not been measured
\* is asked for by the object or still ahead of the loops, and what the object
\* asks for is what the kernel has been told when the run starts.
THEOREM AllMeasured == Spec => []EveryMarginMeasured
<1>1. Spec => []CourseInv
    BY InvAlways, CourseInit, CourseStep, PTL DEF Spec
<1>2. CourseInv => EveryMarginMeasured
    <2> SUFFICES ASSUME CourseInv, NEW t \in Tools \ disturbed, At(t, "done"),
                        NEW test \in Tests, NEW lane \in {"0", "1"},
                        NEW high \in BOOLEAN,
                        test = "voltage" \/ (caps.time /\ ~caps.destructive)
                 PROVE  Covered(measured[t], test, lane, high)
        BY DEF EveryMarginMeasured, Covered, OfSide
    <2>1. tool[t].pc = "done" /\ "done" \notin Places
        BY DEF At, Places
    <2>2. Course(t)
        BY <2>1 DEF CourseInv
    <2>3. Permitted(test)
        BY DEF Permitted
    <2>4. QED
        BY <2>1, <2>2, <2>3 DEF Course
<1>3. QED
    BY <1>1, <1>2, PTL
=============================================================================
