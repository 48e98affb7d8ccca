------------------------ MODULE Authorization_proofs ------------------------
(***************************************************************************)
(* Proofs about Authorization and AuthorizationKeys, for a chain of any    *)
(* length, any number of tools and any number of keys.                     *)
(*                                                                         *)
(* A call of authorize_device() that nobody disturbs finds what the kernel *)
(* asks for because of what it has seen on its way: going up, everything   *)
(* between the router it is at and the one it was called for is not        *)
(* authorized; going down, the parent of the one it is at is.              *)
(***************************************************************************)
EXTENDS AuthorizationKeys, TLAPS

\* When there is nothing to do the router has been as asked for.
SettledIsDone(t) == pc[t] = "check" /\ Settled(t) => t \in done

\* What an undisturbed call knows on its way up.
WayUp(t) ==
    /\ snapshot[t] = auth[at[t]]
    /\ target[t] <= connected
    /\ value[t] = 0 => at[t] = target[t]
    /\ \A s \in Routers : at[t] < s /\ s <= target[t] => ~auth[s]

\* What it knows when it is about to write.
WayDown(t) ==
    /\ target[t] <= connected
    /\ value[t] = 0 => at[t] = target[t] /\ auth[at[t]]
    /\ value[t] = 1 =>
           /\ ParentAuthorized(at[t])
           /\ \A s \in Routers : at[t] <= s /\ s <= target[t] => ~auth[s]

Undisturbed(t) ==
    t \in undisturbed /\ value[t] \in {0, 1} =>
        /\ pc[t] = "check" => WayUp(t)
        /\ pc[t] = "write" => WayDown(t)
        /\ pc[t] = "idle" => result[t] # "error"

Inv ==
    /\ TypeOK /\ OkMeansDone
    /\ \A t \in Tools : SettledIsDone(t) /\ Undisturbed(t)

LEMMA InvInit == Init => Inv
<1>. SUFFICES ASSUME Init PROVE Inv
    OBVIOUS
<1>1. Depth \in Nat /\ 1 \in Routers
    BY ChainAssumption DEF Routers
<1>. QED BY <1>1 DEF Init, Inv, TypeOK, OkMeansDone, SettledIsDone, Undisturbed, Routers

-----------------------------------------------------------------------------
(***************************************************************************)
(* The type invariant.                                                     *)
(***************************************************************************)
LEMMA TypeStep == TypeOK /\ [Next]_vars => TypeOK'
<1>. SUFFICES ASSUME TypeOK, [Next]_vars PROVE TypeOK'
    OBVIOUS
<1>. USE ChainAssumption DEF TypeOK, Routers
<1>1. CASE Plug
    BY <1>1 DEF Plug, callVars
<1>2. ASSUME NEW r \in Routers, Unplug(r) PROVE TypeOK'
    BY <1>2 DEF Unplug, callVars, Observe
<1>3. ASSUME NEW t \in Tools, CheckSettled(t) PROVE TypeOK'
    BY <1>3 DEF CheckSettled, Return, callVars
<1>4. ASSUME NEW t \in Tools, Climb(t) PROVE TypeOK'
    BY <1>4 DEF Climb, ParentUnauthorized, ParentAuthorized, callVars
<1>5. ASSUME NEW t \in Tools, CheckDone(t) PROVE TypeOK'
    BY <1>5 DEF CheckDone, Goto, callVars
<1>6. ASSUME NEW t \in Tools, Write(t) PROVE TypeOK'
    <2>1. auth' \in [Routers -> BOOLEAN]
        BY <1>6 DEF Write, Authorized
    <2>2. done' \subseteq Tools /\ undisturbed' \subseteq Tools
        BY <1>6 DEF Write, Observe
    <2>3. /\ pc' \in [Tools -> {"idle", "check", "write"}]
          /\ result' \in [Tools -> {"none", "ok", "error"}]
        BY <1>6 DEF Write, Descend, Return
    <2>4. at' \in [Tools -> Routers] /\ \A u \in Tools : at'[u] <= target[u]
        <3>1. CASE at[t] = target[t]
            BY <1>6, <3>1 DEF Write, Descend
        <3>2. CASE at[t] # target[t]
            <4>1. at' = [at EXCEPT ![t] = @ + 1]
                BY <1>6, <3>2 DEF Write, Descend
            <4>2. at[t] + 1 \in Routers /\ at[t] + 1 <= target[t]
                BY <3>2
            <4>. QED BY <4>1, <4>2
        <3>. QED BY <3>1, <3>2
    <2>. QED BY <1>6, <2>1, <2>2, <2>3, <2>4 DEF Write, callVars
<1>7. ASSUME NEW t \in Tools, WriteRefused(t) \/ Fails(t) PROVE TypeOK'
    BY <1>7 DEF WriteRefused, Fails, Return, callVars
<1>8. ASSUME NEW t \in Tools, NEW v \in Values, NEW r \in Routers, Call(t, v, r)
      PROVE TypeOK'
    BY <1>8 DEF Call, Goto
<1>9. CASE UNCHANGED vars
    BY <1>9 DEF vars, callVars
<1>. QED BY <1>1, <1>2, <1>3, <1>4, <1>5, <1>6, <1>7, <1>8, <1>9 DEF Next, Step

-----------------------------------------------------------------------------
(***************************************************************************)
(* Success is not reported for nothing.                                    *)
(***************************************************************************)
Done == OkMeansDone /\ \A t \in Tools : SettledIsDone(t)

LEMMA DoneStep == TypeOK /\ Done /\ [Next]_vars => Done'
<1>. SUFFICES ASSUME TypeOK, Done, [Next]_vars PROVE Done'
    OBVIOUS
<1>. USE DEF Done, OkMeansDone, SettledIsDone, Settled
<1>1. CASE Plug
    BY <1>1 DEF Plug, callVars
<1>2. ASSUME NEW r \in Routers, Unplug(r) PROVE Done'
    BY <1>2 DEF Unplug, callVars, Observe
<1>3. ASSUME NEW t \in Tools, CheckSettled(t) PROVE Done'
    BY <1>3 DEF CheckSettled, Return, callVars, TypeOK
<1>4. ASSUME NEW t \in Tools, Climb(t) PROVE Done'
    BY <1>4 DEF Climb, callVars, TypeOK
<1>5. ASSUME NEW t \in Tools, CheckDone(t) PROVE Done'
    BY <1>5 DEF CheckDone, Goto, callVars, TypeOK
<1>6. ASSUME NEW t \in Tools, Write(t) PROVE Done'
    <2>1. done \subseteq done'
        BY <1>6 DEF Write, Observe
    <2>2. at[t] = target[t] => t \in done'
        <3>. SUFFICES ASSUME at[t] = target[t] PROVE AsAsked(t)'
            BY <1>6 DEF Write, Observe
        <3>1. value[t] \in {0, 1, 2} /\ at[t] \in Routers /\ Routers \subseteq Int
            BY DEF TypeOK, Routers
        <3>2. auth'[at[t]] <=> value[t] # 0
            <4>1. auth' = Authorized(at[t], value[t])
                BY <1>6 DEF Write
            <4>2. CASE value[t] = 0
                <5>1. auth' = [s \in Routers |-> auth[s] /\ s < at[t]]
                    BY <4>1, <4>2 DEF Authorized
                <5>2. ~(at[t] < at[t])
                    <6>. at[t] \in Int
                        BY <3>1
                    <6>. QED OBVIOUS
                <5>3. ~auth'[at[t]]
                    BY <3>1, <5>1, <5>2, Zenon
                <5>. QED BY <4>2, <5>3
            <4>3. CASE value[t] # 0
                BY <3>1, <4>1, <4>3 DEF Authorized, TypeOK
            <4>. QED BY <4>2, <4>3
        <3>3. auth'[at[t]] \in BOOLEAN
            BY <1>6, <3>1, TypeStep DEF TypeOK
        <3>. QED BY <1>6, <3>2, <3>3 DEF Write, AsAsked, callVars
    <2>3. CASE at[t] = target[t]
        BY <1>6, <2>1, <2>2, <2>3 DEF Write, Descend, Return, callVars, TypeOK
    <2>4. CASE at[t] # target[t]
        BY <1>6, <2>1, <2>4 DEF Write, Descend, callVars, TypeOK
    <2>. QED BY <2>3, <2>4
<1>7. ASSUME NEW t \in Tools, WriteRefused(t) \/ Fails(t) PROVE Done'
    BY <1>7 DEF WriteRefused, Fails, Return, callVars, TypeOK
<1>8. ASSUME NEW t \in Tools, NEW v \in Values, NEW r \in Routers, Call(t, v, r)
      PROVE Done'
    <2>1. \A u \in Tools \ {t} :
              /\ pc'[u] = pc[u] /\ result'[u] = result[u] /\ (u \in done' <=> u \in done)
              /\ value'[u] = value[u] /\ snapshot'[u] = snapshot[u]
        BY <1>8 DEF Call, Goto, TypeOK
    <2>2. pc'[t] = "check" /\ value'[t] = v /\ snapshot'[t] = auth[r]
        BY <1>8 DEF Call, Goto, TypeOK
    <2>3. auth[r] = (v # 0) => t \in done'
        BY <1>8 DEF Call
    <2>. QED BY <2>1, <2>2, <2>3
<1>9. CASE UNCHANGED vars
    BY <1>9 DEF vars, callVars
<1>. QED BY <1>1, <1>2, <1>3, <1>4, <1>5, <1>6, <1>7, <1>8, <1>9 DEF Next, Step

-----------------------------------------------------------------------------
(***************************************************************************)
(* What an undisturbed call finds.                                         *)
(***************************************************************************)
\* A step of t leaves an undisturbed call of another tool as it is, if it leaves
\* the routers alone.
LEMMA OthersUndisturbed ==
    ASSUME NEW u \in Tools, Undisturbed(u),
           UNCHANGED <<connected, auth>>,
           pc'[u] = pc[u], value'[u] = value[u], target'[u] = target[u],
           at'[u] = at[u], snapshot'[u] = snapshot[u], result'[u] = result[u],
           u \in undisturbed' => u \in undisturbed
    PROVE  Undisturbed(u)'
BY DEF Undisturbed, WayUp, WayDown, ParentAuthorized

LEMMA UndisturbedStep ==
    TypeOK /\ [Next]_vars /\ (\A t \in Tools : Undisturbed(t))
        => \A t \in Tools : Undisturbed(t)'
<1>. SUFFICES ASSUME TypeOK, [Next]_vars, \A u \in Tools : Undisturbed(u),
                     NEW u \in Tools
              PROVE Undisturbed(u)'
    OBVIOUS
<1>. USE ChainAssumption DEF TypeOK
<1>0. Undisturbed(u)
    OBVIOUS
<1>1. CASE Plug \/ \E r \in Routers : Unplug(r)
    BY <1>1 DEF Plug, Unplug, Undisturbed
<1>2. ASSUME NEW t \in Tools, CheckSettled(t) PROVE Undisturbed(u)'
    <2>1. CASE t = u
        BY <1>2, <2>1 DEF CheckSettled, Return, callVars, Undisturbed
    <2>2. CASE t # u
        BY <1>0, <1>2, <2>2, OthersUndisturbed DEF CheckSettled, Return, callVars
    <2>. QED BY <2>1, <2>2
<1>3. ASSUME NEW t \in Tools, Climb(t) PROVE Undisturbed(u)'
    <2>1. CASE t = u
        <3>. SUFFICES ASSUME u \in undisturbed PROVE WayUp(u)'
            BY <1>3, <2>1 DEF Climb, callVars, Undisturbed
        <3>1. value[u] = 1 /\ pc[u] = "check" /\ ~Settled(u) /\ ParentUnauthorized(at[u])
            BY <1>3, <2>1 DEF Climb
        <3>2. WayUp(u)
            BY <3>1 DEF Undisturbed
        <3>3. ~auth[at[u]]
            BY <3>1, <3>2 DEF Settled, WayUp
        <3>4. at[u] # 1 /\ ~auth[at[u] - 1]
            BY <3>1 DEF ParentUnauthorized, ParentAuthorized
        <3>5. at'[u] = at[u] - 1 /\ snapshot'[u] = FALSE
            BY <1>3, <2>1 DEF Climb
        <3>6. \A s \in Routers : at'[u] < s /\ s <= target[u] => ~auth[s]
            BY <3>2, <3>3, <3>5 DEF WayUp, Routers
        <3>7. snapshot'[u] = auth[at'[u]]
            <4>1. at[u] - 1 \in Routers
                BY <3>4 DEF Routers
            <4>. QED BY <3>4, <3>5, <4>1
        <3>8. /\ UNCHANGED <<connected, auth, target>>
              /\ value'[u] = 1
            BY <1>3, <3>1 DEF Climb, callVars
        <3>9. target'[u] <= connected'
            BY <3>2, <3>8 DEF WayUp
        <3>. QED BY <3>6, <3>7, <3>8, <3>9 DEF WayUp
    <2>2. CASE t # u
        BY <1>0, <1>3, <2>2, OthersUndisturbed DEF Climb, callVars
    <2>. QED BY <2>1, <2>2
<1>4. ASSUME NEW t \in Tools, CheckDone(t) PROVE Undisturbed(u)'
    <2>1. CASE t = u
        <3>. SUFFICES ASSUME u \in undisturbed, value[u] \in {0, 1} PROVE WayDown(u)'
            BY <1>4, <2>1 DEF CheckDone, Goto, callVars, Undisturbed
        <3>1. pc[u] = "check" /\ ~Settled(u) /\ (value[u] = 1 => ~ParentUnauthorized(at[u]))
            BY <1>4, <2>1 DEF CheckDone
        <3>2. WayUp(u)
            BY <3>1 DEF Undisturbed
        <3>3. snapshot[u] = (value[u] = 0)
            BY <3>1 DEF Settled
        <3>4. auth[at[u]] = (value[u] = 0)
            BY <3>2, <3>3 DEF WayUp
        <3>5. at[u] <= connected
            BY <3>2 DEF WayUp, Routers
        <3>6. WayDown(u)
            BY <3>1, <3>2, <3>4, <3>5 DEF WayUp, WayDown, ParentUnauthorized, Routers
        <3>. QED BY <1>4, <3>6 DEF CheckDone, callVars, WayDown, ParentAuthorized
    <2>2. CASE t # u
        BY <1>0, <1>4, <2>2, OthersUndisturbed DEF CheckDone, Goto, callVars
    <2>. QED BY <2>1, <2>2
<1>5. ASSUME NEW t \in Tools, Write(t) PROVE Undisturbed(u)'
    <2>. SUFFICES ASSUME u \in undisturbed', value[u] \in {0, 1}
                  PROVE /\ pc'[u] = "check" => WayUp(u)'
                        /\ pc'[u] = "write" => WayDown(u)'
                        /\ pc'[u] = "idle" => result'[u] # "error"
        BY <1>5 DEF Write, callVars, Undisturbed
    <2>1. t = u /\ u \in undisturbed
        BY <1>5 DEF Write
    <2>2. WayDown(u) /\ pc[u] = "write"
        BY <1>5, <2>1 DEF Write, Undisturbed
    <2>3. CASE at[u] = target[u]
        BY <1>5, <2>1, <2>3 DEF Write, Descend, Return
    <2>4. CASE at[u] # target[u]
        <3>1. pc'[u] = "write" /\ at'[u] = at[u] + 1 /\ value[u] = 1
            BY <1>5, <2>1, <2>2, <2>4 DEF Write, Descend, WayDown
        <3>2. \A s \in Routers : auth'[s] <=> auth[s] \/ s = at[u]
            <4>1. auth' = [auth EXCEPT ![at[u]] = TRUE]
                BY <1>5, <2>1, <3>1 DEF Write, Authorized
            <4>. QED BY <4>1
        <3>3. at[u] \in Routers /\ at[u] \in Int
            BY DEF Routers
        <3>4. ParentAuthorized(at[u])'
            <4>1. auth'[at[u]]
                BY <3>2, <3>3, Zenon
            <4>2. at'[u] - 1 = at[u]
                <5>1. \A i \in Int : (i + 1) - 1 = i
                    OBVIOUS
                <5>. QED BY <3>1, <3>3, <5>1, Zenon
            <4>. QED BY <4>1, <4>2, Zenon DEF ParentAuthorized
        <3>5. \A s \in Routers : at'[u] <= s /\ s <= target[u] => ~auth'[s]
            <4>. TAKE s \in Routers
            <4>. HAVE at'[u] <= s /\ s <= target[u]
            <4>1. at[u] <= s /\ s # at[u]
                <5>1. \A i, j \in Int : i + 1 <= j => i <= j /\ j # i
                    OBVIOUS
                <5>2. s \in Int
                    BY DEF Routers
                <5>. QED BY <3>1, <3>3, <5>1, <5>2, Zenon
            <4>2. ~auth[s]
                BY <2>2, <3>1, <4>1 DEF WayDown
            <4>. QED BY <3>2, <4>1, <4>2
        <3>6. WayDown(u)'
            <4>1. UNCHANGED <<connected, target, value>>
                BY <1>5 DEF Write, callVars
            <4>2. target'[u] <= connected' /\ value'[u] = 1
                BY <2>2, <3>1, <4>1 DEF WayDown
            <4>. QED BY <3>4, <3>5, <4>1, <4>2 DEF WayDown
        <3>. QED BY <3>1, <3>6
    <2>. QED BY <2>3, <2>4
<1>6. ASSUME NEW t \in Tools, WriteRefused(t) PROVE Undisturbed(u)'
    <2>1. CASE t = u
        <3>. SUFFICES ASSUME u \in undisturbed, value[u] \in {0, 1} PROVE FALSE
            BY <1>6, <2>1 DEF WriteRefused, callVars, Undisturbed
        <3>1. WayDown(u)
            BY <1>6, <2>1 DEF WriteRefused, Undisturbed
        <3>2. at[u] <= connected /\ at[u] <= target[u]
            BY <3>1 DEF WayDown, Routers
        <3>3. auth[at[u]] = (value[u] = 0)
            BY <3>1, <3>2 DEF WayDown, Routers
        <3>4. Accepts(at[u], value[u])
            BY <3>1, <3>2, <3>3 DEF WayDown, Accepts
        <3>. QED BY <1>6, <2>1, <3>4 DEF WriteRefused
    <2>2. CASE t # u
        BY <1>0, <1>6, <2>2, OthersUndisturbed DEF WriteRefused, Return, callVars
    <2>. QED BY <2>1, <2>2
<1>7. ASSUME NEW t \in Tools, Fails(t) PROVE Undisturbed(u)'
    <2>1. CASE t = u
        BY <1>7, <2>1 DEF Fails, Undisturbed
    <2>2. CASE t # u
        BY <1>0, <1>7, <2>2, OthersUndisturbed DEF Fails, Return, callVars
    <2>. QED BY <2>1, <2>2
<1>8. ASSUME NEW t \in Tools, NEW v \in Values, NEW r \in Routers, Call(t, v, r)
      PROVE Undisturbed(u)'
    <2>1. CASE t = u
        <3>1. /\ pc'[u] = "check" /\ value'[u] = v /\ target'[u] = r /\ at'[u] = r
              /\ snapshot'[u] = auth[r] /\ r <= connected
              /\ UNCHANGED <<connected, auth>>
            BY <1>8, <2>1 DEF Call, Goto
        <3>2. WayUp(u)'
            BY <3>1 DEF WayUp, Routers
        <3>. QED BY <3>1, <3>2 DEF Undisturbed
    <2>2. CASE t # u
        BY <1>0, <1>8, <2>2, OthersUndisturbed DEF Call, Goto
    <2>. QED BY <2>1, <2>2
<1>9. CASE UNCHANGED vars
    BY <1>0, <1>9, OthersUndisturbed DEF vars, callVars
<1>. QED BY <1>1, <1>2, <1>3, <1>4, <1>5, <1>6, <1>7, <1>8, <1>9 DEF Next, Step

-----------------------------------------------------------------------------
LEMMA Invariant == Spec => []Inv
<1>1. Inv /\ [Next]_vars => Inv'
    BY TypeStep, DoneStep, UndisturbedStep DEF Inv, Done
<1>. QED BY InvInit, <1>1, PTL DEF Spec

\* Every variable keeps its type; in particular authorize_device() never leaves
\* the part of the chain between the host and the router it was called for.
THEOREM TypeCorrect == Spec => []TypeOK
<1>1. Inv => TypeOK
    BY DEF Inv
<1>. QED BY <1>1, Invariant, PTL

\* When authorize_device() returns Ok the router has been as asked for during
\* the call, whatever other tools and the bus did in the meantime.
THEOREM SuccessIsTrue == Spec => []OkMeansDone
<1>1. Inv => OkMeansDone
    BY DEF Inv
<1>. QED BY <1>1, Invariant, PTL

\* authorize_device() with 0 or 1 does not fail when nobody disturbs it: it
\* authorizes the parents as far up as the kernel requires, and in that order.
THEOREM UndisturbedSucceed == Spec => []UndisturbedSucceeds
<1>1. Inv => UndisturbedSucceeds
    BY DEF Inv, TypeOK, Undisturbed, UndisturbedSucceeds
<1>. QED BY <1>1, Invariant, PTL

-----------------------------------------------------------------------------
(***************************************************************************)
(* The keys. What tbauth does with them leaves authorize_device() alone.   *)
(***************************************************************************)
LEMMA KeyStepRefines == [KeyNext]_<<vars, keyVars>> => [Next]_vars
<1>. SUFFICES ASSUME [KeyNext]_<<vars, keyVars>> PROVE [Next]_vars
    OBVIOUS
<1>1. CASE KeyPlug
    BY <1>1 DEF KeyPlug, Next
<1>2. ASSUME NEW r \in Routers, KeyUnplug(r) PROVE Next
    BY <1>2 DEF KeyUnplug, Next
<1>3. ASSUME NEW t \in Tools, KeyStep(t) PROVE UNCHANGED vars
    BY <1>3 DEF KeyStep, ReadKey, SetKey, OpenFile, FillFile
<1>4. ASSUME NEW t \in Tools, AuthorizeStep(t) PROVE Next
    <2>1. Step(t)
        BY <1>4 DEF AuthorizeStep, Walk, KeyWrite, KeyRefused, KeyFails, Step
    <2>. QED BY <2>1 DEF Next
<1>5. ASSUME NEW t \in Tools, NEW r \in Routers,
             (\E v \in Values : CallPlain(t, v, r)) \/ CallAdd(t, r) \/ CallChallenge(t, r)
      PROVE Next
    <2>1. \E v \in Values : Call(t, v, r)
        BY <1>5, KeysAssumption DEF CallPlain, CallAdd, CallChallenge
    <2>. QED BY <2>1 DEF Next
<1>6. CASE UNCHANGED <<vars, keyVars>>
    BY <1>6
<1>. QED BY <1>1, <1>2, <1>3, <1>4, <1>5, <1>6 DEF KeyNext

\* tbauth with its keys implements Authorization: what is proved of
\* authorize_device() holds with -A and -C as well.
THEOREM KeysRefine == KeySpec => Spec
<1>1. KeyInit => Init
    BY DEF KeyInit
<1>. QED BY <1>1, KeyStepRefines, PTL DEF KeySpec, Spec

-----------------------------------------------------------------------------
(***************************************************************************)
(* What a program nobody interferes with knows of the key and the file.    *)
(***************************************************************************)
KeyTypes ==
    /\ pending \in [Routers -> Nat] /\ stored \in [Routers -> Nat]
    /\ file \in [Routers -> Nat] /\ generated \in Nat
    /\ option \in [Tools -> {"none", "add", "challenge"}]
    /\ key \in [Tools -> Nat]
    /\ keyPC \in [Tools -> {"read", "set", "open", "fill", "done"}]

\* -A: the key is in the kernel, then in the file, then in the router.
Adding(t) ==
    LET r == target[t] IN
    /\ value[t] = 1 /\ key[t] # NoKey /\ keyPC[t] # "read"
    /\ pc[t] = "write" => keyPC[t] = "done"
    /\ pc[t] = "check" /\ keyPC[t] # "done" => at[t] = r
    /\ pc[t] # "idle" /\ keyPC[t] # "set" => pending[r] = key[t]
    /\ pc[t] = "check" /\ keyPC[t] # "set" => ~snapshot[t]
    /\ pc[t] # "idle" /\ keyPC[t] = "done" => file[r] = key[t]
    /\ pc[t] = "idle" /\ result[t] = "ok" => file[r] = key[t] /\ stored[r] = key[t]

\* -C: the key of the file is in the kernel.
Challenging(t) ==
    LET r == target[t] IN
    /\ value[t] = 2 /\ at[t] = r
    /\ keyPC[t] \in {"read", "set", "done"}
    /\ pc[t] = "write" => keyPC[t] = "done"
    /\ pc[t] # "idle" /\ keyPC[t] = "set" => key[t] = file[r]
    /\ pc[t] # "idle" /\ keyPC[t] = "done" /\ file[r] # NoKey => pending[r] = file[r]
    /\ pc[t] = "idle" /\ result[t] = "error" => ~Challengeable(r)

KeyKnown(t) ==
    t \in undisturbed /\ t \in untouched =>
        /\ option[t] = "add" => Adding(t)
        /\ option[t] = "challenge" => Challenging(t)

LEMMA KeyTypesStep ==
    TypeOK /\ KeyTypes /\ [KeyNext]_<<vars, keyVars>> => KeyTypes'
<1>. SUFFICES ASSUME TypeOK, KeyTypes, [KeyNext]_<<vars, keyVars>> PROVE KeyTypes'
    OBVIOUS
<1>. USE DEF KeyTypes, toolKeys, NoKey
<1>1. CASE KeyPlug
    BY <1>1 DEF KeyPlug, keyVars
<1>2. ASSUME NEW r \in Routers, KeyUnplug(r) PROVE KeyTypes'
    BY <1>2 DEF KeyUnplug
<1>3. ASSUME NEW t \in Tools, KeyStep(t) PROVE KeyTypes'
    <2>. target[t] \in Routers
        BY DEF TypeOK
    <2>. QED BY <1>3 DEF KeyStep, ReadKey, SetKey, OpenFile, FillFile, KeyGoto
<1>4. ASSUME NEW t \in Tools, AuthorizeStep(t) PROVE KeyTypes'
    <2>1. at[t] \in Routers
        BY DEF TypeOK
    <2>2. CASE Walk(t) \/ KeyRefused(t)
        BY <2>2 DEF Walk, KeyRefused, keyVars
    <2>3. CASE KeyWrite(t)
        BY <2>1, <2>3 DEF KeyWrite, Stores
    <2>4. CASE KeyFails(t)
        BY <2>1, <2>4 DEF KeyFails, Stores, KeyGoto
    <2>. QED BY <1>4, <2>2, <2>3, <2>4 DEF AuthorizeStep
<1>5. ASSUME NEW t \in Tools, NEW r \in Routers, NEW v \in Values, CallPlain(t, v, r)
      PROVE KeyTypes'
    BY <1>5 DEF CallPlain, Started
<1>6. ASSUME NEW t \in Tools, NEW r \in Routers, CallAdd(t, r) \/ CallChallenge(t, r)
      PROVE KeyTypes'
    BY <1>6 DEF CallAdd, CallChallenge, Started
<1>7. CASE UNCHANGED <<vars, keyVars>>
    BY <1>7 DEF keyVars
<1>. QED BY <1>1, <1>2, <1>3, <1>4, <1>5, <1>6, <1>7 DEF KeyNext

\* What another program does and leaves the program u undisturbed.
LEMMA KeyFrame ==
    ASSUME NEW u \in Tools, KeyKnown(u),
           UNCHANGED <<connected, auth, pending, stored, file>>,
           pc'[u] = pc[u], value'[u] = value[u], target'[u] = target[u],
           at'[u] = at[u], snapshot'[u] = snapshot[u], result'[u] = result[u],
           option'[u] = option[u], key'[u] = key[u], keyPC'[u] = keyPC[u],
           u \in undisturbed' => u \in undisturbed,
           u \in untouched' => u \in untouched
    PROVE  KeyKnown(u)'
<1>1. \A r : Challengeable(r)' <=> Challengeable(r)
    BY DEF Challengeable, Accepts, ParentAuthorized
<1>. QED BY <1>1 DEF KeyKnown, Adding, Challenging

LEMMA KeyCall ==
    ASSUME TypeOK, KeyTypes, NEW u \in Tools, KeyKnown(u), NEW t \in Tools,
           NEW r \in Routers,
           (\E v \in Values : CallPlain(t, v, r)) \/ CallAdd(t, r) \/ CallChallenge(t, r)
    PROVE  KeyKnown(u)'
<1>1. PICK v \in {0, 1, 2}, opt \in {"none", "add", "challenge"},
            place \in {"set", "read", "done"}, k \in Nat :
          /\ Call(t, v, r) /\ Started(t, opt, place, k)
          /\ opt = "add" => v = 1 /\ place = "set" /\ k = generated + 1
          /\ opt = "challenge" => v = 2 /\ place = "read"
    <2>1. CASE \E v \in Values : CallPlain(t, v, r)
        <3>1. PICK v \in {0, 1, 2} : CallPlain(t, v, r)
            BY <2>1, ChainAssumption
        <3>2. NoKey \in Nat
            BY DEF NoKey
        <3>. QED BY <3>1, <3>2 DEF CallPlain
    <2>2. CASE CallAdd(t, r)
        <3>1. generated + 1 \in Nat /\ generated' = generated + 1
            BY <2>2, KeysAssumption DEF KeyTypes, CallAdd
        <3>. QED BY <2>2, <3>1 DEF CallAdd
    <2>3. CASE CallChallenge(t, r)
        <3>1. NoKey \in Nat
            BY DEF NoKey
        <3>. QED BY <2>3, <3>1 DEF CallChallenge
    <2>. QED BY <2>1, <2>2, <2>3
<1>2. CASE t = u
    <2>1. /\ pc'[u] = "check" /\ value'[u] = v /\ target'[u] = r /\ at'[u] = r
          /\ option'[u] = opt /\ keyPC'[u] = place /\ key'[u] = k
        BY <1>1, <1>2 DEF Call, Goto, Started, TypeOK, KeyTypes
    <2>2. opt = "add" => k # NoKey
        BY <1>1 DEF KeyTypes, NoKey
    <2>. QED BY <1>1, <2>1, <2>2 DEF KeyKnown, Adding, Challenging
<1>3. CASE t # u
    BY <1>1, <1>3, KeyFrame DEF Call, Goto, Started, TypeOK, KeyTypes
<1>. QED BY <1>2, <1>3

LEMMA KeySteps ==
    ASSUME TypeOK, KeyTypes, NEW u \in Tools, KeyKnown(u), Undisturbed(u),
           NEW t \in Tools, KeyStep(t)
    PROVE  KeyKnown(u)'
<1>. USE DEF KeyTypes, KeyGoto, AtKey
<1>1. target[t] \in Routers /\ UNCHANGED vars
    BY DEF TypeOK, KeyStep, ReadKey, SetKey, OpenFile, FillFile
<1>2. CASE t # u
    <2>1. CASE u \in untouched'
        <3>1. ReadKey(t)
            BY <1>2, <2>1 DEF KeyStep, SetKey, OpenFile, FillFile, Touch
        <3>. QED BY <1>1, <1>2, <3>1, KeyFrame DEF ReadKey, vars, callVars
    <2>2. CASE u \notin untouched'
        BY <2>2 DEF KeyKnown
    <2>. QED BY <2>1, <2>2
<1>3. CASE t = u
    <2>. SUFFICES ASSUME u \in undisturbed, u \in untouched'
                  PROVE /\ option'[u] = "add" => Adding(u)'
                        /\ option'[u] = "challenge" => Challenging(u)'
        BY <1>1 DEF KeyKnown, vars
    <2>1. u \in untouched /\ pc[u] = "check" /\ option' = option
        BY <1>3 DEF KeyStep, ReadKey, SetKey, OpenFile, FillFile, Touch
    <2>2. /\ option[u] = "add" => Adding(u)
          /\ option[u] = "challenge" => Challenging(u)
        BY <2>1 DEF KeyKnown
    <2>3. /\ pc'[u] = "check" /\ value'[u] = value[u] /\ target'[u] = target[u]
          /\ at'[u] = at[u] /\ snapshot'[u] = snapshot[u]
        BY <1>1, <2>1 DEF vars, callVars
    <2>4. CASE ReadKey(u)
        BY <1>1, <2>1, <2>2, <2>3, <2>4 DEF ReadKey, Adding, Challenging
    <2>5. CASE SetKey(u)
        <3>1. option[u] = "add" => ~snapshot[u]
            BY <2>1, <2>2, <2>5 DEF Undisturbed, WayUp, Adding, SetKey
        <3>. QED BY <1>1, <1>3, <2>1, <2>2, <2>3, <2>5, <3>1
                 DEF SetKey, Adding, Challenging
    <2>6. CASE OpenFile(u)
        BY <1>1, <1>3, <2>1, <2>2, <2>3, <2>6 DEF OpenFile, Adding, Challenging
    <2>7. CASE FillFile(u)
        BY <1>1, <1>3, <2>1, <2>2, <2>3, <2>7 DEF FillFile, Adding, Challenging
    <2>. QED BY <1>3, <2>4, <2>5, <2>6, <2>7 DEF KeyStep
<1>. QED BY <1>2, <1>3

LEMMA AuthorizeSteps ==
    ASSUME TypeOK, KeyTypes, NEW u \in Tools, KeyKnown(u),
           NEW t \in Tools, AuthorizeStep(t)
    PROVE  KeyKnown(u)'
<1>. USE DEF KeyTypes, keyVars, toolKeys, callVars, KeyGoto
<1>1. CASE t # u
    <2>1. CASE Walk(t)
        BY <1>1, <2>1, KeyFrame
           DEF Walk, CheckSettled, Climb, CheckDone, Return, Goto, TypeOK
    <2>2. CASE KeyWrite(t)
        BY <1>1, <2>2 DEF KeyWrite, Write, KeyKnown
    <2>3. CASE KeyRefused(t)
        BY <1>1, <2>3, KeyFrame DEF KeyRefused, WriteRefused, Return, TypeOK
    <2>4. CASE KeyFails(t)
        <3>1. CASE UNCHANGED <<stored, untouched>>
            BY <1>1, <2>4, <3>1, KeyFrame DEF KeyFails, Fails, Return, TypeOK
        <3>2. CASE Touch(t)
            BY <1>1, <3>2 DEF Touch, KeyKnown
        <3>. QED BY <2>4, <3>1, <3>2 DEF KeyFails
    <2>. QED BY <2>1, <2>2, <2>3, <2>4 DEF AuthorizeStep
<1>2. CASE t = u
    <2>. SUFFICES ASSUME u \in undisturbed', u \in untouched'
                  PROVE /\ option'[u] = "add" => Adding(u)'
                        /\ option'[u] = "challenge" => Challenging(u)'
        BY DEF KeyKnown
    <2>1. /\ u \in undisturbed /\ u \in untouched /\ option' = option
          /\ pc[u] # "idle" /\ value' = value /\ target' = target /\ key' = key
        BY <1>2 DEF AuthorizeStep, Walk, CheckSettled, Climb, CheckDone, KeyWrite,
                    Write, KeyRefused, WriteRefused, KeyFails, Fails, Touch
    <2>2. /\ option[u] = "add" => Adding(u)
          /\ option[u] = "challenge" => Challenging(u)
        BY <2>1 DEF KeyKnown
    <2>3. CASE Walk(u)
        <3>1. UNCHANGED keyVars /\ keyPC[u] = "done"
            BY <2>3 DEF Walk
        <3>2. CASE CheckSettled(u)
            BY <2>1, <2>2, <3>1, <3>2
               DEF CheckSettled, Settled, Return, Adding, Challenging, TypeOK
        <3>3. CASE Climb(u)
            BY <2>1, <2>2, <3>1, <3>3 DEF Climb, Adding, Challenging, TypeOK
        <3>4. CASE CheckDone(u)
            BY <2>1, <2>2, <3>1, <3>4 DEF CheckDone, Goto, Adding, Challenging, TypeOK
        <3>. QED BY <2>3, <3>2, <3>3, <3>4 DEF Walk
    <2>4. CASE KeyWrite(u)
        <3>1. /\ UNCHANGED <<pending, file, toolKeys>>
              /\ pc[u] = "write" /\ Descend(u)
            BY <2>4 DEF KeyWrite, Write
        <3>2. at[u] \in Routers
            BY DEF TypeOK
        <3>3. CASE option[u] = "add"
            <4>1. Stores(at[u])
                BY <2>2, <2>4, <3>3 DEF KeyWrite, Adding
            <4>2. CASE at[u] = target[u]
                <5>1. stored'[target[u]] = key[u]
                    BY <2>2, <3>1, <3>2, <3>3, <4>1, <4>2 DEF Stores, Adding
                <5>2. pc'[u] = "idle"
                    BY <3>1, <4>2 DEF Descend, Return, TypeOK
                <5>. QED BY <2>1, <2>2, <3>1, <3>3, <5>1, <5>2 DEF Adding
            <4>3. CASE at[u] # target[u]
                <5>1. pc' = pc
                    BY <3>1, <4>3 DEF Descend
                <5>. QED BY <2>1, <2>2, <3>1, <3>3, <5>1 DEF Adding
            <4>. QED BY <3>3, <2>1, <4>2, <4>3
        <3>4. CASE option[u] = "challenge"
            <4>1. at[u] = target[u]
                BY <2>2, <3>4 DEF Challenging
            <4>2. pc'[u] = "idle" /\ result'[u] = "ok" /\ at' = at
                BY <3>1, <4>1 DEF Descend, Return, TypeOK
            <4>. QED BY <2>1, <2>2, <3>1, <3>4, <4>2 DEF Challenging
        <3>. QED BY <2>1, <3>3, <3>4
    <2>5. CASE KeyRefused(u)
        <3>1. /\ UNCHANGED <<connected, auth, at>> /\ UNCHANGED keyVars
              /\ pc[u] = "write" /\ pc'[u] = "idle" /\ result'[u] = "error"
            BY <2>5 DEF KeyRefused, WriteRefused, Return, TypeOK
        <3>2. CASE option[u] = "add"
            BY <2>1, <2>2, <3>1, <3>2 DEF Adding
        <3>3. CASE option[u] = "challenge"
            <4>1. Challenging(u) /\ keyPC[u] = "done"
                BY <2>2, <3>1, <3>3 DEF Challenging
            <4>2. ~Challengeable(target[u])
                BY <2>5, <3>1, <4>1
                   DEF KeyRefused, Challengeable, Challenging, KeyFits
            <4>3. Challengeable(target[u])' <=> Challengeable(target[u])
                BY <2>1, <3>1 DEF Challengeable, Accepts, ParentAuthorized
            <4>. QED BY <2>1, <3>1, <3>3, <4>1, <4>2, <4>3 DEF Challenging
        <3>. QED BY <2>1, <3>2, <3>3
    <2>6. CASE KeyFails(u)
        BY <2>6 DEF KeyFails, Fails
    <2>. QED BY <1>2, <2>3, <2>4, <2>5, <2>6 DEF AuthorizeStep
<1>. QED BY <1>1, <1>2

KeyInv == Inv /\ KeyTypes /\ \A t \in Tools : KeyKnown(t)

LEMMA KeyInvStep == KeyInv /\ [KeyNext]_<<vars, keyVars>> => KeyInv'
<1>. SUFFICES ASSUME KeyInv, [KeyNext]_<<vars, keyVars>> PROVE KeyInv'
    OBVIOUS
<1>1. Inv'
    BY KeyStepRefines, TypeStep, DoneStep, UndisturbedStep DEF KeyInv, Inv, Done
<1>2. KeyTypes'
    BY KeyTypesStep DEF KeyInv, Inv
<1>3. ASSUME NEW u \in Tools PROVE KeyKnown(u)'
    <2>. TypeOK /\ KeyTypes /\ KeyKnown(u) /\ Undisturbed(u)
        BY DEF KeyInv, Inv
    <2>1. CASE KeyPlug \/ \E r \in Routers : KeyUnplug(r)
        BY <2>1 DEF KeyPlug, Plug, KeyUnplug, Unplug, KeyKnown
    <2>2. ASSUME NEW t \in Tools, KeyStep(t) PROVE KeyKnown(u)'
        BY <2>2, KeySteps
    <2>3. ASSUME NEW t \in Tools, AuthorizeStep(t) PROVE KeyKnown(u)'
        BY <2>3, AuthorizeSteps
    <2>4. ASSUME NEW t \in Tools, NEW r \in Routers,
                 (\E v \in Values : CallPlain(t, v, r)) \/ CallAdd(t, r) \/ CallChallenge(t, r)
          PROVE KeyKnown(u)'
        BY <2>4, KeyCall
    <2>5. CASE UNCHANGED <<vars, keyVars>>
        BY <2>5, KeyFrame DEF vars, keyVars, toolKeys, callVars
    <2>. QED BY <2>1, <2>2, <2>3, <2>4, <2>5 DEF KeyNext
<1>. QED BY <1>1, <1>2, <1>3 DEF KeyInv

\* A -A that succeeds leaves the key of the router in its file, and a -C fails
\* only when the router is not there to be challenged or has another key, unless
\* another program has interfered: for any number of tools, routers and keys.
THEOREM KeyFileIsTrue == KeySpec => []KeyFileFits
<1>1. KeyInit => KeyInv
    <2>. SUFFICES ASSUME KeyInit PROVE KeyInv
        OBVIOUS
    <2>1. Inv
        BY InvInit DEF KeyInit
    <2>. QED BY <2>1 DEF KeyInit, KeyInv, KeyTypes, KeyKnown, NoKey
<1>2. KeyInv => KeyFileFits
    BY DEF KeyInv, Inv, TypeOK, KeyKnown, Adding, Challenging, KeyFileFits
<1>. QED BY <1>1, <1>2, KeyInvStep, PTL DEF KeySpec
=============================================================================
