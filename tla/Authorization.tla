---------------------------- MODULE Authorization ----------------------------
(***************************************************************************)
(* authorize_device(): authorizing a router and the routers above it, as   *)
(* tbauth and F2 of tbman do, while others do the same and routers come    *)
(* and go.                                                                 *)
(*                                                                         *)
(* The routers are a chain below the host router: router r hangs off       *)
(* router r - 1, and 1 off the host, which is always authorized. A Device  *)
(* is a snapshot: its authorized attribute was read when it was parsed.    *)
(*                                                                         *)
(* Writing the attribute is the kernel's part: it authorizes a router that *)
(* is not authorized yet and whose parent is, challenges it with the key   *)
(* it was given, and de-authorizes it with all that is below. Which key    *)
(* that is, and where it comes from, is AuthorizationKeys.                 *)
(***************************************************************************)
EXTENDS Integers

CONSTANTS
    Depth,   \* the length of the chain
    Tools,   \* the programs that authorize
    Values   \* what they write: 0, 1, or 2 to challenge

ASSUME ChainAssumption == Depth \in Nat \ {0} /\ Values \subseteq {0, 1, 2}

Routers == 1..Depth

VARIABLES
    connected,   \* the routers 1..connected are there
    auth,        \* their authorized attribute
    pc,          \* where each tool is
    value,       \* what it is to write
    target,      \* the router it was called for
    at,          \* the router of the chain it is at
    snapshot,    \* the authorized attribute of the Device it holds of that one
    result,      \* how its last call has ended
    undisturbed, \* the tools that nobody has disturbed since they were called
    done         \* those whose router has been as asked for since then

callVars == <<value, target>>
vars == <<connected, auth, pc, callVars, at, snapshot, result, undisturbed, done>>

Goto(t, step) == pc' = [pc EXCEPT ![t] = step] /\ UNCHANGED result

Return(t, outcome) ==
    /\ pc' = [pc EXCEPT ![t] = "idle"]
    /\ result' = [result EXCEPT ![t] = outcome]

\* The router of t is what t was asked to make it.
AsAsked(t) == auth[target[t]] = (value[t] # 0)

Observe == done' = done \union {t \in Tools : AsAsked(t)'}

-----------------------------------------------------------------------------
(***************************************************************************)
(* The bus.                                                                *)
(***************************************************************************)
Plug ==
    /\ connected < Depth
    /\ connected' = connected + 1
    /\ undisturbed' = {}
    /\ UNCHANGED <<auth, pc, callVars, at, snapshot, result, done>>

\* A router goes with everything below it.
Unplug(r) ==
    /\ r <= connected
    /\ connected' = r - 1
    /\ auth' = [s \in Routers |-> auth[s] /\ s < r]
    /\ undisturbed' = {}
    /\ UNCHANGED <<pc, callVars, at, snapshot, result>>
    /\ Observe

\* What the kernel makes of a write of v to the attribute of r.
ParentAuthorized(r) == IF r = 1 THEN TRUE ELSE auth[r - 1]

Accepts(r, v) ==
    /\ r <= connected
    /\ auth[r] = (v = 0)
    /\ v # 0 => ParentAuthorized(r)

Authorized(r, v) ==
    IF v = 0
    THEN [s \in Routers |-> auth[s] /\ s < r]
    ELSE [auth EXCEPT ![r] = TRUE]

-----------------------------------------------------------------------------
(***************************************************************************)
(* authorize_device().                                                     *)
(***************************************************************************)
\* The Device of router r is parsed, by find_device() or for the list of tbman.
Call(t, v, r) ==
    /\ pc[t] = "idle"
    /\ r <= connected
    /\ Goto(t, "check")
    /\ value' = [value EXCEPT ![t] = v]
    /\ target' = [target EXCEPT ![t] = r]
    /\ at' = [at EXCEPT ![t] = r]
    /\ snapshot' = [snapshot EXCEPT ![t] = auth[r]]
    /\ undisturbed' = undisturbed \union {t}
    /\ done' = IF auth[r] = (v # 0) THEN done \union {t} ELSE done \ {t}
    /\ UNCHANGED <<connected, auth>>

\* There is nothing to do for the Device, as it was when it was parsed.
Settled(t) == value[t] \in {0, 1} /\ snapshot[t] = (value[t] = 1)

CheckSettled(t) ==
    /\ pc[t] = "check" /\ Settled(t)
    /\ Return(t, "ok")
    /\ UNCHANGED <<connected, auth, callVars, at, snapshot, undisturbed, done>>

\* The parent is parsed now. When it is gone the router is as well.
ParentUnauthorized(r) == r <= connected /\ ~ParentAuthorized(r)

\* Mutant: the call for the parent is not made.
ClimbNot(t) ==
    /\ pc[t] = "check" /\ ~Settled(t)
    /\ value[t] = 1 /\ ParentUnauthorized(at[t])
    /\ Goto(t, "write")
    /\ UNCHANGED <<connected, auth, callVars, at, snapshot, undisturbed, done>>

\* The parent is not authorized: it is authorized first.
Climb(t) ==
    /\ pc[t] = "check" /\ ~Settled(t)
    /\ value[t] = 1 /\ ParentUnauthorized(at[t])
    /\ at' = [at EXCEPT ![t] = @ - 1]
    /\ snapshot' = [snapshot EXCEPT ![t] = FALSE]
    /\ UNCHANGED <<connected, auth, callVars, pc, result, undisturbed, done>>

CheckDone(t) ==
    /\ pc[t] = "check" /\ ~Settled(t)
    /\ value[t] = 1 => ~ParentUnauthorized(at[t])
    /\ Goto(t, "write")
    /\ UNCHANGED <<connected, auth, callVars, at, snapshot, undisturbed, done>>

\* Mutants: the way down ends at the parent, or goes on below the router.
DescendShort(t) ==
    IF at[t] + 1 >= target[t]
    THEN Return(t, "ok") /\ UNCHANGED at
    ELSE at' = [at EXCEPT ![t] = @ + 1] /\ UNCHANGED <<pc, result>>

DescendFurther(t) ==
    IF at[t] > target[t]
    THEN Return(t, "ok") /\ UNCHANGED at
    ELSE at' = [at EXCEPT ![t] = @ + 1] /\ UNCHANGED <<pc, result>>

\* The call returns to the one for the router below, or to the caller.
Descend(t) ==
    IF at[t] = target[t]
    THEN Return(t, "ok") /\ UNCHANGED at
    ELSE at' = [at EXCEPT ![t] = @ + 1] /\ UNCHANGED <<pc, result>>

Write(t) ==
    /\ pc[t] = "write"
    /\ Accepts(at[t], value[t])
    /\ auth' = Authorized(at[t], value[t])
    /\ Descend(t)
    /\ undisturbed' = undisturbed \intersect {t}
    /\ UNCHANGED <<connected, callVars, snapshot>>
    /\ Observe

\* A challenge is also refused when the router has another key.
WriteRefused(t) ==
    /\ pc[t] = "write"
    /\ ~Accepts(at[t], value[t]) \/ value[t] = 2
    /\ Return(t, "error")
    /\ UNCHANGED <<connected, auth, callVars, at, snapshot, undisturbed, done>>

\* The router does not answer, something tbauth does before the call fails, or
\* the program is killed.
Fails(t) ==
    /\ pc[t] # "idle"
    /\ Return(t, "error")
    /\ undisturbed' = undisturbed \ {t}
    /\ UNCHANGED <<connected, auth, callVars, at, snapshot, done>>

-----------------------------------------------------------------------------
Init ==
    /\ connected \in 0..Depth
    /\ auth = [r \in Routers |-> FALSE]
    /\ pc = [t \in Tools |-> "idle"]
    /\ value = [t \in Tools |-> 0]
    /\ target = [t \in Tools |-> 1] /\ at = target
    /\ snapshot = [t \in Tools |-> FALSE]
    /\ result = [t \in Tools |-> "none"]
    /\ undisturbed = {} /\ done = {}

Step(t) ==
    \/ CheckSettled(t) \/ Climb(t) \/ CheckDone(t)
    \/ Write(t) \/ WriteRefused(t) \/ Fails(t)

Next ==
    \/ Plug
    \/ \E r \in Routers : Unplug(r)
    \/ \E t \in Tools : Step(t)
    \/ \E t \in Tools, v \in Values, r \in Routers : Call(t, v, r)

Spec == Init /\ [][Next]_vars

-----------------------------------------------------------------------------
(***************************************************************************)
(* Properties.                                                             *)
(***************************************************************************)
\* Every variable has its type. On its way up and down a tool is never below
\* the router it was called for.
TypeOK ==
    /\ connected \in 0..Depth
    /\ auth \in [Routers -> BOOLEAN]
    /\ pc \in [Tools -> {"idle", "check", "write"}]
    /\ value \in [Tools -> {0, 1, 2}]
    /\ target \in [Tools -> Routers]
    /\ at \in [Tools -> Routers]
    /\ \A t \in Tools : at[t] <= target[t]
    /\ snapshot \in [Tools -> BOOLEAN]
    /\ result \in [Tools -> {"none", "ok", "error"}]
    /\ undisturbed \subseteq Tools /\ done \subseteq Tools

\* When a call succeeds the router has been as asked for at some moment of the
\* call, although the decision rests on a snapshot and others write as well.
OkMeansDone ==
    \A t \in Tools : pc[t] = "idle" /\ result[t] = "ok" => t \in done

\* Authorizing and de-authorizing succeed as long as the bus stays as it is and
\* the routers answer: the parents are authorized as far up as necessary, in
\* the order the kernel accepts.
UndisturbedSucceeds ==
    \A t \in undisturbed :
        pc[t] = "idle" /\ value[t] \in {0, 1} => result[t] # "error"
=============================================================================
