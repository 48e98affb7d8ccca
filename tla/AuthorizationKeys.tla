-------------------------- MODULE AuthorizationKeys --------------------------
(***************************************************************************)
(* tbauth with the keys of a domain with security level "secure": -A makes *)
(* a key, hands it to the kernel, writes it to a file and authorizes the   *)
(* router; -C takes the key from the file and challenges the router with   *)
(* it. Without either, and from tbman, a router is just authorized.        *)
(*                                                                         *)
(* The kernel keeps the key it was given until the router goes or gets     *)
(* another one. It stores that key in a router it authorizes, and compares *)
(* it with the stored one in a challenge. Each system call is a step, and  *)
(* a tool may fail or be killed at any of them.                            *)
(***************************************************************************)
EXTENDS Authorization

CONSTANTS
    WithKey,  \* the routers that have the attribute "key"
    MaxKeys   \* bound on the keys that are generated

ASSUME KeysAssumption ==
    WithKey \subseteq Routers /\ MaxKeys \in Nat /\ {1, 2} \subseteq Values

\* No two keys of 32 random bytes are the same: a key is its number.
Keys  == 1..MaxKeys
NoKey == 0

VARIABLES
    pending,   \* the key the kernel was given for each router
    stored,    \* the key each router keeps
    file,      \* the key in the key file of each router, if there is one
    generated, \* how many keys have been generated
    option,    \* what each tool was started with
    key,       \* the key it uses
    keyPC,     \* where it is with the key
    untouched  \* the tools whose keys and files no other has changed

toolKeys == <<generated, option, key, keyPC>>
keyVars  == <<pending, stored, file, toolKeys, untouched>>

\* t changes a key, or a file.
Touch(t) == untouched' = untouched \intersect {t}

KeyPlug == Plug /\ UNCHANGED keyVars

\* The Device the kernel has of a router goes with the router.
KeyUnplug(r) ==
    /\ Unplug(r)
    /\ pending' = [s \in Routers |-> IF s < r THEN pending[s] ELSE NoKey]
    /\ UNCHANGED <<stored, file, toolKeys, untouched>>

-----------------------------------------------------------------------------
(***************************************************************************)
(* main() of tbauth.                                                       *)
(***************************************************************************)
Started(t, opt, place, k) ==
    /\ option' = [option EXCEPT ![t] = opt]
    /\ keyPC' = [keyPC EXCEPT ![t] = place]
    /\ key' = [key EXCEPT ![t] = k]
    /\ untouched' = untouched \union {t}
    /\ UNCHANGED <<pending, stored, file>>

CallPlain(t, v, r) ==
    /\ v # 2 /\ Call(t, v, r)
    /\ Started(t, "none", "done", NoKey)
    /\ UNCHANGED generated

\* -A: gen_key().
CallAdd(t, r) ==
    /\ r \in WithKey /\ generated < MaxKeys
    /\ Call(t, 1, r)
    /\ generated' = generated + 1
    /\ Started(t, "add", "set", generated')

\* -C.
CallChallenge(t, r) ==
    /\ r \in WithKey
    /\ Call(t, 2, r)
    /\ Started(t, "challenge", "read", NoKey)
    /\ UNCHANGED generated

KeyGoto(t, place) == keyPC' = [keyPC EXCEPT ![t] = place]

AtKey(t, place) == pc[t] = "check" /\ keyPC[t] = place

\* The file may not be there, which is an error and left to KeyFails().
ReadKey(t) ==
    /\ AtKey(t, "read")
    /\ key' = [key EXCEPT ![t] = file[target[t]]]
    /\ KeyGoto(t, "set")
    /\ UNCHANGED <<vars, pending, stored, file, generated, option, untouched>>

\* set_key(): the kernel takes a key for a router that is not authorized. The
\* write of an empty file changes nothing.
SetKey(t) ==
    /\ AtKey(t, "set")
    /\ target[t] <= connected /\ ~auth[target[t]]
    /\ pending' = IF key[t] = NoKey THEN pending
                  ELSE [pending EXCEPT ![target[t]] = key[t]]
    /\ KeyGoto(t, IF option[t] = "add" THEN "open" ELSE "done")
    /\ Touch(t)
    /\ UNCHANGED <<vars, stored, file, generated, option, key>>

\* Mutant: a file that is there is left as it is.
OpenFileIfNone(t) ==
    /\ AtKey(t, "open")
    /\ KeyGoto(t, IF file[target[t]] = NoKey THEN "fill" ELSE "done")
    /\ Touch(t)
    /\ UNCHANGED <<vars, pending, stored, file, generated, option, key>>

\* -A creates the file, or truncates it.
OpenFile(t) ==
    /\ AtKey(t, "open")
    /\ file' = [file EXCEPT ![target[t]] = NoKey]
    /\ KeyGoto(t, "fill")
    /\ Touch(t)
    /\ UNCHANGED <<vars, pending, stored, generated, option, key>>

FillFile(t) ==
    /\ AtKey(t, "fill")
    /\ file' = [file EXCEPT ![target[t]] = key[t]]
    /\ KeyGoto(t, "done")
    /\ Touch(t)
    /\ UNCHANGED <<vars, pending, stored, generated, option, key>>

-----------------------------------------------------------------------------
(***************************************************************************)
(* authorize_device() with what the kernel does with the keys.             *)
(***************************************************************************)
Walk(t) ==
    /\ keyPC[t] = "done"
    /\ CheckSettled(t) \/ Climb(t) \/ CheckDone(t)
    /\ UNCHANGED keyVars

KeyFits(r) == pending[r] # NoKey /\ pending[r] = stored[r]

\* The router that is authorized stores the key the kernel has for it.
Stores(r) == stored' = IF pending[r] = NoKey THEN stored
                       ELSE [stored EXCEPT ![r] = pending[r]]

KeyWrite(t) ==
    /\ Write(t)
    /\ \/ value[t] = 0 /\ UNCHANGED stored
       \/ value[t] = 1 /\ Stores(at[t])
       \/ value[t] = 2 /\ KeyFits(at[t]) /\ UNCHANGED stored
    /\ UNCHANGED <<pending, file, toolKeys, untouched>>

KeyRefused(t) ==
    /\ WriteRefused(t)
    /\ Accepts(at[t], value[t]) => ~KeyFits(at[t])
    /\ UNCHANGED keyVars

\* The key may be stored although the router is not authorized then.
KeyFails(t) ==
    /\ Fails(t)
    /\ \/ UNCHANGED <<stored, untouched>>
       \/ /\ pc[t] = "write" /\ value[t] = 1 /\ Accepts(at[t], 1)
          /\ Stores(at[t]) /\ Touch(t)
    /\ KeyGoto(t, "done")
    /\ UNCHANGED <<pending, file, generated, option, key>>

-----------------------------------------------------------------------------
KeyInit ==
    /\ Init
    /\ pending = [r \in Routers |-> NoKey]
    /\ stored = pending /\ file = pending
    /\ generated = 0
    /\ option = [t \in Tools |-> "none"]
    /\ key = [t \in Tools |-> NoKey]
    /\ keyPC = [t \in Tools |-> "done"]
    /\ untouched = {}

KeyStep(t) == ReadKey(t) \/ SetKey(t) \/ OpenFile(t) \/ FillFile(t)

AuthorizeStep(t) == Walk(t) \/ KeyWrite(t) \/ KeyRefused(t) \/ KeyFails(t)

KeyNext ==
    \/ KeyPlug
    \/ \E r \in Routers : KeyUnplug(r)
    \/ \E t \in Tools : KeyStep(t) \/ AuthorizeStep(t)
    \/ \E t \in Tools, r \in Routers :
           \/ \E v \in Values : CallPlain(t, v, r)
           \/ CallAdd(t, r) \/ CallChallenge(t, r)

KeySpec == KeyInit /\ [][KeyNext]_<<vars, keyVars>>

-----------------------------------------------------------------------------
(***************************************************************************)
(* Properties.                                                             *)
(***************************************************************************)
\* The router could be authorized with the key in its file.
Challengeable(r) ==
    /\ Accepts(r, 2)
    /\ file[r] # NoKey /\ file[r] = stored[r]

\* The key file is worth something: when -A has succeeded it holds the key the
\* router keeps, and -C does not fail as long as it does, the router is not
\* authorized and its parent is; unless another program has interfered. The
\* key, the file and the router are written one after the other, and nothing is
\* taken back when one of them fails.
KeyFileFits ==
    \A t \in undisturbed \intersect untouched :
        pc[t] = "idle" =>
            /\ option[t] = "add" /\ result[t] = "ok" =>
                   file[target[t]] = key[t] /\ stored[target[t]] = key[t]
            /\ option[t] = "challenge" /\ result[t] = "error" =>
                   ~Challengeable(target[t])
=============================================================================
