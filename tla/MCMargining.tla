----------------------------- MODULE MCMargining -----------------------------
(***************************************************************************)
(* Ports for model checking: each way to return margins of each test, with *)
(* and without hardware margining, all lanes and a destructive time test.  *)
(* Of several lanes, several tests and several margins, a port has two.    *)
(***************************************************************************)
EXTENDS Margining, TLC

MCPorts ==
    {c \in RawCaps :
        /\ c.software = ~c.hardware
        /\ c.voltage # 3 /\ c.timing # 3
        /\ ~c.time => c.timing = 0 /\ ~c.destructive
        /\ c.destructive => c.timing = 0
        /\ c.time /\ ~c.allLanes => c.destructive \/ c.voltage + c.timing = 0
        /\ c.time /\ ~c.destructive => c.hardware
        /\ c.gen4 => c.hardware}

Symmetry == Permutations(Tools)
=============================================================================
