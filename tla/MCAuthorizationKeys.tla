------------------------- MODULE MCAuthorizationKeys -------------------------
(***************************************************************************)
(* Tools for model checking: any of them may be tbauth or tbman.           *)
(***************************************************************************)
EXTENDS AuthorizationKeys, TLC

Symmetry == Permutations(Tools)
=============================================================================
