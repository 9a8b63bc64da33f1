---------------------------- MODULE MCProxyRepair ----------------------------
(* One video over a few starts of the API.                                 *)
EXTENDS ProxyRepair, TLC

CONSTANTS r1, r2, r3

Symmetry == Permutations(Repairs)

=============================================================================
