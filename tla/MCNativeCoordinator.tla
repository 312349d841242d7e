------------------------ MODULE MCNativeCoordinator ------------------------
(***************************************************************************)
(* NativeCoordinator on a host of three identities.                        *)
(***************************************************************************)
EXTENDS NativeCoordinator, TLC

CONSTANTS g1, g2, g3

\* An observation may miss one identity, or none.
MissesOne == {{}, {g1}, {g2}, {g3}}
MissesNone == {{}}

Symmetry == Permutations(Agents)
=============================================================================
