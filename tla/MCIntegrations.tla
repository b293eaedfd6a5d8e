--------------------------- MODULE MCIntegrations ---------------------------
(***************************************************************************)
(* Two connectors and the shop, three requests.                            *)
(***************************************************************************)
EXTENDS Integrations, TLC

CONSTANTS r1, r2, r3, r0

Symmetry == Permutations({r1, r2, r3})
=============================================================================
