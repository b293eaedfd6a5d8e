----------------------------- MODULE MCSessions -----------------------------
(***************************************************************************)
(* One browser with two calls that meet one request from elsewhere, or     *)
(* with one call that meets two; or two that verify an address.            *)
(***************************************************************************)
EXTENDS Sessions

CONSTANTS c1, c2, r1, r2, l1, l2

MCPurpose == [l \in {l1, l2} |-> IF l = l1 THEN "reset" ELSE "verify"]

MCCasts == {{c1, c2, r1, l1}, {c1, r1, r2, l1}, {r1, r2, l2}}
=============================================================================
