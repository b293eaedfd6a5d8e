---------------------------- MODULE MCMembership ----------------------------
(***************************************************************************)
(* Two users of an organization, a third who may register, three requests. *)
(***************************************************************************)
EXTENDS Membership, TLC

CONSTANTS r1, r2, r3, u1, u2, u3

Symmetry == Permutations({r1, r2, r3})
=============================================================================
