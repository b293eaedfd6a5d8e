------------------------- MODULE MCAgentLifecycle -------------------------
(***************************************************************************)
(* Three things to give of a configuration: each leaves something out, one *)
(* empties the instructions.                                               *)
(***************************************************************************)
EXTENDS AgentLifecycle, TLC

CONSTANTS r1, r2, r3

C(i, g) == [systemInstructions |-> i, guardrails |-> g]

MCConfig == {C("sales", Missing), C("", "strict"), C(Missing, "strict")}
MCTemplate == {C("sales", Missing)}

SymmetricRequests == Permutations(Request)
=============================================================================
