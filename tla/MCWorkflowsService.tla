------------------------- MODULE MCWorkflowsService -------------------------
(***************************************************************************)
(* Two workflows and four submitted graphs: f and g share node ids, h has  *)
(* none of theirs but the edge id of f, and bad is not valid.              *)
(***************************************************************************)
EXTENDS WorkflowsService, TLC

CONSTANTS w1, w2, r1, r2

MCDefinition == {"f", "g", "h", "bad"}
Smaller == {"f", "h"}
MCValid == {"f", "g", "h"}

MCNodesOf == [d \in MCDefinition |->
  IF d = "f" THEN {"t", "e"} ELSE IF d = "g" THEN {"t", "a"} ELSE IF d = "h" THEN {"u", "v"} ELSE {"t"}]

Edge(i, s, t) == [id |-> i, source |-> s, target |-> t]

MCEdgesOf == [d \in MCDefinition |->
  IF d = "f" THEN {Edge("x", "t", "e")} ELSE IF d = "g" THEN {Edge("y", "t", "a")}
  ELSE IF d = "h" THEN {Edge("x", "u", "v")} ELSE {}]

SymmetricRequests == Permutations(Request)
=============================================================================
