-------------------------- MODULE MCWorkflowRunner --------------------------
(***************************************************************************)
(* Instances of WorkflowRunner for TLC: small graphs that each contain one *)
(* of the shapes the runner treats differently.                            *)
(***************************************************************************)
EXTENDS WorkflowRunner, TLC

Edge(s, t, c) == [source |-> s, target |-> t, condition |-> c]

MCNode == {"t", "p", "q", "a", "b", "c", "d", "e"}

(* Two actions in parallel that meet in one END.                           *)
Diamond ==
  [type  |-> "t" :> "TRIGGER" @@ "p" :> "PARALLEL" @@ "a" :> "ACTION"
             @@ "b" :> "ACTION" @@ "e" :> "END",
   edges |-> <<Edge("t", "p", "always"), Edge("p", "a", "always"), Edge("p", "b", "always"),
               Edge("a", "e", "always"), Edge("b", "e", "always")>>]

(* Two branches that each branch on a condition of their own.              *)
TwoConditions ==
  [type  |-> "t" :> "TRIGGER" @@ "p" :> "PARALLEL" @@ "c" :> "CONDITION"
             @@ "d" :> "CONDITION" @@ "e" :> "END",
   edges |-> <<Edge("t", "p", "always"), Edge("p", "c", "always"), Edge("p", "d", "always"),
               Edge("c", "e", "ifTrue"), Edge("d", "e", "ifFalse")>>]

(* No PARALLEL: a condition with a default edge, and a fan-out in sequence.*)
DefaultEdge ==
  [type  |-> "t" :> "TRIGGER" @@ "c" :> "CONDITION" @@ "a" :> "AGENT"
             @@ "b" :> "WAIT" @@ "e" :> "END",
   edges |-> <<Edge("t", "c", "always"), Edge("c", "a", "ifTrue"), Edge("c", "b", "always"),
               Edge("a", "e", "always"), Edge("b", "e", "data")>>]

(* A fork inside a fork, one of whose edges depends on run data.           *)
NestedFork ==
  [type  |-> "t" :> "TRIGGER" @@ "p" :> "PARALLEL" @@ "q" :> "PARALLEL"
             @@ "a" :> "ACTION" @@ "b" :> "WAIT" @@ "e" :> "END",
   edges |-> <<Edge("t", "p", "always"), Edge("p", "q", "always"), Edge("p", "a", "always"),
               Edge("q", "e", "always"), Edge("q", "b", "data")>>]

MCGraphs == {Diamond, TwoConditions, DefaultEdge, NestedFork}
=============================================================================
