-------------------------- MODULE GraphValidation --------------------------
(***************************************************************************)
(* validateGraph(): the structural checks of a workflow definition and the *)
(* depth-first search that looks for cycles and for an END.                *)
(*                                                                         *)
(* The search is recursive in the code; here its call stack is a variable  *)
(* and one step is one call, one return or one edge that needs no call.    *)
(***************************************************************************)
EXTENDS Naturals, Sequences

CONSTANTS
  Id,     \* ids of nodes and ends of edges, Missing for an absent one
  Graphs  \* the definitions submitted

Missing == "undefined"

NodeType == {"TRIGGER", "CONDITION", "AGENT", "ACTION", "WAIT", "PARALLEL", "END", Missing}

Node == [id: Id, type: NodeType]

(* Edges are numbered by their id, 0 for an absent one.                    *)
NoEdgeId == 0
Edge == [id: Nat, source: Id, target: Id]

(* arrays says whether nodes and edges are arrays at all.                  *)
Graph == [arrays: BOOLEAN, nodes: Seq(Node), edges: Seq(Edge)]

ASSUME GraphsAssumption == Graphs \subseteq Graph

VARIABLES
  graph,
  pc,      \* "scan", "dfs", "done"
  errors,  \* the kinds of error pushed
  color,   \* of the search
  stack,   \* the calls of dfs() that have not returned, innermost last
  todo,    \* by node, the outgoing edges its call has not looked at
  hasEnd

validationVars == <<graph, pc, errors, color, stack, todo, hasEnd>>

ScanError == {"NotArrays", "NodeIdMissing", "DuplicateNodeId", "NodeTypeMissing", "NoTrigger",
              "ManyTriggers", "EdgeIdMissing", "SourceNotFound", "TargetNotFound", "SelfLoop"}

ValidationTypeOK ==
  /\ graph \in Graphs
  /\ pc \in {"scan", "dfs", "done"}
  /\ errors \subseteq ScanError \cup {"Cycle", "NoEnd"}
  /\ color \in [Id -> {"white", "gray", "black"}]
  /\ stack \in Seq(Id)
  /\ todo \in [Id -> SUBSET DOMAIN graph.edges]
  /\ hasEnd \in BOOLEAN

-----------------------------------------------------------------------------

Nodes == {graph.nodes[i] : i \in DOMAIN graph.nodes}
Edges == {graph.edges[i] : i \in DOMAIN graph.edges}
nodeIds == {n.id : n \in Nodes} \ {Missing}

Triggers == {i \in DOMAIN graph.nodes : graph.nodes[i].type = "TRIGGER"}
OneTrigger == \E i \in Triggers : Triggers = {i}
Root == graph.nodes[CHOOSE i \in Triggers : TRUE].id

Raised(kind, bad) == IF bad THEN {kind} ELSE {}

(* The two loops over nodes and edges, and the count of TRIGGERs.          *)
ScanErrors ==
       Raised("NodeIdMissing", \E n \in Nodes : n.id = Missing)
  \cup Raised("DuplicateNodeId",
              \E i, j \in DOMAIN graph.nodes :
                i < j /\ graph.nodes[i].id = graph.nodes[j].id /\ graph.nodes[i].id # Missing)
  \cup Raised("NodeTypeMissing", \E n \in Nodes : n.type = Missing)
  \cup Raised("NoTrigger", Triggers = {})
  \cup Raised("ManyTriggers", \E i, j \in Triggers : i # j)
  \cup Raised("EdgeIdMissing", \E e \in Edges : e.id = NoEdgeId)
  \cup Raised("SourceNotFound", \E e \in Edges : e.source \notin nodeIds)
  \cup Raised("TargetNotFound", \E e \in Edges : e.target \notin nodeIds)
  \cup Raised("SelfLoop", \E e \in Edges : e.source = e.target)

Out(n) == {i \in DOMAIN graph.edges : graph.edges[i].source = n}

(* graph.nodes.find: the first node with that id decides its type.         *)
IsEnd(n) ==
  \E i \in DOMAIN graph.nodes :
    /\ graph.nodes[i].id = n /\ graph.nodes[i].type = "END"
    /\ \A j \in 1..(i - 1) : graph.nodes[j].id # n

ValidationInit ==
  /\ graph \in Graphs
  /\ pc = "scan"
  /\ errors = {}
  /\ color = [n \in Id |-> "white"]
  /\ stack = <<>>
  /\ todo = [n \in Id |-> {}]
  /\ hasEnd = FALSE

(* dfs(v) is called on a white node.                                       *)
Call(v) ==
  /\ color' = [color EXCEPT ![v] = "gray"]
  /\ stack' = Append(stack, v)
  /\ hasEnd' = (hasEnd \/ IsEnd(v))

(* Not an object with two arrays: the only error.                          *)
Reject ==
  /\ pc = "scan" /\ ~graph.arrays
  /\ errors' = {"NotArrays"}
  /\ pc' = "done"
  /\ UNCHANGED <<graph, color, stack, todo, hasEnd>>

(* The search starts only from a unique TRIGGER.                           *)
Scan ==
  /\ pc = "scan" /\ graph.arrays
  /\ errors' = ScanErrors
  /\ \/ /\ OneTrigger
        /\ pc' = "dfs"
        /\ Call(Root)
        /\ todo' = [todo EXCEPT ![Root] = Out(Root)]
     \/ /\ ~OneTrigger
        /\ pc' = "done"
        /\ UNCHANGED <<color, stack, todo, hasEnd>>
  /\ UNCHANGED <<graph>>

Top == stack[Len(stack)]

(* The running call looks at its next edge i, in declaration order.        *)
LooksAt(i) ==
  /\ pc = "dfs" /\ stack # <<>>
  /\ i \in todo[Top]
  /\ \A j \in todo[Top] : i <= j

Target(i) == graph.edges[i].target

SeeGray(i) ==
  /\ LooksAt(i)
  /\ color[Target(i)] = "gray"
  /\ errors' = errors \cup {"Cycle"}
  /\ todo' = [todo EXCEPT ![Top] = @ \ {i}]
  /\ UNCHANGED <<graph, pc, color, stack, hasEnd>>

SeeBlack(i) ==
  /\ LooksAt(i)
  /\ color[Target(i)] = "black"
  /\ todo' = [todo EXCEPT ![Top] = @ \ {i}]
  /\ UNCHANGED <<graph, pc, errors, color, stack, hasEnd>>

SeeWhite(i) ==
  /\ LooksAt(i)
  /\ color[Target(i)] = "white"
  /\ Call(Target(i))
  /\ todo' = [todo EXCEPT ![Top] = @ \ {i}, ![Target(i)] = Out(Target(i))]
  /\ UNCHANGED <<graph, pc, errors>>

(* Mutant of Return: the node stays gray.                                  *)
ReturnLeavesGray ==
  /\ pc = "dfs" /\ stack # <<>>
  /\ todo[Top] = {}
  /\ stack' = SubSeq(stack, 1, Len(stack) - 1)
  /\ UNCHANGED <<graph, pc, errors, color, todo, hasEnd>>

Return ==
  /\ pc = "dfs" /\ stack # <<>>
  /\ todo[Top] = {}
  /\ color' = [color EXCEPT ![Top] = "black"]
  /\ stack' = SubSeq(stack, 1, Len(stack) - 1)
  /\ UNCHANGED <<graph, pc, errors, todo, hasEnd>>

(* Mutant of Conclude: any END will do.                                    *)
ConcludeOnAnyEnd ==
  /\ pc = "dfs" /\ stack = <<>>
  /\ errors' = errors \cup Raised("NoEnd", \A n \in Nodes : n.type # "END")
  /\ pc' = "done"
  /\ UNCHANGED <<graph, color, stack, todo, hasEnd>>

(* The outermost call has returned.                                        *)
Conclude ==
  /\ pc = "dfs" /\ stack = <<>>
  /\ errors' = errors \cup Raised("NoEnd", ~hasEnd)
  /\ pc' = "done"
  /\ UNCHANGED <<graph, color, stack, todo, hasEnd>>

ValidationNext ==
  \/ Reject \/ Scan
  \/ \E i \in DOMAIN graph.edges : SeeGray(i) \/ SeeBlack(i) \/ SeeWhite(i)
  \/ Return \/ Conclude

ValidationSpec == ValidationInit /\ [][ValidationNext]_validationVars

-----------------------------------------------------------------------------
(* What the verdict should be, said without a search: a set of ids is      *)
(* closed when no edge leaves it, what is reachable is in every closed set *)
(* that holds the TRIGGER, and a node is on a cycle when it is in every    *)
(* closed set that holds its successors.                                   *)

Succ(n) == {Target(i) : i \in Out(n)}

Closed(S) == \A n \in S : Succ(n) \subseteq S

Reachable(n) == \A S \in SUBSET Id : Root \in S /\ Closed(S) => n \in S

Below(m, n) == \A S \in SUBSET Id : Succ(n) \subseteq S /\ Closed(S) => m \in S

OnCycle(n) == Below(n, n)

(* The search is right about cycles: validateGraph reports one exactly     *)
(* when a cycle can be reached from the only TRIGGER.                      *)
CycleVerdict ==
  pc = "done" /\ graph.arrays /\ OneTrigger =>
    ("Cycle" \in errors <=> \E n \in Id : Reachable(n) /\ OnCycle(n))

(* It is right about the END: the error is there exactly when no END can   *)
(* be reached from the only TRIGGER.                                       *)
EndVerdict ==
  pc = "done" /\ graph.arrays /\ OneTrigger =>
    ("NoEnd" \in errors <=> ~\E n \in Id : Reachable(n) /\ IsEnd(n))

(* dfs recurses along a simple path: no call runs twice for one node, so   *)
(* its depth is bounded by the number of ids.                              *)
SimpleRecursion ==
  \A i, j \in DOMAIN stack : stack[i] = stack[j] => i = j

-----------------------------------------------------------------------------
(* The inductive invariant behind the two verdicts.                        *)

Searches == graph.arrays /\ OneTrigger

PhaseInv ==
  /\ pc = "scan" => errors = {} /\ \A n \in Id : color[n] = "white"
  /\ pc = "scan" \/ pc = "done" => stack = <<>>
  /\ pc = "scan" \/ ~Searches => hasEnd = FALSE
  /\ pc = "dfs" => Searches
  /\ pc # "scan" /\ Searches => color[Root] # "white"
  /\ pc # "done" => "NoEnd" \notin errors
  /\ pc = "done" /\ Searches => ("NoEnd" \in errors <=> ~hasEnd)
  /\ hasEnd <=> \E n \in Id : color[n] # "white" /\ IsEnd(n)

(* The gray nodes are the calls in progress, each below the ones that      *)
(* called it, and all that is colored is reachable.                        *)
StackInv ==
  /\ \A n \in Id : color[n] = "gray" <=> \E i \in DOMAIN stack : stack[i] = n
  /\ SimpleRecursion
  /\ \A i, j \in DOMAIN stack : i < j => Below(stack[j], stack[i])
  /\ \A n \in Id : color[n] # "white" => Reachable(n)

TodoInv ==
  \A n \in Id : color[n] # "white" =>
    /\ todo[n] \subseteq Out(n)
    /\ \A i \in Out(n) \ todo[n] : color[Target(i)] # "white"
    /\ color[n] = "black" => todo[n] = {}

(* Until a cycle is seen, edges lead from black to black and black nodes   *)
(* are on no cycle; an edge a call in progress has followed leads to a     *)
(* black node or to the call it made.                                      *)
CycleInv ==
  IF "Cycle" \in errors
    THEN \E n \in Id : Reachable(n) /\ OnCycle(n)
    ELSE /\ \A n \in Id : color[n] = "black" =>
              ~OnCycle(n) /\ \A m \in Succ(n) : color[m] = "black"
         /\ \A k \in DOMAIN stack : \A i \in Out(stack[k]) \ todo[stack[k]] :
              \/ color[Target(i)] = "black"
              \/ k < Len(stack) /\ stack[k + 1] = Target(i)

ValidationInv == ValidationTypeOK /\ PhaseInv /\ StackInv /\ TodoInv /\ CycleInv
=============================================================================
