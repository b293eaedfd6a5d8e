-------------------------- MODULE Workflows_proofs --------------------------
(***************************************************************************)
(* Proofs about the definitions of workflows.  The search of validateGraph *)
(* is right for every definition, of any size; and in the WorkflowsService *)
(* versions identify graphs, runs pair the version and the graph of one    *)
(* row, and the tables of nodes and edges mirror the definition.           *)
(***************************************************************************)
EXTENDS GraphValidation, WorkflowsService, SequenceTheorems, TLAPS

-----------------------------------------------------------------------------
(* The call stack.                                                         *)

LEMMA PushStack ==
  ASSUME NEW S, NEW s \in Seq(S), NEW v \in S, NEW t, t = Append(s, v)
  PROVE  /\ t \in Seq(S) /\ Len(t) = Len(s) + 1 /\ t[Len(t)] = v /\ t # <<>>
         /\ Len(s) \in Nat
         /\ DOMAIN s = 1..Len(s) /\ DOMAIN t = 1..(Len(s) + 1)
         /\ \A i \in 1..Len(s) : t[i] = s[i]
OBVIOUS

LEMMA PopStack ==
  ASSUME NEW S, NEW s \in Seq(S), s # <<>>
  PROVE  LET t == SubSeq(s, 1, Len(s) - 1)
         IN  /\ t \in Seq(S) /\ Len(t) = Len(s) - 1
             /\ \A i \in 1..(Len(s) - 1) : t[i] = s[i]
<1>1. Len(s) \in Nat \ {0} /\ DOMAIN s = 1..Len(s) /\ \A i \in 1..Len(s) : s[i] \in S
  BY EmptySeq
<1>. QED BY <1>1, SubSeqProperties

(* The ids and edges of a definition.                                      *)
LEMMA GraphFacts ==
  ASSUME graph \in Graphs
  PROVE  /\ \A i \in DOMAIN graph.edges : graph.edges[i].source \in Id /\ Target(i) \in Id
         /\ OneTrigger => Root \in Id
         /\ \A n : Out(n) \subseteq DOMAIN graph.edges
         /\ \A n : Succ(n) \subseteq Id
<1>1. graph.nodes \in Seq(Node) /\ graph.edges \in Seq(Edge)
  BY GraphsAssumption DEF Graph
<1>2. \A i \in DOMAIN graph.edges : graph.edges[i].source \in Id /\ Target(i) \in Id
  <2>1. ASSUME NEW i \in DOMAIN graph.edges
        PROVE  graph.edges[i] \in Edge
    BY <1>1
  <2>. QED BY <2>1 DEF Edge, Target
<1>3. OneTrigger => Root \in Id
  <2>1. Triggers \subseteq DOMAIN graph.nodes
    BY DEF Triggers
  <2>2. OneTrigger => (CHOOSE i \in Triggers : TRUE) \in DOMAIN graph.nodes
    BY <2>1 DEF OneTrigger
  <2>3. ASSUME NEW i \in DOMAIN graph.nodes
        PROVE  graph.nodes[i] \in Node
    BY <1>1
  <2>. QED BY <2>2, <2>3 DEF Root, Node
<1>. QED BY <1>2, <1>3 DEF Out, Succ

(* The definition does not change, nor does anything read off it.          *)
LEMMA GraphFixed ==
  ASSUME graph' = graph
  PROVE  /\ \A i : Target(i)' = Target(i)
         /\ \A n : Out(n)' = Out(n) /\ Succ(n)' = Succ(n) /\ IsEnd(n)' = IsEnd(n)
         /\ \A n, m : Below(m, n)' = Below(m, n)
         /\ \A n : OnCycle(n)' = OnCycle(n) /\ Reachable(n)' = Reachable(n)
         /\ Root' = Root /\ OneTrigger' = OneTrigger /\ Searches' = Searches
BY DEF Target, Out, Succ, IsEnd, Below, OnCycle, Reachable, Closed, Root, OneTrigger, Triggers,
       Searches

(* What lies on the way stays below.                                       *)
LEMMA SuccBelow ==
  ASSUME NEW u \in Id, NEW v \in Succ(u)
  PROVE  Below(v, u)
BY DEF Below

LEMMA BelowTransitive ==
  ASSUME NEW u \in Id, NEW v \in Id, NEW w \in Id, Below(v, u), w \in Succ(v)
  PROVE  Below(w, u)
BY DEF Below, Closed

LEMMA ReachableSucc ==
  ASSUME NEW u \in Id, Reachable(u), NEW v \in Succ(u)
  PROVE  Reachable(v)
BY DEF Reachable, Closed

-----------------------------------------------------------------------------

LEMMA SearchInit == ValidationInit => ValidationInv
<1> SUFFICES ASSUME ValidationInit PROVE ValidationInv
  OBVIOUS
<1>1. stack \in Seq(Id) /\ DOMAIN stack = {}
  BY DEF ValidationInit
<1>2. ValidationTypeOK
  BY <1>1 DEF ValidationInit, ValidationTypeOK
<1>. QED
  BY <1>1, <1>2 DEF ValidationInit, ValidationInv, PhaseInv, StackInv, TodoInv, CycleInv, SimpleRecursion

(* A call on a white node v: the only one, or from the running call along  *)
(* edge i.                                                                 *)
LEMMA CallPreserves ==
  ASSUME ValidationInv, NEW v \in Id, color[v] = "white", Call(v), UNCHANGED graph, Reachable(v),
         Searches, pc' = "dfs",
         errors' \subseteq ScanError \cup {"Cycle"},
         "Cycle" \in errors' <=> "Cycle" \in errors,
         todo' \in [Id -> SUBSET DOMAIN graph.edges],
         \A n \in Id \ {v} : color[n] # "white" =>
            /\ todo'[n] \subseteq todo[n]
            /\ \A i \in todo[n] \ todo'[n] :
                 stack # <<>> /\ n = Top /\ Target(i) = v /\ i \in Out(n),
         todo'[v] = Out(v),
         stack # <<>> => v \in Succ(Top),
         v = Root \/ color[Root] # "white"
  PROVE  ValidationInv'
<1>0. /\ stack \in Seq(Id) /\ stack' \in Seq(Id) /\ stack' # <<>>
      /\ Len(stack) \in Nat /\ Len(stack') = Len(stack) + 1
      /\ stack'[Len(stack) + 1] = v
      /\ DOMAIN stack = 1..Len(stack) /\ DOMAIN stack' = 1..(Len(stack) + 1)
      /\ \A i \in 1..Len(stack) : stack'[i] = stack[i] /\ stack[i] \in Id
  <2>1. stack \in Seq(Id) /\ stack' = Append(stack, v)
    BY DEF ValidationInv, ValidationTypeOK, Call
  <2>2. \A i \in 1..Len(stack) : stack[i] \in Id
    BY <2>1
  <2>. QED BY <2>1, <2>2, PushStack
<1>1. /\ color \in [Id -> {"white", "gray", "black"}]
      /\ color' \in [Id -> {"white", "gray", "black"}]
      /\ color'[v] = "gray" /\ \A n \in Id \ {v} : color'[n] = color[n]
  BY DEF ValidationInv, ValidationTypeOK, Call
<1>2. graph' = graph /\ graph \in Graphs
  BY DEF ValidationInv, ValidationTypeOK
<1>3. stack # <<>> => Len(stack) \in 1..Len(stack) /\ Top = stack[Len(stack)]
  BY <1>0 DEF Top
<1>4. /\ Target(0)' = Target(0) /\ \A i : Target(i)' = Target(i)
      /\ \A n : Out(n)' = Out(n) /\ Succ(n)' = Succ(n) /\ IsEnd(n)' = IsEnd(n)
      /\ \A n, m : Below(m, n)' = Below(m, n)
      /\ \A n : OnCycle(n)' = OnCycle(n) /\ Reachable(n)' = Reachable(n)
      /\ Root' = Root /\ OneTrigger' = OneTrigger /\ Searches' = Searches
  BY <1>2, GraphFixed
<1>5. ValidationTypeOK'
  BY <1>0, <1>1, <1>2 DEF ValidationInv, ValidationTypeOK, Call
<1>6. PhaseInv'
  <2>1. hasEnd' <=> \E n \in Id : color'[n] # "white" /\ IsEnd(n)
    BY <1>1 DEF ValidationInv, PhaseInv, Call
  <2>2. color'[Root] # "white"
    BY <1>1, <1>2, GraphFacts DEF Searches
  <2>. QED BY <1>4, <2>1, <2>2 DEF PhaseInv, ScanError
<1>7. StackInv'
  <2>1. \A n \in Id : color'[n] = "gray" <=> \E i \in DOMAIN stack' : stack'[i] = n
    BY <1>0, <1>1 DEF ValidationInv, StackInv
  <2>2. SimpleRecursion'
    <3>1. \A i \in 1..Len(stack) : stack[i] # v
      BY <1>0 DEF ValidationInv, StackInv
    <3>. QED BY <1>0, <3>1 DEF ValidationInv, StackInv, SimpleRecursion
  <2>3. ASSUME NEW i \in DOMAIN stack', NEW j \in DOMAIN stack', i < j
        PROVE  Below(stack'[j], stack'[i])
    <3>1. CASE j \in 1..Len(stack)
      BY <1>0, <2>3, <3>1 DEF ValidationInv, StackInv
    <3>2. CASE j = Len(stack) + 1
      <4>1. i \in 1..Len(stack) /\ stack # <<>> /\ v \in Succ(Top)
        BY <1>0, <2>3, <3>2
      <4>2. CASE i = Len(stack)
        BY <1>0, <1>3, <3>2, <4>1, <4>2, SuccBelow
      <4>3. CASE i < Len(stack)
        <5>1. Below(Top, stack[i])
          BY <1>0, <1>3, <4>1, <4>3 DEF ValidationInv, StackInv
        <5>. QED BY <1>0, <1>3, <3>2, <4>1, <5>1, BelowTransitive
      <4>. QED BY <1>0, <4>1, <4>2, <4>3
    <3>. QED BY <1>0, <3>1, <3>2
  <2>4. \A n \in Id : color'[n] # "white" => Reachable(n)
    BY <1>1 DEF ValidationInv, StackInv
  <2>. QED BY <1>4, <2>1, <2>2, <2>3, <2>4 DEF StackInv
<1>8. TodoInv'
  <2>1. ASSUME NEW n \in Id, color'[n] # "white"
        PROVE  /\ todo'[n] \subseteq Out(n)
               /\ \A i \in Out(n) \ todo'[n] : color'[Target(i)] # "white"
               /\ color'[n] = "black" => todo'[n] = {}
    <3>1. CASE n = v
      BY <1>1, <3>1
    <3>2. CASE n # v
      <4>1. color[n] # "white" /\ color'[n] = color[n]
        BY <1>1, <2>1, <3>2
      <4>2. ASSUME NEW i \in Out(n) \ todo'[n]
            PROVE  color'[Target(i)] # "white"
        <5>1. Target(i) \in Id
          BY <1>2, GraphFacts
        <5>2. CASE i \in todo[n]
          BY <1>1, <3>2, <4>1, <4>2, <5>2
        <5>3. CASE i \notin todo[n]
          <6>1. color[Target(i)] # "white"
            BY <4>1, <4>2, <5>3 DEF ValidationInv, TodoInv
          <6>. QED BY <1>1, <5>1, <6>1
        <5>. QED BY <5>2, <5>3
      <4>3. color'[n] = "black" => todo'[n] = {}
        BY <3>2, <4>1 DEF ValidationInv, TodoInv
      <4>4. todo'[n] \subseteq Out(n)
        BY <3>2, <4>1 DEF ValidationInv, TodoInv
      <4>. QED BY <4>2, <4>3, <4>4
    <3>. QED BY <3>1, <3>2
  <2>. QED BY <1>4, <2>1 DEF TodoInv
<1>9. CycleInv'
  <2>1. CASE "Cycle" \in errors
    BY <1>4, <2>1 DEF ValidationInv, CycleInv
  <2>2. CASE "Cycle" \notin errors
    <3>1. ASSUME NEW n \in Id, color'[n] = "black"
          PROVE  ~OnCycle(n) /\ \A m \in Succ(n) : color'[m] = "black"
      <4>1. color[n] = "black" /\ Succ(n) \subseteq Id
        BY <1>1, <1>2, <3>1, GraphFacts
      <4>. QED BY <1>1, <2>2, <4>1 DEF ValidationInv, CycleInv
    <3>2. ASSUME NEW k \in DOMAIN stack', NEW i \in Out(stack'[k]) \ todo'[stack'[k]]
          PROVE  \/ color'[Target(i)] = "black"
                 \/ k < Len(stack') /\ stack'[k + 1] = Target(i)
      <4>1. CASE k = Len(stack) + 1
        BY <1>0, <3>2, <4>1
      <4>2. CASE k \in 1..Len(stack)
        <5>1. stack'[k] = stack[k] /\ color[stack[k]] = "gray" /\ stack[k] # v /\ Target(i) \in Id
          BY <1>0, <1>2, <3>2, <4>2, GraphFacts DEF ValidationInv, StackInv
        <5>2. CASE i \in todo[stack[k]]
          <6>1. stack # <<>> /\ stack[k] = Top /\ Target(i) = v
            BY <1>0, <3>2, <4>2, <5>1, <5>2
          <6>2. k = Len(stack)
            BY <1>0, <1>3, <4>2, <6>1 DEF ValidationInv, StackInv, SimpleRecursion
          <6>. QED BY <1>0, <6>1, <6>2
        <5>3. CASE i \notin todo[stack[k]]
          <6>1. color[Target(i)] = "black" \/ (k < Len(stack) /\ stack[k + 1] = Target(i))
            BY <1>0, <2>2, <3>2, <4>2, <5>1, <5>3 DEF ValidationInv, CycleInv
          <6>2. color[Target(i)] = "black" => color'[Target(i)] = "black"
            BY <1>1, <5>1
          <6>3. k < Len(stack) => stack'[k + 1] = stack[k + 1] /\ k < Len(stack')
            BY <1>0, <4>2
          <6>. QED BY <6>1, <6>2, <6>3
        <5>. QED BY <5>2, <5>3
      <4>. QED BY <1>0, <4>1, <4>2
    <3>. QED BY <1>4, <2>2, <3>1, <3>2 DEF CycleInv
  <2>. QED BY <2>1, <2>2
<1>. QED BY <1>5, <1>6, <1>7, <1>8, <1>9 DEF ValidationInv

-----------------------------------------------------------------------------
(* Steps of the search that make no call and return from none: the running *)
(* call has seen edge i.                                                   *)
LEMMA SeePreserves ==
  ASSUME ValidationInv, NEW i \in DOMAIN graph.edges, SeeGray(i) \/ SeeBlack(i)
  PROVE  ValidationInv'
<1>0. /\ stack \in Seq(Id) /\ stack # <<>> /\ stack' = stack /\ pc = "dfs" /\ pc' = pc
      /\ Len(stack) \in DOMAIN stack /\ Top = stack[Len(stack)] /\ Top \in Id
      /\ DOMAIN stack = 1..Len(stack) /\ Len(stack) \in Nat
      /\ graph' = graph /\ graph \in Graphs /\ color' = color /\ hasEnd' = hasEnd
      /\ todo \in [Id -> SUBSET DOMAIN graph.edges]
      /\ todo' = [todo EXCEPT ![Top] = todo[Top] \ {i}]
      /\ i \in todo[Top] /\ Target(i) \in Id
  <2>1. /\ stack \in Seq(Id) /\ stack # <<>> /\ stack' = stack /\ pc = "dfs" /\ pc' = pc
        /\ graph' = graph /\ graph \in Graphs /\ color' = color /\ hasEnd' = hasEnd
        /\ todo \in [Id -> SUBSET DOMAIN graph.edges]
        /\ todo' = [todo EXCEPT ![Top] = todo[Top] \ {i}]
        /\ i \in todo[Top]
    BY DEF SeeGray, SeeBlack, LooksAt, ValidationInv, ValidationTypeOK
  <2>2. Len(stack) \in 1..Len(stack) /\ DOMAIN stack = 1..Len(stack) /\ Len(stack) \in Nat
    BY <2>1, EmptySeq
  <2>. QED BY <2>1, <2>2, GraphFacts DEF Top
<1>1. /\ \A j : Target(j)' = Target(j)
      /\ \A n : Out(n)' = Out(n) /\ Succ(n)' = Succ(n) /\ IsEnd(n)' = IsEnd(n)
      /\ \A n, m : Below(m, n)' = Below(m, n)
      /\ \A n : OnCycle(n)' = OnCycle(n) /\ Reachable(n)' = Reachable(n)
      /\ Root' = Root /\ OneTrigger' = OneTrigger /\ Searches' = Searches
  BY <1>0, GraphFixed
<1>2. errors' = errors \/ errors' = errors \cup {"Cycle"}
  BY DEF SeeGray, SeeBlack
<1>3. ValidationTypeOK'
  <2>1. todo' \in [Id -> SUBSET DOMAIN graph.edges]
    BY <1>0
  <2>. QED BY <1>0, <1>2, <2>1 DEF ValidationInv, ValidationTypeOK
<1>4. PhaseInv'
  BY <1>0, <1>1, <1>2 DEF ValidationInv, PhaseInv
<1>5. StackInv'
  BY <1>0, <1>1 DEF ValidationInv, StackInv, SimpleRecursion
<1>6. color[Top] = "gray" /\ color[Target(i)] \in {"gray", "black"} /\ Target(i) \in Succ(Top)
  <2>1. color[Top] = "gray"
    BY <1>0 DEF ValidationInv, StackInv
  <2>2. i \in Out(Top)
    BY <1>0, <2>1 DEF ValidationInv, TodoInv
  <2>. QED BY <2>1, <2>2 DEF Succ, SeeGray, SeeBlack
<1>7. TodoInv'
  BY <1>0, <1>1, <1>6 DEF ValidationInv, TodoInv
<1>8. CycleInv'
  <2>1. CASE "Cycle" \in errors
    BY <1>0, <1>1, <1>2, <2>1 DEF ValidationInv, CycleInv
  <2>2. CASE SeeGray(i) /\ "Cycle" \notin errors
    <3>1. PICK k \in DOMAIN stack : stack[k] = Target(i)
      BY <1>0, <2>2 DEF SeeGray, ValidationInv, StackInv
    <3>2. Reachable(Target(i)) /\ OnCycle(Target(i))
      <4>1. Reachable(Target(i))
        BY <1>0, <1>6, <2>2 DEF SeeGray, ValidationInv, StackInv
      <4>2. CASE k = Len(stack)
        <5>1. Target(i) = Top /\ Top \in Id /\ Top \in Succ(Top)
          BY <1>0, <1>6, <3>1, <4>2
        <5>2. Below(Top, Top)
          BY <5>1, SuccBelow
        <5>. QED BY <4>1, <5>1, <5>2 DEF OnCycle
      <4>3. CASE k < Len(stack)
        <5>1. Below(Top, Target(i))
          BY <1>0, <3>1, <4>3 DEF ValidationInv, StackInv
        <5>2. Target(i) \in Id /\ Top \in Id /\ Target(i) \in Succ(Top)
          BY <1>0, <1>6
        <5>3. Below(Target(i), Target(i))
          BY <5>1, <5>2, BelowTransitive
        <5>. QED BY <4>1, <5>3 DEF OnCycle
      <4>. QED BY <1>0, <3>1, <4>1, <4>2, <4>3
    <3>. QED BY <1>0, <1>1, <2>2, <3>2 DEF SeeGray, CycleInv
  <2>3. CASE SeeBlack(i) /\ "Cycle" \notin errors
    <3>1. color[Target(i)] = "black" /\ errors' = errors
      BY <2>3 DEF SeeBlack
    <3>2. ASSUME NEW k \in DOMAIN stack, NEW j \in Out(stack[k]) \ todo'[stack[k]]
          PROVE  \/ color[Target(j)] = "black"
                 \/ k < Len(stack) /\ stack[k + 1] = Target(j)
      <4>1. CASE j = i
        BY <3>1, <4>1
      <4>2. CASE j # i
        <5>1. j \notin todo[stack[k]]
          BY <1>0, <3>2, <4>2
        <5>. QED BY <2>3, <3>2, <5>1 DEF ValidationInv, CycleInv
      <4>. QED BY <4>1, <4>2
    <3>. QED BY <1>0, <1>1, <2>3, <3>1, <3>2 DEF ValidationInv, CycleInv
  <2>. QED BY <2>1, <2>2, <2>3
<1>. QED BY <1>3, <1>4, <1>5, <1>7, <1>8 DEF ValidationInv

(* The running call returns: its node is black and on no cycle, unless one *)
(* was seen, since the black nodes form a closed set that does not hold it.*)
LEMMA ReturnPreserves ==
  ASSUME ValidationInv, Return
  PROVE  ValidationInv'
<1>0. /\ stack \in Seq(Id) /\ stack # <<>> /\ pc = "dfs" /\ pc' = pc
      /\ stack' \in Seq(Id) /\ Len(stack') = Len(stack) - 1
      /\ DOMAIN stack = 1..Len(stack) /\ DOMAIN stack' = 1..(Len(stack) - 1)
      /\ Len(stack) \in Nat \ {0} /\ Len(stack) \in DOMAIN stack
      /\ Top = stack[Len(stack)] /\ Top \in Id
      /\ \A k \in 1..(Len(stack) - 1) : stack'[k] = stack[k]
      /\ graph' = graph /\ graph \in Graphs /\ hasEnd' = hasEnd /\ errors' = errors /\ todo' = todo
      /\ color \in [Id -> {"white", "gray", "black"}]
      /\ color' \in [Id -> {"white", "gray", "black"}]
      /\ color'[Top] = "black" /\ \A n \in Id \ {Top} : color'[n] = color[n]
      /\ todo[Top] = {}
  <2>1. /\ stack \in Seq(Id) /\ stack # <<>> /\ pc = "dfs" /\ pc' = pc
        /\ stack' = SubSeq(stack, 1, Len(stack) - 1)
        /\ graph' = graph /\ graph \in Graphs /\ hasEnd' = hasEnd /\ errors' = errors
        /\ todo' = todo
        /\ color \in [Id -> {"white", "gray", "black"}]
        /\ color' = [color EXCEPT ![Top] = "black"] /\ todo[Top] = {}
    BY DEF Return, ValidationInv, ValidationTypeOK
  <2>2. /\ stack' \in Seq(Id) /\ Len(stack') = Len(stack) - 1
        /\ DOMAIN stack = 1..Len(stack) /\ DOMAIN stack' = 1..(Len(stack) - 1)
        /\ Len(stack) \in Nat \ {0}
        /\ \A k \in 1..(Len(stack) - 1) : stack'[k] = stack[k]
    <3>1. stack \in Seq(Id) /\ stack # <<>> /\ stack' = SubSeq(stack, 1, Len(stack) - 1)
      BY <2>1
    <3>2. Len(stack) \in Nat \ {0}
      BY <3>1, EmptySeq
    <3>3. /\ stack' \in Seq(Id) /\ Len(stack') = Len(stack) - 1
          /\ \A k \in 1..(Len(stack) - 1) : stack'[k] = stack[k]
      BY <3>1, PopStack, Zenon
    <3>. QED BY <3>1, <3>2, <3>3
  <2>3. Len(stack) \in DOMAIN stack /\ Top = stack[Len(stack)] /\ Top \in Id
    BY <2>1, <2>2 DEF Top
  <2>. QED BY <2>1, <2>2, <2>3
<1>1. /\ \A j : Target(j)' = Target(j)
      /\ \A n : Out(n)' = Out(n) /\ Succ(n)' = Succ(n) /\ IsEnd(n)' = IsEnd(n)
      /\ \A n, m : Below(m, n)' = Below(m, n)
      /\ \A n : OnCycle(n)' = OnCycle(n) /\ Reachable(n)' = Reachable(n)
      /\ Root' = Root /\ OneTrigger' = OneTrigger /\ Searches' = Searches
  BY <1>0, GraphFixed
<1>2. color[Top] = "gray" /\ \A n \in Id : Succ(n) \subseteq Id
  BY <1>0, GraphFacts DEF ValidationInv, StackInv
<1>3. ValidationTypeOK'
  BY <1>0 DEF ValidationInv, ValidationTypeOK
<1>4. \A n \in Id : color'[n] = "white" <=> color[n] = "white"
  BY <1>0, <1>2
<1>5. PhaseInv'
  <2>1. Searches => Root \in Id
    BY <1>0, GraphFacts DEF Searches
  <2>. QED BY <1>0, <1>1, <1>4, <2>1 DEF ValidationInv, PhaseInv
<1>6. StackInv'
  <2>1. \A k \in 1..(Len(stack) - 1) : stack[k] # Top
    BY SMTT(30), <1>0 DEF ValidationInv, StackInv, SimpleRecursion
  <2>2. \A n \in Id : color'[n] = "gray" <=> \E k \in DOMAIN stack' : stack'[k] = n
    <3>1. ASSUME NEW n \in Id, color'[n] = "gray"
          PROVE  \E k \in DOMAIN stack' : stack'[k] = n
      <4>1. n # Top /\ color[n] = "gray"
        BY <1>0, <3>1
      <4>2. PICK k \in DOMAIN stack : stack[k] = n
        BY <4>1 DEF ValidationInv, StackInv
      <4>3. k \in 1..(Len(stack) - 1)
        BY <1>0, <4>1, <4>2
      <4>. QED BY <1>0, <4>2, <4>3
    <3>2. ASSUME NEW n \in Id, NEW k \in DOMAIN stack', stack'[k] = n
          PROVE  color'[n] = "gray"
      <4>1. k \in DOMAIN stack /\ stack[k] = n /\ n # Top
        BY <1>0, <2>1, <3>2
      <4>. QED BY <1>0, <4>1 DEF ValidationInv, StackInv
    <3>. QED BY <3>1, <3>2
  <2>3. SimpleRecursion'
    BY SMTT(30), <1>0 DEF ValidationInv, StackInv, SimpleRecursion
  <2>4. ASSUME NEW k \in DOMAIN stack', NEW l \in DOMAIN stack', k < l
        PROVE  Below(stack'[l], stack'[k])
    <3>1. k \in DOMAIN stack /\ l \in DOMAIN stack /\ stack'[k] = stack[k] /\ stack'[l] = stack[l]
      BY <1>0
    <3>2. Below(stack[l], stack[k])
      BY <2>4, <3>1 DEF ValidationInv, StackInv
    <3>. QED BY <3>1, <3>2
  <2>5. \A n \in Id : color'[n] # "white" => Reachable(n)
    BY <1>4 DEF ValidationInv, StackInv
  <2>. QED BY <1>1, <2>2, <2>3, <2>4, <2>5 DEF StackInv
<1>7. TodoInv'
  <2>1. ASSUME NEW n \in Id, color[n] # "white", NEW i \in Out(n) \ todo[n]
        PROVE  color'[Target(i)] # "white"
    <3>1. color[Target(i)] # "white" /\ Target(i) \in Id
      BY <1>0, <2>1, GraphFacts DEF ValidationInv, TodoInv
    <3>. QED BY <1>4, <3>1
  <2>2. ASSUME NEW n \in Id, color'[n] = "black"
        PROVE  todo[n] = {}
    BY <1>0, <2>2 DEF ValidationInv, TodoInv
  <2>3. \A n \in Id : color[n] # "white" => todo[n] \subseteq Out(n)
    BY DEF ValidationInv, TodoInv
  <2>. QED BY <1>0, <1>1, <1>4, <2>1, <2>2, <2>3 DEF TodoInv
<1>8. CycleInv'
  <2>1. CASE "Cycle" \in errors
    BY <1>0, <1>1, <2>1 DEF ValidationInv, CycleInv
  <2>2. CASE "Cycle" \notin errors
    <3> DEFINE Black == {n \in Id : color[n] = "black"}
    <3>1. Black \in SUBSET Id /\ Closed(Black) /\ Top \notin Black
      BY <1>0, <1>2, <2>2 DEF ValidationInv, CycleInv, Closed
    <3>2. Succ(Top) \subseteq Black
      <4>1. ASSUME NEW i \in Out(Top)
            PROVE  Target(i) \in Black
        <5>1. i \in Out(stack[Len(stack)]) \ todo[stack[Len(stack)]]
          BY <1>0, <4>1
        <5>2. color[Target(i)] = "black"
          BY <1>0, <2>2, <5>1 DEF ValidationInv, CycleInv
        <5>3. Target(i) \in Id
          BY <1>0, <4>1, GraphFacts
        <5>. QED BY <5>2, <5>3
      <4>. QED BY <4>1 DEF Succ
    <3>3. ~OnCycle(Top)
      BY <3>1, <3>2 DEF OnCycle, Below
    <3>4. ASSUME NEW n \in Id, color'[n] = "black"
          PROVE  ~OnCycle(n) /\ \A m \in Succ(n) : color'[m] = "black"
      <4>1. CASE n = Top
        BY <1>0, <3>2, <3>3, <4>1
      <4>2. CASE n # Top
        <5>1. color[n] = "black"
          BY <1>0, <3>4, <4>2
        <5>2. ~OnCycle(n) /\ \A m \in Succ(n) : color[m] = "black"
          BY <2>2, <5>1 DEF ValidationInv, CycleInv
        <5>. QED BY <1>0, <1>2, <5>2
      <4>. QED BY <4>1, <4>2
    <3>5. ASSUME NEW k \in DOMAIN stack', NEW i \in Out(stack'[k]) \ todo[stack'[k]]
          PROVE  \/ color'[Target(i)] = "black"
                 \/ k < Len(stack') /\ stack'[k + 1] = Target(i)
      <4>1. k \in DOMAIN stack /\ stack'[k] = stack[k] /\ k < Len(stack) /\ Target(i) \in Id
        BY <1>0, <3>5, GraphFacts
      <4>2. color[Target(i)] = "black" \/ stack[k + 1] = Target(i)
        BY <2>2, <3>5, <4>1 DEF ValidationInv, CycleInv
      <4>3. CASE color[Target(i)] = "black"
        BY <1>0, <4>1, <4>3
      <4>4. CASE stack[k + 1] = Target(i) /\ k + 1 = Len(stack)
        BY <1>0, <4>4
      <4>5. CASE stack[k + 1] = Target(i) /\ k + 1 # Len(stack)
        BY <1>0, <4>1, <4>5
      <4>. QED BY <4>2, <4>3, <4>4, <4>5
    <3>. QED BY <1>0, <1>1, <2>2, <3>4, <3>5 DEF CycleInv
  <2>. QED BY <2>1, <2>2
<1>. QED BY <1>3, <1>5, <1>6, <1>7, <1>8 DEF ValidationInv

(* The first call, on the TRIGGER, or a verdict without a search.          *)
LEMMA ScanPreserves ==
  ASSUME ValidationInv, Reject \/ Scan
  PROVE  ValidationInv'
<1>1. /\ graph' = graph /\ graph \in Graphs /\ pc = "scan" /\ stack = <<>>
      /\ \A n \in Id : color[n] = "white" /\ hasEnd = FALSE
      /\ todo \in [Id -> SUBSET DOMAIN graph.edges] /\ stack \in Seq(Id)
      /\ color \in [Id -> {"white", "gray", "black"}]
  BY DEF Reject, Scan, ValidationInv, ValidationTypeOK, PhaseInv
<1>2. errors' \subseteq ScanError
  BY DEF Reject, Scan, ScanErrors, Raised, ScanError
<1>3. CASE Scan /\ OneTrigger
  <2>1. /\ Call(Root) /\ pc' = "dfs" /\ Searches /\ todo' = [todo EXCEPT ![Root] = Out(Root)]
        /\ Root \in Id /\ Out(Root) \in SUBSET DOMAIN graph.edges
    BY <1>1, <1>3, GraphFacts DEF Scan, Searches
  <2>2. /\ todo' \in [Id -> SUBSET DOMAIN graph.edges] /\ todo'[Root] = Out(Root)
        /\ \A n \in Id \ {Root} : todo'[n] = todo[n]
    BY <1>1, <2>1
  <2>3. Reachable(Root)
    BY DEF Reachable
  <2>4. "Cycle" \notin errors' /\ "Cycle" \notin errors
    BY <1>1, <1>2 DEF ValidationInv, PhaseInv, ScanError
  <2>5. errors' \subseteq ScanError \cup {"Cycle"} /\ color[Root] = "white"
    BY <1>1, <1>2, <2>1
  <2>. QED BY <1>1, <2>1, <2>2, <2>3, <2>4, <2>5, CallPreserves
<1>4. CASE Reject \/ ~OneTrigger
  <2>1. /\ pc' = "done" /\ UNCHANGED <<graph, color, stack, todo, hasEnd>> /\ ~Searches
    BY <1>4 DEF Reject, Scan, Searches
  <2>2. DOMAIN stack = {}
    BY <1>1
  <2>3. "Cycle" \notin errors'
    BY <1>2 DEF ScanError
  <2>4. Searches' = Searches /\ Root' = Root /\ \A n \in Id : IsEnd(n)' = IsEnd(n)
    BY <2>1 DEF Searches, OneTrigger, Triggers, Root, IsEnd
  <2>5. ValidationTypeOK' /\ PhaseInv'
    BY <1>1, <1>2, <2>1, <2>4 DEF ValidationInv, ValidationTypeOK, PhaseInv
  <2>6. StackInv' /\ TodoInv'
    BY <1>1, <2>1, <2>2 DEF StackInv, SimpleRecursion, TodoInv
  <2>7. CycleInv'
    BY <1>1, <2>1, <2>2, <2>3 DEF CycleInv
  <2>. QED BY <2>5, <2>6, <2>7 DEF ValidationInv
<1>. QED BY <1>3, <1>4

LEMMA SeeWhitePreserves ==
  ASSUME ValidationInv, NEW i \in DOMAIN graph.edges, SeeWhite(i)
  PROVE  ValidationInv'
<1> DEFINE v == Target(i)
<1>0. /\ stack \in Seq(Id) /\ stack # <<>> /\ graph' = graph /\ graph \in Graphs
      /\ pc = "dfs" /\ pc' = "dfs" /\ errors' = errors /\ Searches
      /\ todo \in [Id -> SUBSET DOMAIN graph.edges]
      /\ todo' = [todo EXCEPT ![Top] = todo[Top] \ {i}, ![v] = Out(v)]
      /\ i \in todo[Top] /\ color[v] = "white" /\ Call(v)
  BY DEF SeeWhite, LooksAt, ValidationInv, ValidationTypeOK, PhaseInv
<1>1. Len(stack) \in 1..Len(stack) /\ DOMAIN stack = 1..Len(stack) /\ Top \in Id
  BY <1>0, EmptySeq DEF Top
<1>2. color[Top] = "gray"
  BY <1>1 DEF ValidationInv, StackInv, Top
<1>3. v \in Id /\ v # Top /\ Out(v) \in SUBSET DOMAIN graph.edges
  BY <1>0, <1>2, GraphFacts
<1>4. i \in Out(Top) /\ v \in Succ(Top) /\ Reachable(Top)
  BY <1>0, <1>1, <1>2 DEF ValidationInv, TodoInv, StackInv, Succ
<1>5. Reachable(v)
  BY <1>1, <1>4, ReachableSucc
<1>6. todo' \in [Id -> SUBSET DOMAIN graph.edges] /\ todo'[v] = Out(v)
  BY <1>0, <1>1, <1>3
<1>7. ASSUME NEW n \in Id \ {v}, color[n] # "white"
      PROVE  /\ todo'[n] \subseteq todo[n]
             /\ \A j \in todo[n] \ todo'[n] :
                  stack # <<>> /\ n = Top /\ Target(j) = v /\ j \in Out(n)
  BY <1>0, <1>1, <1>3, <1>4
<1>8. color[Root] # "white"
  BY <1>0 DEF ValidationInv, PhaseInv
<1>9. errors' \subseteq ScanError \cup {"Cycle"}
  BY <1>0 DEF ValidationInv, ValidationTypeOK, PhaseInv
<1> HIDE DEF v
<1>. QED BY <1>0, <1>3, <1>4, <1>5, <1>6, <1>7, <1>8, <1>9, CallPreserves

LEMMA ConcludePreserves ==
  ASSUME ValidationInv, Conclude
  PROVE  ValidationInv'
<1>1. /\ pc = "dfs" /\ pc' = "done" /\ stack = <<>>
      /\ UNCHANGED <<graph, color, stack, todo, hasEnd>>
      /\ errors' = errors \cup (IF ~hasEnd THEN {"NoEnd"} ELSE {})
  BY DEF Conclude, Raised
<1>2. ValidationTypeOK'
  BY <1>1 DEF ValidationInv, ValidationTypeOK
<1>3. /\ \A n : Out(n)' = Out(n) /\ IsEnd(n)' = IsEnd(n) /\ Succ(n)' = Succ(n)
      /\ \A n, m : Below(m, n)' = Below(m, n)
      /\ \A n : OnCycle(n)' = OnCycle(n) /\ Reachable(n)' = Reachable(n)
      /\ \A i : Target(i)' = Target(i)
      /\ Root' = Root /\ Searches' = Searches
  BY <1>1, GraphFixed
<1>4. PhaseInv'
  BY <1>1, <1>3 DEF ValidationInv, PhaseInv
<1>5. StackInv' /\ TodoInv'
  BY <1>1, <1>3 DEF ValidationInv, StackInv, SimpleRecursion, TodoInv
<1>6. CycleInv'
  <2>1. "Cycle" \in errors' <=> "Cycle" \in errors
    BY <1>1
  <2>. QED BY <1>1, <1>3, <2>1 DEF ValidationInv, CycleInv
<1>. QED BY <1>2, <1>4, <1>5, <1>6 DEF ValidationInv

LEMMA SearchNext == ValidationInv /\ [ValidationNext]_validationVars => ValidationInv'
<1> SUFFICES ASSUME ValidationInv, [ValidationNext]_validationVars PROVE ValidationInv'
  OBVIOUS
<1>1. CASE UNCHANGED validationVars
  <2>1. UNCHANGED <<graph, pc, errors, color, stack, todo, hasEnd>>
    BY <1>1 DEF validationVars
  <2>2. ValidationTypeOK'
    BY <2>1 DEF ValidationInv, ValidationTypeOK
  <2>3. PhaseInv'
    BY <2>1, GraphFixed DEF ValidationInv, PhaseInv
  <2>4. StackInv' /\ TodoInv' /\ CycleInv'
    BY <2>1, GraphFixed DEF ValidationInv, StackInv, SimpleRecursion, TodoInv, CycleInv
  <2>. QED BY <2>2, <2>3, <2>4 DEF ValidationInv
<1>. QED
  BY <1>1, ScanPreserves, SeePreserves, SeeWhitePreserves, ReturnPreserves, ConcludePreserves
  DEF ValidationNext

(* The inductive invariant holds of every run on every definition.         *)
THEOREM SearchInvariance == ValidationSpec => []ValidationInv
<1>. QED BY SearchInit, SearchNext, PTL DEF ValidationSpec

(* Every variable keeps its type.                                          *)
THEOREM SearchTypeCorrect == ValidationSpec => []ValidationTypeOK
<1>1. ValidationInv => ValidationTypeOK
  BY DEF ValidationInv
<1>. QED BY <1>1, SearchInvariance, PTL

(* The recursion of dfs is a simple path.                                  *)
THEOREM RecursionIsSimple == ValidationSpec => []SimpleRecursion
<1>1. ValidationInv => SimpleRecursion
  BY DEF ValidationInv, StackInv
<1>. QED BY <1>1, SearchInvariance, PTL

(* When the search is over, the colored nodes are the reachable ones.      *)
LEMMA ColoredIsReachable ==
  ASSUME ValidationInv, pc = "done", Searches, NEW n \in Id
  PROVE  Reachable(n) <=> color[n] # "white"
<1> DEFINE Colored == {m \in Id : color[m] # "white"}
<1>1. \A m \in Id : color[m] # "white" => todo[m] = {}
  <2>1. DOMAIN stack = {}
    BY DEF ValidationInv, PhaseInv
  <2>. QED BY <2>1 DEF ValidationInv, ValidationTypeOK, StackInv, TodoInv
<1>2. Closed(Colored)
  <2>1. ASSUME NEW m \in Colored, NEW i \in Out(m)
        PROVE  Target(i) \in Colored
    <3>1. color[Target(i)] # "white"
      BY <1>1, <2>1 DEF ValidationInv, TodoInv
    <3>2. Target(i) \in Id
      BY <2>1, GraphFacts DEF ValidationInv, ValidationTypeOK
    <3>. QED BY <3>1, <3>2
  <2>. QED BY <2>1 DEF Closed, Succ
<1>3. Root \in Colored
  BY GraphFacts DEF ValidationInv, PhaseInv, ValidationTypeOK, Searches
<1>4. Reachable(n) => n \in Colored
  BY <1>2, <1>3 DEF Reachable
<1>. QED BY <1>4 DEF ValidationInv, StackInv

(* A cycle is reported exactly when one can be reached.                    *)
THEOREM CycleCorrect == ValidationSpec => []CycleVerdict
<1>1. ValidationInv => CycleVerdict
  <2> SUFFICES ASSUME ValidationInv, pc = "done", Searches
               PROVE  "Cycle" \in errors <=> \E n \in Id : Reachable(n) /\ OnCycle(n)
    BY DEF CycleVerdict, Searches
  <2>1. CASE "Cycle" \in errors
    BY <2>1 DEF ValidationInv, CycleInv
  <2>2. CASE "Cycle" \notin errors
    <3>1. ASSUME NEW n \in Id, Reachable(n)
          PROVE  ~OnCycle(n)
      <4>1. color[n] # "white"
        BY <3>1, ColoredIsReachable
      <4>2. color[n] # "gray"
        <5>1. DOMAIN stack = {}
          BY DEF ValidationInv, PhaseInv
        <5>. QED BY <5>1 DEF ValidationInv, StackInv
      <4>3. color[n] = "black"
        BY <4>1, <4>2 DEF ValidationInv, ValidationTypeOK
      <4>. QED BY <2>2, <4>3 DEF ValidationInv, CycleInv
    <3>. QED BY <2>2, <3>1
  <2>. QED BY <2>1, <2>2
<1>. QED BY <1>1, SearchInvariance, PTL

(* A missing END is reported exactly when none can be reached.             *)
THEOREM EndCorrect == ValidationSpec => []EndVerdict
<1>1. ValidationInv => EndVerdict
  <2> SUFFICES ASSUME ValidationInv, pc = "done", Searches
               PROVE  "NoEnd" \in errors <=> ~\E n \in Id : Reachable(n) /\ IsEnd(n)
    BY DEF EndVerdict, Searches
  <2>1. hasEnd <=> \E n \in Id : color[n] # "white" /\ IsEnd(n)
    BY DEF ValidationInv, PhaseInv
  <2>2. "NoEnd" \in errors <=> ~hasEnd
    BY DEF ValidationInv, PhaseInv
  <2>. QED BY <2>1, <2>2, ColoredIsReachable
<1>. QED BY <1>1, SearchInvariance, PTL

-----------------------------------------------------------------------------
(* The WorkflowsService.                                                   *)

(* A row written to a workflow replaces its row and no other.              *)
LEMMA Written ==
  ASSUME TypeOK, NEW w \in Workflow, NEW row \in Row, Write(w, row)
  PROVE  /\ DOMAIN wf' = DOMAIN wf \cup {w} /\ DOMAIN wf' \subseteq Workflow
         /\ wf' \in [DOMAIN wf' -> Row]
         /\ wf'[w] = row
         /\ \A v \in DOMAIN wf \ {w} : wf'[v] = wf[v]
         /\ was' = was \cup {[workflow |-> w, row |-> row]}
         /\ was' \subseteq [workflow : Workflow, row : Row]
  BY DEF TypeOK, Write

(* A request that moves on keeps what it holds.                            *)
LEMMA Moved ==
  ASSUME TypeOK, NEW r \in Request,
         NEW label \in {"delete", "nodes", "edges", "write", "run", "over"}, Goto(r, label)
  PROVE  /\ req' \in [Request -> RequestState]
         /\ req'[r] = [req[r] EXCEPT !.pc = label]
         /\ \A q \in Request \ {r} : req'[q] = req[q]
  BY DEF TypeOK, Goto, RequestState

(* A request that begins holds what it was given.                          *)
LEMMA Begun ==
  ASSUME TypeOK, NEW r \in Request, NEW label \in {"delete", "write", "run"}, NEW op \in Op,
         NEW w \in Workflow, NEW d \in Definition \cup {Nothing}, NEW s \in Status \cup {Nothing},
         NEW v \in Nat, Begin(r, label, op, w, d, s, v)
  PROVE  /\ req' \in [Request -> RequestState]
         /\ req'[r] = [pc |-> label, op |-> op, workflow |-> w, definition |-> d, status |-> s,
                       version |-> v]
         /\ \A q \in Request \ {r} : req'[q] = req[q]
  BY DEF TypeOK, Begin, RequestState

(* What WriteRow writes.                                                   *)
NewRow(r) ==
  LET row == wf[req[r].workflow] IN
  [status |-> IF req[r].status = Nothing THEN row.status ELSE req[r].status,
   deleted |-> row.deleted \/ req[r].op = "archive",
   version |-> IF req[r].definition = Nothing THEN row.version ELSE row.version + 1,
   definition |-> IF req[r].definition = Nothing THEN row.definition ELSE req[r].definition]

LEMMA NewRowType ==
  ASSUME TypeOK, NEW r \in Request, req[r].pc = "write"
  PROVE  /\ req[r].workflow \in Workflow /\ req[r].workflow \in DOMAIN wf
         /\ NewRow(r) \in Row
         /\ req[r].definition = Nothing =>
              /\ NewRow(r).version = wf[req[r].workflow].version
              /\ NewRow(r).definition = wf[req[r].workflow].definition
         /\ req[r].definition # Nothing =>
              /\ NewRow(r).version = wf[req[r].workflow].version + 1
              /\ NewRow(r).definition = req[r].definition
<1>1. req[r] \in RequestState /\ req[r].workflow \in DOMAIN wf /\ wf[req[r].workflow] \in Row
  BY DEF TypeOK
<1>2. QED
  BY <1>1 DEF NewRow, Row, RequestState, TypeOK

LEMMA WriteRowWrites ==
  ASSUME NEW r \in Request, WriteRow(r)
  PROVE  req[r].pc = "write" /\ Write(req[r].workflow, NewRow(r)) /\ Goto(r, "over")
  BY DEF WriteRow, NewRow

-----------------------------------------------------------------------------
(* The history: what a step that writes a row, or none, does to it.        *)

LEMMA QuietStep ==
  ASSUME IInv, UNCHANGED <<wf, was, runs>>
  PROVE  /\ HistoryInv' /\ OneGraphPerVersion' /\ RunsWereActive'
         /\ \A w, v, d : ReadActive(w, v, d) => ReadActive(w, v, d)'
  BY DEF IInv, HistoryInv, OneGraphPerVersion, RunsWereActive, ReadActive

LEMMA WriteStep ==
  ASSUME IInv, NEW w \in Workflow, NEW row \in Row, Write(w, row), UNCHANGED runs,
         row.definition \in Valid,
         w \in DOMAIN wf => \/ row.version = wf[w].version /\ row.definition = wf[w].definition
                            \/ row.version = wf[w].version + 1
  PROVE  /\ HistoryInv' /\ OneGraphPerVersion' /\ RunsWereActive'
         /\ \A u, v, d : ReadActive(u, v, d) => ReadActive(u, v, d)'
<1> DEFINE new == [workflow |-> w, row |-> row]
<1>0. TypeOK /\ HistoryInv /\ OneGraphPerVersion /\ RunsWereActive
  BY DEF IInv
<1>1. /\ DOMAIN wf' = DOMAIN wf \cup {w} /\ DOMAIN wf' \subseteq Workflow
      /\ wf'[w] = row
      /\ \A v \in DOMAIN wf \ {w} : wf'[v] = wf[v]
      /\ was' = was \cup {new}
  BY <1>0, Written
<1>2. /\ row.version \in Nat
      /\ \A v \in DOMAIN wf : wf[v].version \in Nat
      /\ \A a \in was : a.row.version \in Nat
  BY <1>0 DEF TypeOK, Row
<1>3. /\ new.workflow = w /\ new.row = row
  OBVIOUS
<1>4. \A a \in was :
        /\ a.workflow \in DOMAIN wf
        /\ a.row.version <= wf[a.workflow].version
        /\ a.row.definition \in Valid
  BY <1>0 DEF HistoryInv
<1>5. \A v \in DOMAIN wf : [workflow |-> v, row |-> wf[v]] \in was
  BY <1>0 DEF HistoryInv
<1>6. HistoryInv'
  <2>1. ASSUME NEW v \in DOMAIN wf' PROVE [workflow |-> v, row |-> wf'[v]] \in was'
    <3>1. CASE v = w
      BY <3>1, <1>1
    <3>2. CASE v # w
      BY <3>2, <1>1, <1>5
    <3>3. QED
      BY <3>1, <3>2
  <2>2. ASSUME NEW a \in was' PROVE a.workflow \in DOMAIN wf' /\ a.row.version <= wf'[a.workflow].version
    <3>1. CASE a = new
      BY <3>1, <1>1, <1>2, <1>3
    <3>2. CASE a \in was /\ a.workflow # w
      BY <3>2, <1>1, <1>4
    <3>3. CASE a \in was /\ a.workflow = w
      <4>1. w \in DOMAIN wf /\ a.row.version <= wf[w].version
        BY <3>3, <1>4
      <4>2. wf[w].version <= row.version
        BY <4>1, <1>2
      <4>3. QED
        BY <3>3, <4>1, <4>2, <1>1, <1>2
    <3>4. QED
      BY <3>1, <3>2, <3>3, <1>1
  <2>3. ASSUME NEW a \in was' PROVE a.row.definition \in Valid
    BY <1>1, <1>3, <1>4
  <2>4. QED
    BY <2>1, <2>2, <2>3 DEF HistoryInv
<1>7. ASSUME NEW a \in was, a.workflow = w, a.row.version = row.version
      PROVE  a.row.definition = row.definition
  <2>1. w \in DOMAIN wf /\ row.version <= wf[w].version
    BY <1>7, <1>4
  <2>2. row.version = wf[w].version /\ row.definition = wf[w].definition
    BY <2>1, <1>2
  <2>3. PICK b \in was : b.workflow = w /\ b.row = wf[w]
    BY <2>1, <1>5
  <2>4. b.row.version = a.row.version
    BY <2>2, <2>3, <1>7
  <2>5. QED
    BY <1>0, <1>7, <2>2, <2>3, <2>4 DEF OneGraphPerVersion
<1>8. OneGraphPerVersion'
  <2> SUFFICES ASSUME NEW a \in was', NEW b \in was',
                      a.workflow = b.workflow, a.row.version = b.row.version
               PROVE  a.row.definition = b.row.definition
    BY DEF OneGraphPerVersion
  <2>1. CASE a \in was /\ b \in was
    BY <2>1, <1>0 DEF OneGraphPerVersion
  <2>2. CASE a \in was /\ b = new
    BY <2>2, <1>3, <1>7
  <2>3. CASE a = new /\ b \in was
    BY <2>3, <1>3, <1>7
  <2>4. CASE a = new /\ b = new
    BY <2>4
  <2>5. QED
    BY <1>1, <2>1, <2>2, <2>3, <2>4
<1>9. \A u, v, d : ReadActive(u, v, d) => ReadActive(u, v, d)'
  BY <1>1 DEF ReadActive
<1>10. RunsWereActive'
  BY <1>0, <1>9 DEF RunsWereActive
<1>11. QED
  BY <1>6, <1>8, <1>9, <1>10

(* What is held: only request r has moved.                                 *)
LEMMA HeldStep ==
  ASSUME IInv, NEW r \in Request,
         \A q \in Request \ {r} : req'[q] = req[q],
         \A w, v, d : ReadActive(w, v, d) => ReadActive(w, v, d)',
         req'[r].pc \in {"delete", "nodes", "edges"} => req'[r].definition \in Valid,
         req'[r].pc = "write" => req'[r].definition \in Valid \cup {Nothing},
         \A w, v, d : /\ req'[r].pc = "run"
                      /\ w = req'[r].workflow /\ v = req'[r].version /\ d = req'[r].definition
                      => ReadActive(w, v, d)'
  PROVE  HeldInv'
<1>1. ASSUME NEW q \in Request, q # r
      PROVE  /\ req'[q].pc \in {"delete", "nodes", "edges"} => req'[q].definition \in Valid
             /\ req'[q].pc = "write" => req'[q].definition \in Valid \cup {Nothing}
             /\ \A w, v, d : /\ req'[q].pc = "run"
                              /\ w = req'[q].workflow /\ v = req'[q].version /\ d = req'[q].definition
                              => ReadActive(w, v, d)'
  BY <1>1 DEF IInv, HeldInv
<1>2. ASSUME NEW q \in Request
      PROVE  /\ req'[q].pc \in {"delete", "nodes", "edges"} => req'[q].definition \in Valid
             /\ req'[q].pc = "write" => req'[q].definition \in Valid \cup {Nothing}
             /\ \A w, v, d : /\ req'[q].pc = "run"
                              /\ w = req'[q].workflow /\ v = req'[q].version /\ d = req'[q].definition
                              => ReadActive(w, v, d)'
  BY <1>1
<1>3. QED
  BY <1>2 DEF HeldInv, ReadActive

-----------------------------------------------------------------------------
(* The steps.                                                              *)

LEMMA InitInv == Init => IInv
<1> SUFFICES ASSUME Init PROVE IInv
  OBVIOUS
<1>1. PICK W \in SUBSET Workflow :
        wf \in [W -> {Created(s, d) : s \in {"DRAFT", "ACTIVE"}, d \in Valid}]
  BY DEF Init
<1>2. /\ DOMAIN wf = W
      /\ \A w \in W : wf[w] \in Row /\ wf[w].version = 1 /\ wf[w].definition \in Valid
  <2> SUFFICES ASSUME NEW w \in W
               PROVE  wf[w] \in Row /\ wf[w].version = 1 /\ wf[w].definition \in Valid
    BY <1>1
  <2>1. PICK s \in {"DRAFT", "ACTIVE"}, d \in Valid : wf[w] = Created(s, d)
    BY <1>1
  <2>2. QED
    BY <2>1, DefinitionsAssumption DEF Created, Row, Status
<1>3. /\ was = {[workflow |-> w, row |-> wf[w]] : w \in W}
      /\ runs = {} /\ dbErrors = 0 /\ disturbed = [w \in Workflow |-> FALSE]
  BY <1>2 DEF Init
<1>4. /\ req \in [Request -> RequestState]
      /\ \A r \in Request : req[r].pc = "idle"
  BY DEF Init, RequestState, Op
<1>5. (\A n \in nodes : n.workflow \in W) /\ (\A e \in edges : e.workflow \in W)
  BY <1>2 DEF Init, NodeRows, EdgeRows
<1>6. wf \in [W -> Row]
  BY <1>1, <1>2
<1>7. was \subseteq [workflow : Workflow, row : Row]
  BY <1>2, <1>3
<1>8. TypeOK
  BY <1>2, <1>3, <1>4, <1>5, <1>6, <1>7 DEF TypeOK
<1>9. HistoryInv
  BY <1>2, <1>3 DEF HistoryInv
<1>10. OneGraphPerVersion
  BY <1>3 DEF OneGraphPerVersion
<1>11. HeldInv
  BY <1>4 DEF HeldInv
<1>12. RunsWereActive
  BY <1>3 DEF RunsWereActive
<1>13. QED
  BY <1>8, <1>9, <1>10, <1>11, <1>12 DEF IInv

(* Steps that write no row and start no run.                               *)
LEMMA Rest ==
  ASSUME IInv, UNCHANGED <<wf, was, runs>>, TypeOK', HeldInv'
  PROVE  IInv'
  BY QuietStep DEF IInv

(* A request begins: none of the tables changes.                           *)
LEMMA BeginStep ==
  ASSUME IInv, NEW r \in Request, NEW label \in {"delete", "write", "run"}, NEW op \in Op,
         NEW w \in DOMAIN wf, NEW d \in Definition \cup {Nothing}, NEW s \in Status \cup {Nothing},
         NEW v \in Nat, Begin(r, label, op, w, d, s, v),
         UNCHANGED <<wf, nodes, edges, runs, dbErrors, was>>, disturbed' \in [Workflow -> BOOLEAN],
         label = "delete" => d \in Valid,
         label = "write" => d \in Valid \cup {Nothing},
         label = "run" => ReadActive(w, v, d)
  PROVE  IInv'
<1>1. TypeOK /\ w \in Workflow
  BY DEF IInv, TypeOK
<1>2. /\ req' \in [Request -> RequestState]
      /\ req'[r] = [pc |-> label, op |-> op, workflow |-> w, definition |-> d, status |-> s,
                    version |-> v]
      /\ \A q \in Request \ {r} : req'[q] = req[q]
  BY <1>1, Begun
<1>3. \A q \in Request : req'[q].pc \notin {"idle", "over"} => req'[q].workflow \in DOMAIN wf'
  BY <1>1, <1>2 DEF TypeOK
<1>4. TypeOK'
  BY <1>1, <1>2, <1>3 DEF TypeOK
<1>5. \A u, x, y : ReadActive(u, x, y) => ReadActive(u, x, y)'
  BY QuietStep
<1>6. HeldInv'
  BY <1>2, <1>5, HeldStep
<1>7. QED
  BY <1>4, <1>6, Rest

(* A request goes on, without writing a row of workflows or a run.         *)
LEMMA MoveStep ==
  ASSUME IInv, NEW r \in Request, NEW label \in {"nodes", "edges", "write", "over"}, Goto(r, label),
         UNCHANGED <<wf, runs, was>>, disturbed' \in [Workflow -> BOOLEAN], dbErrors' \in Nat,
         \A n \in nodes' : n.workflow \in DOMAIN wf, \A e \in edges' : e.workflow \in DOMAIN wf,
         label # "over" => req[r].pc \in {"delete", "nodes", "edges"}
  PROVE  IInv'
<1>1. TypeOK /\ HeldInv
  BY DEF IInv
<1>2. /\ req' \in [Request -> RequestState]
      /\ req'[r] = [req[r] EXCEPT !.pc = label]
      /\ \A q \in Request \ {r} : req'[q] = req[q]
  BY <1>1, Moved
<1>3. req[r] \in RequestState
  BY <1>1 DEF TypeOK
<1>4. /\ req'[r].pc = label /\ req'[r].workflow = req[r].workflow
      /\ req'[r].definition = req[r].definition
  BY <1>2, <1>3 DEF RequestState
<1>5. \A q \in Request : req'[q].pc \notin {"idle", "over"} => req'[q].workflow \in DOMAIN wf'
  BY <1>1, <1>2, <1>4 DEF TypeOK
<1>6. TypeOK'
  BY <1>1, <1>2, <1>5 DEF TypeOK
<1>7. \A u, x, y : ReadActive(u, x, y) => ReadActive(u, x, y)'
  BY QuietStep
<1>8. label # "over" => req[r].definition \in Valid
  BY <1>1 DEF HeldInv
<1>9. HeldInv'
  BY <1>2, <1>4, <1>7, <1>8, HeldStep
<1>10. QED
  BY <1>6, <1>9, Rest

LEMMA FailStep ==
  ASSUME IInv, NEW r \in Request, Fail(r), dbErrors' \in Nat
  PROVE  IInv'
<1>1. TypeOK
  BY DEF IInv
<1>2. req[r].workflow \in Workflow
  BY <1>1 DEF TypeOK, RequestState
<1>3. Replacing(r) \in BOOLEAN
  BY DEF Replacing
<1>4. \A w \in Workflow : disturbed[w] \in BOOLEAN
  BY <1>1 DEF TypeOK
<1>5. (disturbed[req[r].workflow] \/ Replacing(r)) \in BOOLEAN
  BY <1>2, <1>3, <1>4
<1>6. disturbed' = [disturbed EXCEPT ![req[r].workflow] = disturbed[req[r].workflow] \/ Replacing(r)]
  BY DEF Fail
<1>7. disturbed' \in [Workflow -> BOOLEAN]
  BY <1>1, <1>2, <1>5, <1>6 DEF TypeOK
<1>8. (\A n \in nodes' : n.workflow \in DOMAIN wf) /\ (\A e \in edges' : e.workflow \in DOMAIN wf)
  BY <1>1 DEF Fail, TypeOK
<1>9. QED
  BY <1>7, <1>8, MoveStep DEF Fail

LEMMA RefuseStep ==
  ASSUME IInv, NEW r \in Request, NEW op \in Op, NEW w \in Workflow,
         NEW d \in Definition \cup {Nothing}, Refuse(r, op, w, d)
  PROVE  IInv'
<1>1. TypeOK
  BY DEF IInv
<1>2. /\ disturbed' \in [Workflow -> BOOLEAN] /\ dbErrors' \in Nat
      /\ \A n \in nodes' : n.workflow \in DOMAIN wf
      /\ \A e \in edges' : e.workflow \in DOMAIN wf
  BY <1>1 DEF Refuse, TypeOK
<1>3. QED
  BY <1>2, MoveStep DEF Refuse

LEMMA CreateStep ==
  ASSUME IInv, NEW r \in Request, NEW w \in Workflow, NEW d \in Definition, create(r, w, d)
  PROVE  IInv'
<1> DEFINE row == Created("DRAFT", d)
<1>1. TypeOK
  BY DEF IInv
<1>2. /\ d \in Valid /\ w \notin DOMAIN wf /\ Write(w, row)
      /\ Begin(r, "delete", "create", w, d, Nothing, 0)
      /\ UNCHANGED <<nodes, edges, runs, dbErrors, disturbed>>
  BY DEF create, Refused
<1>3. row \in Row /\ row.definition = d
  BY DEF Created, Row, Status
<1>4. /\ DOMAIN wf' = DOMAIN wf \cup {w} /\ DOMAIN wf' \subseteq Workflow
      /\ wf' \in [DOMAIN wf' -> Row]
      /\ was' \subseteq [workflow : Workflow, row : Row]
  BY <1>1, <1>2, <1>3, Written
<1>5. /\ HistoryInv' /\ OneGraphPerVersion' /\ RunsWereActive'
      /\ \A u, x, y : ReadActive(u, x, y) => ReadActive(u, x, y)'
  <2> HIDE DEF row
  <2>1. QED
    BY <1>2, <1>3, WriteStep
<1>6. /\ req' \in [Request -> RequestState]
      /\ req'[r] = [pc |-> "delete", op |-> "create", workflow |-> w, definition |-> d,
                    status |-> Nothing, version |-> 0]
      /\ \A q \in Request \ {r} : req'[q] = req[q]
  BY <1>1, <1>2, Begun DEF Op
<1>7. \A q \in Request : req'[q].pc \notin {"idle", "over"} => req'[q].workflow \in DOMAIN wf'
  BY <1>1, <1>4, <1>6 DEF TypeOK
<1>8. TypeOK'
  BY <1>1, <1>2, <1>4, <1>6, <1>7 DEF TypeOK
<1>9. HeldInv'
  BY <1>2, <1>5, <1>6, HeldStep
<1>10. QED
  BY <1>5, <1>8, <1>9 DEF IInv

LEMMA UpdateStep ==
  ASSUME IInv, NEW r \in Request, NEW w \in Workflow, NEW d \in Definition \cup {Nothing},
         NEW s \in Status \cup {Nothing}, update(r, w, d, s)
  PROVE  IInv'
<1> DEFINE label == IF d = Nothing THEN "write" ELSE "delete"
<1>1. TypeOK
  BY DEF IInv
<1>2. w \in DOMAIN wf /\ (d # Nothing => d \in Valid)
  BY DEF update, Refused, Found
<1>3. wf[w].version \in Nat
  BY <1>1, <1>2 DEF TypeOK, Row
<1>4. BeingReplaced(w) \in BOOLEAN
  BY DEF BeingReplaced
<1>5. disturbed' \in [Workflow -> BOOLEAN]
  <2>1. CASE d = Nothing
    BY <2>1, <1>1 DEF update, TypeOK
  <2>2. CASE d # Nothing
    BY <2>2, <1>1, <1>4 DEF update, TypeOK
  <2>3. QED
    BY <2>1, <2>2
<1>6. /\ label \in {"delete", "write", "run"}
      /\ label = "delete" => d \in Valid
      /\ label = "write" => d \in Valid \cup {Nothing}
      /\ label # "run"
  BY <1>2
<1>7. Begin(r, label, "update", w, d, s, wf[w].version)
  BY DEF update
<1>8. UNCHANGED <<wf, nodes, edges, runs, dbErrors, was>>
  BY DEF update
<1>9. "update" \in Op
  BY DEF Op
<1> HIDE DEF label
<1>10. QED
  BY <1>2, <1>3, <1>5, <1>6, <1>7, <1>8, <1>9, BeginStep

LEMMA TransitionStep ==
  ASSUME IInv, NEW r \in Request, NEW w \in Workflow, NEW op \in {"activate", "pause", "archive"},
         NEW s \in Status, Transition(r, w, op, s)
  PROVE  IInv'
<1>1. w \in DOMAIN wf
  BY DEF Transition, Refused, Found
<1>2. disturbed' \in [Workflow -> BOOLEAN]
  BY DEF Transition, IInv, TypeOK
<1>3. op \in Op
  BY DEF Op
<1>4. /\ Begin(r, "write", op, w, Nothing, s, 0)
      /\ UNCHANGED <<wf, nodes, edges, runs, dbErrors, was>>
  BY DEF Transition
<1>5. QED
  BY <1>1, <1>2, <1>3, <1>4, BeginStep

LEMMA RunStep ==
  ASSUME IInv, NEW r \in Request, NEW w \in Workflow, runWorkflow(r, w)
  PROVE  IInv'
<1>1. w \in DOMAIN wf /\ ~wf[w].deleted /\ wf[w].status = "ACTIVE"
  BY DEF runWorkflow, Refused, Found
<1>2. wf[w] \in Row
  BY <1>1 DEF IInv, TypeOK
<1>3. disturbed' \in [Workflow -> BOOLEAN]
  BY DEF runWorkflow, IInv, TypeOK
<1>4. [workflow |-> w, row |-> wf[w]] \in was
  BY <1>1 DEF IInv, HistoryInv
<1>5. ReadActive(w, wf[w].version, wf[w].definition)
  BY <1>1, <1>4 DEF ReadActive
<1>6. wf[w].version \in Nat /\ wf[w].definition \in Definition \cup {Nothing} /\ "run" \in Op
  BY <1>2 DEF Row, Op
<1>7. /\ Begin(r, "run", "run", w, wf[w].definition, Nothing, wf[w].version)
      /\ UNCHANGED <<wf, nodes, edges, runs, dbErrors, was>>
  BY DEF runWorkflow
<1>8. QED
  BY <1>1, <1>3, <1>5, <1>6, <1>7, BeginStep

(* The three steps of persistGraph.                                        *)
LEMMA PersistStep ==
  ASSUME IInv, NEW r \in Request, DeleteGraph(r) \/ InsertNodes(r) \/ InsertEdges(r)
  PROVE  IInv'
<1>1. TypeOK
  BY DEF IInv
<1>2. req[r].workflow \in DOMAIN wf
  BY <1>1 DEF DeleteGraph, InsertNodes, InsertEdges, TypeOK
<1>3. Afterwards(r) \in {"over", "write"}
  BY DEF Afterwards
<1>4. dbErrors \in Nat /\ disturbed \in [Workflow -> BOOLEAN]
  BY <1>1 DEF TypeOK
<1>5. CASE Fail(r) /\ UNCHANGED dbErrors
  BY <1>4, <1>5, FailStep
<1>6. ASSUME DeleteGraph(r), ~Fail(r) PROVE IInv'
  <2>1. /\ req[r].pc = "delete" /\ Goto(r, "nodes")
        /\ UNCHANGED <<wf, runs, dbErrors, was, disturbed>>
        /\ edges' \subseteq edges /\ nodes' \subseteq nodes
    BY <1>6 DEF DeleteGraph
  <2>2. QED
    BY <1>1, <1>4, <2>1, MoveStep DEF TypeOK
<1>7. ASSUME InsertNodes(r), ~Fail(r) PROVE IInv'
  <2>1. /\ req[r].pc = "nodes"
        /\ UNCHANGED <<wf, edges, runs, dbErrors, was, disturbed>>
        /\ nodes' = nodes \cup NodeRows(req[r].workflow, req[r].definition)
        /\ Goto(r, IF EdgesOf[req[r].definition] = {} THEN Afterwards(r) ELSE "edges")
    BY <1>7 DEF InsertNodes
  <2>2. PICK label \in {"edges", "write", "over"} : Goto(r, label)
    BY <2>1, <1>3
  <2>3. \A n \in nodes' : n.workflow \in DOMAIN wf
    BY <1>1, <1>2, <2>1 DEF NodeRows, TypeOK
  <2>4. \A e \in edges' : e.workflow \in DOMAIN wf
    BY <1>1, <2>1 DEF TypeOK
  <2>5. QED
    BY <1>4, <2>1, <2>2, <2>3, <2>4, MoveStep
<1>8. ASSUME InsertEdges(r), ~Fail(r) PROVE IInv'
  <2>1. /\ req[r].pc = "edges" /\ Goto(r, Afterwards(r))
        /\ UNCHANGED <<wf, nodes, runs, dbErrors, was, disturbed>>
        /\ edges' = edges \cup EdgeRows(req[r].workflow, req[r].definition)
    BY <1>8 DEF InsertEdges
  <2>2. \A e \in edges' : e.workflow \in DOMAIN wf
    BY <1>1, <1>2, <2>1 DEF EdgeRows, TypeOK
  <2>3. \A n \in nodes' : n.workflow \in DOMAIN wf
    BY <1>1, <2>1 DEF TypeOK
  <2>4. QED
    BY <1>3, <1>4, <2>1, <2>2, <2>3, MoveStep
<1>9. Fail(r) => UNCHANGED dbErrors
  BY DEF DeleteGraph, InsertNodes, InsertEdges
<1>10. QED
  BY <1>5, <1>6, <1>7, <1>8, <1>9

LEMMA WriteRowStep ==
  ASSUME IInv, NEW r \in Request, WriteRow(r)
  PROVE  IInv'
<1> DEFINE w == req[r].workflow
           row == NewRow(r)
<1>1. TypeOK /\ HistoryInv /\ HeldInv
  BY DEF IInv
<1>2. /\ req[r].pc = "write" /\ Write(w, row) /\ Goto(r, "over")
      /\ UNCHANGED <<nodes, edges, runs, dbErrors, disturbed>>
  BY WriteRowWrites DEF WriteRow
<1>3. /\ w \in Workflow /\ w \in DOMAIN wf /\ row \in Row
      /\ \/ row.version = wf[w].version /\ row.definition = wf[w].definition
         \/ row.version = wf[w].version + 1
  BY <1>1, <1>2, NewRowType
<1>4. row.definition \in Valid
  <2>1. CASE req[r].definition = Nothing
    <3>1. row.definition = wf[w].definition
      BY <2>1, <1>1, <1>2, NewRowType
    <3>2. PICK a \in was : a.row = wf[w]
      BY <1>1, <1>3 DEF HistoryInv
    <3>3. QED
      BY <3>1, <3>2, <1>1 DEF HistoryInv
  <2>2. CASE req[r].definition # Nothing
    <3>1. row.definition = req[r].definition
      BY <2>2, <1>1, <1>2, NewRowType
    <3>2. req[r].definition \in Valid
      BY <2>2, <1>1, <1>2 DEF HeldInv
    <3>3. QED
      BY <3>1, <3>2
  <2>3. QED
    BY <2>1, <2>2
<1> HIDE DEF row
<1>5. /\ DOMAIN wf' = DOMAIN wf \cup {w} /\ DOMAIN wf' \subseteq Workflow
      /\ wf' \in [DOMAIN wf' -> Row]
      /\ was' \subseteq [workflow : Workflow, row : Row]
  BY <1>1, <1>2, <1>3, Written
<1>6. /\ HistoryInv' /\ OneGraphPerVersion' /\ RunsWereActive'
      /\ \A u, x, y : ReadActive(u, x, y) => ReadActive(u, x, y)'
  BY <1>2, <1>3, <1>4, WriteStep
<1>7. /\ req' \in [Request -> RequestState]
      /\ req'[r] = [req[r] EXCEPT !.pc = "over"]
      /\ \A q \in Request \ {r} : req'[q] = req[q]
  BY <1>1, <1>2, Moved
<1>8. req'[r].pc = "over"
  BY <1>1, <1>7 DEF TypeOK, RequestState
<1>9. \A q \in Request : req'[q].pc \notin {"idle", "over"} => req'[q].workflow \in DOMAIN wf'
  BY <1>1, <1>5, <1>7, <1>8 DEF TypeOK
<1>10. TypeOK'
  BY <1>1, <1>2, <1>5, <1>7, <1>9 DEF TypeOK
<1>11. HeldInv'
  BY <1>6, <1>7, <1>8, HeldStep
<1>12. QED
  BY <1>6, <1>10, <1>11 DEF IInv

LEMMA InsertRunStep ==
  ASSUME IInv, NEW r \in Request, InsertRun(r)
  PROVE  IInv'
<1> DEFINE run == [workflow |-> req[r].workflow, version |-> req[r].version,
                   snapshot |-> req[r].definition]
<1>1. TypeOK /\ HistoryInv /\ HeldInv
  BY DEF IInv
<1>2. /\ req[r].pc = "run" /\ Goto(r, "over") /\ runs' = runs \cup {run}
      /\ UNCHANGED <<wf, nodes, edges, dbErrors, was, disturbed>>
  BY DEF InsertRun
<1>3. ReadActive(req[r].workflow, req[r].version, req[r].definition)
  BY <1>1, <1>2 DEF HeldInv
<1>4. /\ req[r].workflow \in Workflow /\ req[r].version \in Nat /\ req[r].definition \in Definition
  <2>1. req[r].workflow \in Workflow /\ req[r].version \in Nat
    BY <1>1 DEF TypeOK, RequestState
  <2>2. PICK a \in was : a.row.definition = req[r].definition
    BY <1>3 DEF ReadActive
  <2>3. QED
    BY <2>1, <2>2, <1>1 DEF TypeOK, Row
<1>5. /\ req' \in [Request -> RequestState]
      /\ req'[r] = [req[r] EXCEPT !.pc = "over"]
      /\ \A q \in Request \ {r} : req'[q] = req[q]
  BY <1>1, <1>2, Moved
<1>6. req'[r].pc = "over"
  BY <1>1, <1>5 DEF TypeOK, RequestState
<1>7. \A q \in Request : req'[q].pc \notin {"idle", "over"} => req'[q].workflow \in DOMAIN wf'
  BY <1>1, <1>2, <1>5, <1>6 DEF TypeOK
<1>8. TypeOK'
  BY <1>1, <1>2, <1>4, <1>5, <1>7 DEF TypeOK
<1>9. HistoryInv' /\ OneGraphPerVersion'
  BY <1>2 DEF IInv, HistoryInv, OneGraphPerVersion
<1>10. \A u, x, y : ReadActive(u, x, y) => ReadActive(u, x, y)'
  BY <1>2 DEF ReadActive
<1>11. HeldInv'
  BY <1>5, <1>6, <1>10, HeldStep
<1>12. RunsWereActive'
  <2> SUFFICES ASSUME NEW one \in runs'
               PROVE  ReadActive(one.workflow, one.version, one.snapshot)'
    BY DEF RunsWereActive, ReadActive
  <2>1. ReadActive(one.workflow, one.version, one.snapshot)
    BY <1>2, <1>3 DEF IInv, RunsWereActive
  <2>2. QED
    BY <2>1, <1>10
<1>13. QED
  BY <1>8, <1>9, <1>11, <1>12 DEF IInv

LEMMA NextInv == IInv /\ [Next]_vars => IInv'
<1> SUFFICES ASSUME IInv, [Next]_vars PROVE IInv'
  OBVIOUS
<1>1. CASE Next
  <2>1. PICK r \in Request :
          \/ \E w \in Workflow :
               \/ \E op \in Op, d \in Definition \cup {Nothing} : Refuse(r, op, w, d)
               \/ \E d \in Definition : create(r, w, d)
               \/ \E d \in Definition \cup {Nothing}, s \in Status \cup {Nothing} : update(r, w, d, s)
               \/ activate(r, w) \/ pause(r, w) \/ archive(r, w) \/ runWorkflow(r, w)
          \/ Continue(r)
    BY <1>1 DEF Next
  <2>2. ASSUME NEW w \in Workflow, NEW op \in Op, NEW d \in Definition \cup {Nothing}, Refuse(r, op, w, d)
        PROVE  IInv'
    BY <2>2, RefuseStep
  <2>3. ASSUME NEW w \in Workflow, NEW d \in Definition, create(r, w, d)
        PROVE  IInv'
    BY <2>3, CreateStep
  <2>4. ASSUME NEW w \in Workflow, NEW d \in Definition \cup {Nothing}, NEW s \in Status \cup {Nothing},
               update(r, w, d, s)
        PROVE  IInv'
    BY <2>4, UpdateStep
  <2>5. ASSUME NEW w \in Workflow, activate(r, w) \/ pause(r, w) \/ archive(r, w)
        PROVE  IInv'
    BY <2>5, TransitionStep DEF activate, pause, archive, Status
  <2>6. ASSUME NEW w \in Workflow, runWorkflow(r, w)
        PROVE  IInv'
    BY <2>6, RunStep
  <2>7. CASE Continue(r)
    <3>1. CASE DeleteGraph(r) \/ InsertNodes(r) \/ InsertEdges(r)
      BY <3>1, PersistStep
    <3>2. CASE WriteRow(r)
      BY <3>2, WriteRowStep
    <3>3. CASE InsertRun(r)
      BY <3>3, InsertRunStep
    <3>4. CASE DbError(r)
      BY <3>4, FailStep DEF DbError, IInv, TypeOK
    <3>5. QED
      BY <2>7, <3>1, <3>2, <3>3, <3>4 DEF Continue
  <2>8. QED
    BY <2>1, <2>2, <2>3, <2>4, <2>5, <2>6, <2>7
<1>2. CASE UNCHANGED vars
  BY <1>2 DEF vars, IInv, TypeOK, HistoryInv, OneGraphPerVersion, HeldInv, RunsWereActive, ReadActive,
              RequestState, Row
<1>3. QED
  BY <1>1, <1>2

-----------------------------------------------------------------------------
(* The invariant holds in every state of every behaviour.                  *)
THEOREM Invariance == Spec => []IInv
<1>1. QED
  BY InitInv, NextInv, PTL DEF Spec

(* The tables and the requests keep their types.                           *)
THEOREM TypeCorrect == Spec => []TypeOK
<1>1. IInv => TypeOK
  BY DEF IInv
<1>2. QED
  BY <1>1, Invariance, PTL

(* Whatever requests overlap, and however many: a workflow never has two   *)
(* graphs under one version number (update's atomic increment).            *)
THEOREM VersionsIdentifyGraphs == Spec => []OneGraphPerVersion
<1>1. IInv => OneGraphPerVersion
  BY DEF IInv
<1>2. QED
  BY <1>1, Invariance, PTL

(* Every run pairs the version and the graph of one row that was ACTIVE    *)
(* and not archived (runWorkflow's read).                                  *)
THEOREM RunsComeFromActiveRows == Spec => []RunsWereActive
<1>1. IInv => RunsWereActive
  BY DEF IInv
<1>2. QED
  BY <1>1, Invariance, PTL

(* No run is started with a graph that validateGraph did not accept.       *)
THEOREM RunsAreOfValidGraphs == Spec => []RunsAreValid
<1>1. IInv => RunsAreValid
  BY DEF IInv, RunsWereActive, ReadActive, HistoryInv, RunsAreValid
<1>2. QED
  BY <1>1, Invariance, PTL

-----------------------------------------------------------------------------
(* The tables.                                                             *)

(* A workflow whose rows, and whose replacement if any, a step leaves      *)
(* alone.                                                                  *)
LEMMA MirrorKept ==
  ASSUME NEW w \in DOMAIN wf, Mirror(w), NEW r \in Request, \A q \in Request \ {r} : req'[q] = req[q],
         ~Replaces(r, w), ~Replaces(r, w)', wf'[w].definition = wf[w].definition,
         disturbed[w] => disturbed'[w], NodesIn(w)' = NodesIn(w), EdgesIn(w)' = EdgesIn(w)
  PROVE  Mirror(w)'
<1>1. \A q \in Request : Replaces(q, w)' <=> Replaces(q, w)
  BY DEF Replaces, Replacing
<1>2. BeingReplaced(w)' <=> BeingReplaced(w)
  BY <1>1 DEF BeingReplaced, Replaces
<1>3. ASSUME NEW q \in Request, Replaces(q, w)', Halfway(q, w) PROVE Halfway(q, w)'
  <2>1. req'[q] = req[q]
    BY <1>3
  <2>2. QED
    BY <1>3, <2>1 DEF Halfway, IsMirrored, NodeRows, EdgeRows
<1>4. IsMirrored(w, wf[w].definition) => IsMirrored(w, wf[w].definition)'
  BY DEF IsMirrored, NodeRows, EdgeRows
<1>5. QED
  BY <1>1, <1>2, <1>3, <1>4 DEF Mirror

(* The only replacement of a workflow takes a step, or ends.               *)
LEMMA MirrorMoves ==
  ASSUME NEW w \in DOMAIN wf, Mirror(w), NEW r \in Request, \A q \in Request \ {r} : req'[q] = req[q],
         Replaces(r, w), disturbed'[w] = disturbed[w],
         Halfway(r, w) /\ Replaces(r, w)' => Halfway(r, w)',
         Halfway(r, w) /\ ~Replaces(r, w)' => IsMirrored(w, wf[w].definition)'
  PROVE  Mirror(w)'
<1> SUFFICES ASSUME ~disturbed'[w]
             PROVE  /\ \A p, q \in Request : Replaces(p, w)' /\ Replaces(q, w)' => p = q
                    /\ \A q \in Request : Replaces(q, w)' => Halfway(q, w)'
                    /\ ~BeingReplaced(w)' => IsMirrored(w, wf[w].definition)'
  BY DEF Mirror
<1>1. Halfway(r, w) /\ \A q \in Request : Replaces(q, w) => q = r
  BY DEF Mirror
<1>2. \A q \in Request : Replaces(q, w)' => q = r
  <2>1. \A q \in Request \ {r} : Replaces(q, w)' => Replaces(q, w)
    BY DEF Replaces, Replacing
  <2>2. QED
    BY <1>1, <2>1
<1>3. Replaces(r, w)' => BeingReplaced(w)'
  BY DEF Replaces, BeingReplaced
<1>4. QED
  BY <1>1, <1>2, <1>3

(* Requests that go on, or begin, as they should.                          *)
LEMMA ReplacementKept ==
  ASSUME MirrorInv, NEW r \in Request, \A q \in Request \ {r} : req'[q] = req[q], Replacement(req[r])'
  PROVE  \A q \in Request : Replacement(req[q])'
  BY DEF MirrorInv, Replacement

(* A request that replaces nothing, before or after its step.              *)
LEMMA MirrorRest ==
  ASSUME MirrorInv, NEW r \in Request, \A q \in Request \ {r} : req'[q] = req[q],
         ~Replacing(r), ~Replacing(r)', Replacement(req[r])', UNCHANGED <<wf, nodes, edges>>,
         \A w \in DOMAIN wf : disturbed[w] => disturbed'[w]
  PROVE  MirrorInv'
<1>1. \A w \in DOMAIN wf : NodesIn(w)' = NodesIn(w) /\ EdgesIn(w)' = EdgesIn(w)
  BY DEF NodesIn, EdgesIn
<1>2. ASSUME NEW w \in DOMAIN wf PROVE Mirror(w)'
  <2>1. Mirror(w) /\ ~Replaces(r, w) /\ ~Replaces(r, w)'
    BY DEF MirrorInv, Replaces
  <2>2. QED
    BY <1>1, <2>1, MirrorKept
<1>3. QED
  BY <1>2, ReplacementKept DEF MirrorInv

LEMMA MirrorRefused ==
  ASSUME IInv, MirrorInv, NEW r \in Request, NEW op \in Op, NEW w \in Workflow, NEW d \in Definition \cup {Nothing},
         Refuse(r, op, w, d)
  PROVE  MirrorInv'
<1>1. req[r].pc = "idle" /\ Goto(r, "over") /\ UNCHANGED <<wf, nodes, edges, disturbed>>
  BY DEF Refuse
<1>2. req'[r] = [req[r] EXCEPT !.pc = "over"] /\ \A q \in Request \ {r} : req'[q] = req[q]
  BY <1>1, Moved DEF IInv
<1>3. req'[r].pc = "over"
  BY <1>2 DEF IInv, TypeOK, RequestState
<1>4. ~Replacing(r) /\ ~Replacing(r)' /\ Replacement(req[r])'
  BY <1>1, <1>3 DEF Replacing, Replacement
<1>5. QED
  BY <1>1, <1>2, <1>4, MirrorRest

LEMMA MirrorCreated ==
  ASSUME IInv, MirrorInv, NEW r \in Request, NEW w \in Workflow, NEW d \in Definition, create(r, w, d)
  PROVE  MirrorInv'
<1>1. /\ w \notin DOMAIN wf /\ Write(w, Created("DRAFT", d)) /\ Begin(r, "delete", "create", w, d, Nothing, 0)
      /\ UNCHANGED <<nodes, edges, disturbed>> /\ req[r].pc = "idle"
  BY DEF create, Begin
<1>2. Created("DRAFT", d) \in Row /\ Created("DRAFT", d).definition = d
  BY DEF Created, Row, Status
<1>3. /\ DOMAIN wf' = DOMAIN wf \cup {w} /\ wf'[w].definition = d
      /\ \A v \in DOMAIN wf \ {w} : wf'[v] = wf[v]
  BY <1>1, <1>2, Written DEF IInv
<1>4. /\ req'[r] = [pc |-> "delete", op |-> "create", workflow |-> w, definition |-> d, status |-> Nothing, version |-> 0]
      /\ \A q \in Request \ {r} : req'[q] = req[q]
  <2>1. TypeOK /\ "create" \in Op
    BY DEF IInv, Op
  <2>2. QED
    BY <1>1, <2>1, Begun
<1>5. d # Nothing /\ ~Replacing(r)
  BY <1>1, DefinitionsAssumption DEF Replacing
<1>6. ASSUME NEW v \in DOMAIN wf PROVE Mirror(v)'
  <2>1. v # w /\ Mirror(v) /\ NodesIn(v)' = NodesIn(v) /\ EdgesIn(v)' = EdgesIn(v)
    BY <1>1 DEF MirrorInv, NodesIn, EdgesIn
  <2>2. ~Replaces(r, v) /\ ~Replaces(r, v)'
    BY <1>4, <1>5, <2>1 DEF Replaces
  <2>3. QED
    BY <1>1, <1>3, <1>4, <2>1, <2>2, MirrorKept
<1>7. Mirror(w)'
  <2>1. Replaces(r, w)' /\ Halfway(r, w)' /\ BeingReplaced(w)'
    BY <1>3, <1>4, <1>5 DEF Replaces, Replacing, Halfway, BeingReplaced
  <2>2. \A q \in Request \ {r} : ~Replaces(q, w)'
    BY <1>1, <1>4 DEF Replaces, Replacing, IInv, TypeOK
  <2>3. QED
    BY <2>1, <2>2 DEF Mirror
<1>8. Replacement(req[r])'
  BY <1>4 DEF Replacement
<1>9. QED
  BY <1>3, <1>4, <1>6, <1>7, <1>8, ReplacementKept DEF MirrorInv

LEMMA MirrorUpdated ==
  ASSUME IInv, MirrorInv, NEW r \in Request, NEW w \in Workflow, NEW d \in Definition \cup {Nothing},
         NEW s \in Status \cup {Nothing}, update(r, w, d, s)
  PROVE  MirrorInv'
<1>1. PICK label \in {"write", "delete"} :
        label = (IF d = Nothing THEN "write" ELSE "delete") /\ Begin(r, label, "update", w, d, s, wf[w].version)
  BY DEF update
<1>2. /\ w \in DOMAIN wf /\ req[r].pc = "idle" /\ UNCHANGED <<wf, nodes, edges>>
      /\ disturbed' = IF d = Nothing THEN disturbed ELSE [disturbed EXCEPT ![w] = BeingReplaced(w)]
  BY DEF update, Refused, Found, Begin
<1>3. wf[w].version \in Nat /\ "update" \in Op
  BY <1>2 DEF IInv, TypeOK, Row, Op
<1>4. /\ req'[r] = [pc |-> label, op |-> "update", workflow |-> w, definition |-> d, status |-> s, version |-> wf[w].version]
      /\ \A q \in Request \ {r} : req'[q] = req[q]
  BY <1>1, <1>3, Begun DEF IInv
<1>5. ~Replacing(r) /\ Replacement(req[r])'
  BY <1>2, <1>4 DEF Replacing, Replacement
<1>6. CASE d = Nothing
  <2>1. ~Replacing(r)'
    BY <1>4, <1>6 DEF Replacing
  <2>2. QED
    BY <1>2, <1>4, <1>5, <1>6, <2>1, MirrorRest
<1>7. CASE d # Nothing
  <2>1. disturbed'[w] = BeingReplaced(w) /\ \A v \in DOMAIN wf \ {w} : disturbed'[v] = disturbed[v]
    BY <1>2, <1>7 DEF IInv, TypeOK
  <2>2. \A v \in DOMAIN wf : NodesIn(v)' = NodesIn(v) /\ EdgesIn(v)' = EdgesIn(v)
    BY <1>2 DEF NodesIn, EdgesIn
  <2>3. ASSUME NEW v \in DOMAIN wf, v # w PROVE Mirror(v)'
    <3>1. ~Replaces(r, v) /\ ~Replaces(r, v)' /\ Mirror(v)
      BY <1>4, <1>5, <2>3 DEF Replaces, MirrorInv
    <3>2. QED
      BY <1>2, <1>4, <2>1, <2>2, <2>3, <3>1, MirrorKept
  <2>4. Mirror(w)'
    <3> SUFFICES ASSUME ~BeingReplaced(w) PROVE Mirror(w)'
      BY <2>1 DEF Mirror
    <3>1. label = "delete"
      BY <1>1, <1>7
    <3>2. Replaces(r, w)' /\ Halfway(r, w)' /\ BeingReplaced(w)'
      BY <1>4, <1>7, <3>1 DEF Replaces, Replacing, Halfway, BeingReplaced
    <3>3. \A q \in Request \ {r} : ~Replaces(q, w)'
      BY <1>4 DEF Replaces, Replacing, BeingReplaced
    <3>4. QED
      BY <3>2, <3>3 DEF Mirror
  <2>5. QED
    BY <1>2, <1>4, <1>5, <2>3, <2>4, ReplacementKept DEF MirrorInv
<1>8. QED
  BY <1>6, <1>7

(* activate, pause, archive and runWorkflow hold no graph to store.        *)
LEMMA MirrorBegun ==
  ASSUME IInv, MirrorInv, NEW r \in Request, NEW w \in Workflow,
         activate(r, w) \/ pause(r, w) \/ archive(r, w) \/ runWorkflow(r, w)
  PROVE  MirrorInv'
<1>1. PICK label \in {"write", "run"}, op \in {"activate", "pause", "archive", "run"}, d \in Definition \cup {Nothing},
           s \in Status \cup {Nothing}, v \in Nat :
        /\ Begin(r, label, op, w, d, s, v) /\ UNCHANGED <<wf, nodes, edges, disturbed>>
        /\ label = "write" => d = Nothing
  <2>1. CASE activate(r, w) \/ pause(r, w) \/ archive(r, w)
    BY <2>1 DEF activate, pause, archive, Transition, Status
  <2>2. CASE runWorkflow(r, w)
    <3>1. w \in DOMAIN wf
      BY <2>2 DEF runWorkflow, Refused, Found
    <3>2. wf[w].definition \in Definition /\ wf[w].version \in Nat
      BY <3>1 DEF IInv, TypeOK, Row
    <3>3. QED
      BY <2>2, <3>2 DEF runWorkflow
  <2>3. QED
    BY <2>1, <2>2
<1>2. /\ req'[r] = [pc |-> label, op |-> op, workflow |-> w, definition |-> d, status |-> s, version |-> v]
      /\ \A q \in Request \ {r} : req'[q] = req[q]
  <2>1. TypeOK /\ op \in Op /\ label \in {"delete", "write", "run"}
    BY DEF IInv, Op
  <2>2. QED
    BY <1>1, <2>1, Begun
<1>3. req[r].pc = "idle"
  BY <1>1 DEF Begin
<1>4. ~Replacing(r) /\ ~Replacing(r)' /\ Replacement(req[r])'
  BY <1>1, <1>2, <1>3 DEF Replacing, Replacement
<1>5. QED
  BY <1>1, <1>2, <1>4, MirrorRest

(* A rejected call disturbs what it replaced.                              *)
LEMMA MirrorFailed ==
  ASSUME IInv, MirrorInv, NEW r \in Request, Fail(r)
  PROVE  MirrorInv'
<1>1. PICK u \in Workflow : u = req[r].workflow
  BY DEF IInv, TypeOK, RequestState
<1>2. Goto(r, "over") /\ UNCHANGED <<wf, nodes, edges>>
  BY DEF Fail
<1>3. req'[r] = [req[r] EXCEPT !.pc = "over"] /\ \A q \in Request \ {r} : req'[q] = req[q]
  BY <1>2, Moved DEF IInv
<1>4. req'[r].pc = "over"
  BY <1>3 DEF IInv, TypeOK, RequestState
<1>5. ~Replacing(r)' /\ Replacement(req[r])'
  BY <1>4 DEF Replacing, Replacement
<1>6. /\ disturbed'[u] = (disturbed[u] \/ Replacing(r))
      /\ \A v \in DOMAIN wf \ {u} : disturbed'[v] = disturbed[v]
  <2>1. disturbed' = [disturbed EXCEPT ![u] = disturbed[u] \/ Replacing(r)]
    BY <1>1 DEF Fail
  <2>2. disturbed \in [Workflow -> BOOLEAN] /\ DOMAIN wf \subseteq Workflow
    BY DEF IInv, TypeOK
  <2>3. QED
    BY <2>1, <2>2
<1>7. ASSUME NEW w \in DOMAIN wf PROVE Mirror(w)'
  <2>1. CASE Replaces(r, w)
    <3>1. disturbed'[w]
      BY <1>1, <1>6, <2>1 DEF Replaces
    <3>2. QED
      BY <3>1 DEF Mirror
  <2>2. CASE ~Replaces(r, w)
    <3>1. NodesIn(w)' = NodesIn(w) /\ EdgesIn(w)' = EdgesIn(w) /\ Mirror(w) /\ ~Replaces(r, w)'
      BY <1>2, <1>5 DEF NodesIn, EdgesIn, MirrorInv, Replaces
    <3>2. disturbed[w] => disturbed'[w]
      BY <1>6
    <3>3. QED
      BY <1>2, <1>3, <2>2, <3>1, <3>2, MirrorKept
  <2>3. QED
    BY <2>1, <2>2
<1>8. QED
  BY <1>2, <1>3, <1>5, <1>7, ReplacementKept DEF MirrorInv

(* persistGraph, when no call of it is rejected.                           *)
LEMMA MirrorPersisted ==
  ASSUME IInv, MirrorInv, NEW r \in Request, ~Fail(r), DeleteGraph(r) \/ InsertNodes(r) \/ InsertEdges(r)
  PROVE  MirrorInv'
<1>1. PICK w \in DOMAIN wf, d \in Definition :
        w = req[r].workflow /\ d = req[r].definition /\ d # Nothing /\ req[r] \in RequestState
  <2>1. req[r].pc \in {"delete", "nodes", "edges"}
    BY DEF DeleteGraph, InsertNodes, InsertEdges
  <2>2. req[r].definition \in Valid /\ req[r].workflow \in DOMAIN wf
    BY <2>1 DEF IInv, HeldInv, TypeOK
  <2>3. QED
    BY <2>2, DefinitionsAssumption DEF IInv, TypeOK
<1>2. PICK label \in {"nodes", "edges", "write", "over"} :
        /\ Goto(r, label) /\ UNCHANGED <<wf, disturbed>>
        /\ \/ /\ req[r].pc = "delete" /\ label = "nodes"
              /\ edges' = edges \ EdgesIn(w) /\ nodes' = nodes \ NodesIn(w)
           \/ /\ req[r].pc = "nodes" /\ nodes' = nodes \cup NodeRows(w, d) /\ edges' = edges
              /\ label = IF EdgesOf[d] = {} THEN Afterwards(r) ELSE "edges"
           \/ /\ req[r].pc = "edges" /\ edges' = edges \cup EdgeRows(w, d) /\ nodes' = nodes
              /\ label = Afterwards(r)
  <2>1. CASE DeleteGraph(r)
    BY <1>1, <2>1 DEF DeleteGraph
  <2>2. CASE InsertNodes(r)
    BY <1>1, <2>2 DEF InsertNodes, Afterwards
  <2>3. CASE InsertEdges(r)
    BY <1>1, <2>3 DEF InsertEdges, Afterwards
  <2>4. QED
    BY <2>1, <2>2, <2>3
<1>3. req[r].op \in {"create", "update"} /\ Replaces(r, w) /\ Afterwards(r) = (IF req[r].op = "create" THEN "over" ELSE "write")
  BY <1>1, <1>2 DEF MirrorInv, Replacement, Replaces, Replacing, Afterwards
<1>4. req'[r] = [req[r] EXCEPT !.pc = label] /\ \A q \in Request \ {r} : req'[q] = req[q]
  BY <1>2, Moved DEF IInv
<1>5. req'[r].pc = label /\ req'[r].op = req[r].op /\ req'[r].workflow = w /\ req'[r].definition = d
  BY <1>1, <1>4 DEF RequestState
<1>6. \A v \in DOMAIN wf \ {w} : NodesIn(v)' = NodesIn(v) /\ EdgesIn(v)' = EdgesIn(v)
  <2>1. \A v \in DOMAIN wf \ {w} : NodesIn(v)' = NodesIn(v)
    BY <1>2 DEF NodesIn, NodeRows
  <2>2. \A v \in DOMAIN wf \ {w} : EdgesIn(v)' = EdgesIn(v)
    BY <1>2 DEF EdgesIn, EdgeRows
  <2>3. QED
    BY <2>1, <2>2
<1>7. /\ req[r].pc = "delete" => NodesIn(w)' = {} /\ EdgesIn(w)' = {}
      /\ req[r].pc = "nodes" => NodesIn(w)' = NodesIn(w) \cup NodeRows(w, d) /\ EdgesIn(w)' = EdgesIn(w)
      /\ req[r].pc = "edges" => NodesIn(w)' = NodesIn(w) /\ EdgesIn(w)' = EdgesIn(w) \cup EdgeRows(w, d)
  <2>1. CASE req[r].pc = "delete"
    BY <1>2, <2>1 DEF NodesIn, EdgesIn
  <2>2. CASE req[r].pc = "nodes"
    BY <1>2, <2>2 DEF NodesIn, EdgesIn, NodeRows
  <2>3. CASE req[r].pc = "edges"
    BY <1>2, <2>3 DEF NodesIn, EdgesIn, EdgeRows
  <2>4. QED
    BY <2>1, <2>2, <2>3
<1>8. EdgesOf[d] = {} => EdgeRows(w, d) = {}
  BY DEF EdgeRows
<1>9. Mirror(w)'
  <2>1. ASSUME Halfway(r, w)
        PROVE  /\ label \in {"nodes", "edges"} => Halfway(r, w)'
               /\ label \in {"write", "over"} => IsMirrored(w, d)'
    <3>1. CASE req[r].pc = "delete"
      BY <1>1, <1>2, <1>3, <1>5, <1>7, <2>1, <3>1 DEF Halfway
    <3>2. CASE req[r].pc = "nodes"
      <4>1. NodesIn(w)' = NodeRows(w, d) /\ EdgesIn(w)' = {}
        BY <1>1, <1>7, <2>1, <3>2 DEF Halfway
      <4>2. QED
        BY <1>1, <1>2, <1>3, <1>5, <1>8, <2>1, <3>2, <4>1 DEF Halfway, IsMirrored
    <3>3. CASE req[r].pc = "edges"
      <4>1. NodesIn(w)' = NodeRows(w, d) /\ EdgesIn(w)' = EdgeRows(w, d)
        BY <1>1, <1>7, <2>1, <3>3 DEF Halfway
      <4>2. QED
        BY <1>2, <1>3, <3>3, <4>1 DEF IsMirrored
    <3>4. QED
      BY <1>2, <3>1, <3>2, <3>3
  <2>2. Replaces(r, w)' <=> label # "over"
    BY <1>1, <1>3, <1>5 DEF Replaces, Replacing
  <2>3. Halfway(r, w) /\ Replaces(r, w)' => Halfway(r, w)'
    <3>1. CASE label \in {"nodes", "edges"}
      BY <2>1, <3>1
    <3>2. CASE label = "write"
      <4>1. req[r].op = "update"
        BY <1>2, <1>3, <3>2
      <4>2. QED
        BY <1>5, <2>1, <3>2, <4>1 DEF Halfway
    <3>3. QED
      BY <2>2, <3>1, <3>2
  <2>4. Halfway(r, w) /\ ~Replaces(r, w)' => IsMirrored(w, wf[w].definition)'
    <3>1. ASSUME Halfway(r, w), label = "over" PROVE IsMirrored(w, wf[w].definition)'
      <4>1. req[r].op = "create" /\ wf[w].definition = d
        BY <1>1, <1>2, <1>3, <3>1 DEF Halfway
      <4>2. wf'[w].definition = d
        BY <1>2, <4>1
      <4>3. IsMirrored(w, d)'
        BY <2>1, <3>1
      <4>4. QED
        BY <4>2, <4>3 DEF IsMirrored, NodeRows, EdgeRows
    <3>2. QED
      BY <2>2, <3>1
  <2>5. QED
    BY <1>2, <1>3, <1>4, <2>3, <2>4, MirrorMoves DEF MirrorInv
<1>10. ASSUME NEW v \in DOMAIN wf, v # w PROVE Mirror(v)'
  <2>1. ~Replaces(r, v) /\ ~Replaces(r, v)' /\ Mirror(v)
    BY <1>1, <1>5, <1>10 DEF Replaces, MirrorInv
  <2>2. QED
    BY <1>2, <1>4, <1>6, <1>10, <2>1, MirrorKept
<1>11. Replacement(req[r])'
  BY <1>2, <1>3, <1>5 DEF Replacement
<1>12. QED
  BY <1>2, <1>4, <1>9, <1>10, <1>11, ReplacementKept DEF MirrorInv

(* workflow.update: the graph the tables have by then becomes the          *)
(* definition.                                                             *)
LEMMA MirrorWritten ==
  ASSUME IInv, MirrorInv, NEW r \in Request, WriteRow(r)
  PROVE  MirrorInv'
<1>1. /\ req[r].pc = "write" /\ Write(req[r].workflow, NewRow(r)) /\ Goto(r, "over")
      /\ UNCHANGED <<nodes, edges, disturbed>>
  BY WriteRowWrites DEF WriteRow
<1>2. PICK w \in DOMAIN wf : w = req[r].workflow
  BY <1>1, NewRowType DEF IInv
<1>3. /\ NewRow(r) \in Row /\ w \in Workflow
      /\ req[r].definition = Nothing => NewRow(r).definition = wf[w].definition
      /\ req[r].definition # Nothing => NewRow(r).definition = req[r].definition
  BY <1>1, <1>2, NewRowType DEF IInv
<1>4. DOMAIN wf' = DOMAIN wf /\ wf'[w] = NewRow(r) /\ \A v \in DOMAIN wf \ {w} : wf'[v] = wf[v]
  <2> DEFINE row == NewRow(r)
  <2>1. TypeOK /\ row \in Row /\ Write(w, row)
    BY <1>1, <1>2, <1>3 DEF IInv
  <2> HIDE DEF row
  <2>2. DOMAIN wf' = DOMAIN wf \cup {w} /\ wf'[w] = row /\ \A v \in DOMAIN wf \ {w} : wf'[v] = wf[v]
    BY <1>3, <2>1, Written
  <2>3. QED
    BY <2>2 DEF row
<1>5. req'[r] = [req[r] EXCEPT !.pc = "over"] /\ \A q \in Request \ {r} : req'[q] = req[q]
  BY <1>1, Moved DEF IInv
<1>6. req'[r].pc = "over"
  BY <1>5 DEF IInv, TypeOK, RequestState
<1>7. ~Replacing(r)' /\ Replacement(req[r])'
  BY <1>6 DEF Replacing, Replacement
<1>8. \A v \in DOMAIN wf : NodesIn(v)' = NodesIn(v) /\ EdgesIn(v)' = EdgesIn(v) /\ ~Replaces(r, v)'
  BY <1>1, <1>7 DEF NodesIn, EdgesIn, Replaces
<1>9. ASSUME NEW v \in DOMAIN wf PROVE Mirror(v)'
  <2>1. CASE Replaces(r, v)
    <3>1. v = w /\ wf'[v].definition = req[r].definition
      BY <1>2, <1>3, <1>4, <2>1 DEF Replaces, Replacing
    <3>2. Halfway(r, v) => IsMirrored(v, req[r].definition)
      BY <1>1 DEF Halfway
    <3>3. Halfway(r, v) => IsMirrored(v, wf[v].definition)'
      BY <1>1, <1>8, <3>1, <3>2 DEF IsMirrored, NodeRows, EdgeRows
    <3>4. QED
      BY <1>1, <1>5, <1>8, <2>1, <3>3, MirrorMoves DEF MirrorInv
  <2>2. CASE ~Replaces(r, v)
    <3>1. wf'[v].definition = wf[v].definition
      <4>1. CASE v # w
        BY <1>4, <4>1
      <4>2. CASE v = w
        <5>1. req[r].definition = Nothing
          BY <1>1, <1>2, <2>2, <4>2 DEF Replaces, Replacing, MirrorInv, Replacement
        <5>2. QED
          BY <1>3, <1>4, <4>2, <5>1
      <4>3. QED
        BY <4>1, <4>2
    <3>2. QED
      BY <1>1, <1>5, <1>8, <2>2, <3>1, MirrorKept DEF MirrorInv
  <2>3. QED
    BY <2>1, <2>2
<1>10. QED
  BY <1>4, <1>5, <1>7, <1>9, ReplacementKept DEF MirrorInv

LEMMA MirrorRun ==
  ASSUME IInv, MirrorInv, NEW r \in Request, InsertRun(r)
  PROVE  MirrorInv'
<1>1. req[r].pc = "run" /\ Goto(r, "over") /\ UNCHANGED <<wf, nodes, edges, disturbed>>
  BY DEF InsertRun
<1>2. req'[r] = [req[r] EXCEPT !.pc = "over"] /\ \A q \in Request \ {r} : req'[q] = req[q]
  BY <1>1, Moved DEF IInv
<1>3. req'[r].pc = "over"
  BY <1>2 DEF IInv, TypeOK, RequestState
<1>4. ~Replacing(r) /\ ~Replacing(r)' /\ Replacement(req[r])'
  BY <1>1, <1>3 DEF Replacing, Replacement
<1>5. QED
  BY <1>1, <1>2, <1>4, MirrorRest

LEMMA MirrorInit ==
  ASSUME Init
  PROVE  MirrorInv
<1>1. \A r \in Request : req[r].pc = "idle" /\ ~Replacing(r)
  BY DEF Init, Replacing
<1>2. ASSUME NEW w \in DOMAIN wf PROVE IsMirrored(w, wf[w].definition)
  <2>1. NodesIn(w) = NodeRows(w, wf[w].definition)
    BY DEF Init, NodesIn, NodeRows
  <2>2. EdgesIn(w) = EdgeRows(w, wf[w].definition)
    BY DEF Init, EdgesIn, EdgeRows
  <2>3. QED
    BY <2>1, <2>2 DEF IsMirrored
<1>3. \A w \in DOMAIN wf : Mirror(w)
  BY <1>1, <1>2 DEF Mirror, Replaces
<1>4. QED
  BY <1>1, <1>3 DEF MirrorInv, Replacement

LEMMA MirrorNext == IInv /\ MirrorInv /\ [Next]_vars => MirrorInv'
<1> SUFFICES ASSUME IInv, MirrorInv, [Next]_vars PROVE MirrorInv'
  OBVIOUS
<1>1. CASE Next
  <2>1. PICK r \in Request :
          \/ \E w \in Workflow :
               \/ \E op \in Op, d \in Definition \cup {Nothing} : Refuse(r, op, w, d)
               \/ \E d \in Definition : create(r, w, d)
               \/ \E d \in Definition \cup {Nothing}, s \in Status \cup {Nothing} : update(r, w, d, s)
               \/ activate(r, w) \/ pause(r, w) \/ archive(r, w) \/ runWorkflow(r, w)
          \/ Continue(r)
    BY <1>1 DEF Next
  <2>2. ASSUME NEW w \in Workflow, NEW op \in Op, NEW d \in Definition \cup {Nothing}, Refuse(r, op, w, d)
        PROVE  MirrorInv'
    BY <2>2, MirrorRefused
  <2>3. ASSUME NEW w \in Workflow, NEW d \in Definition, create(r, w, d)
        PROVE  MirrorInv'
    BY <2>3, MirrorCreated
  <2>4. ASSUME NEW w \in Workflow, NEW d \in Definition \cup {Nothing}, NEW s \in Status \cup {Nothing},
               update(r, w, d, s)
        PROVE  MirrorInv'
    BY <2>4, MirrorUpdated
  <2>5. ASSUME NEW w \in Workflow, activate(r, w) \/ pause(r, w) \/ archive(r, w) \/ runWorkflow(r, w)
        PROVE  MirrorInv'
    BY <2>5, MirrorBegun
  <2>6. CASE Continue(r)
    <3>1. CASE Fail(r)
      BY <3>1, MirrorFailed
    <3>2. CASE ~Fail(r) /\ (DeleteGraph(r) \/ InsertNodes(r) \/ InsertEdges(r))
      BY <3>2, MirrorPersisted
    <3>3. CASE WriteRow(r)
      BY <3>3, MirrorWritten
    <3>4. CASE InsertRun(r)
      BY <3>4, MirrorRun
    <3>5. QED
      BY <2>6, <3>1, <3>2, <3>3, <3>4 DEF Continue, DbError
  <2>7. QED
    BY <2>1, <2>2, <2>3, <2>4, <2>5, <2>6
<1>2. CASE UNCHANGED vars
  <2>1. UNCHANGED <<wf, nodes, edges, req, disturbed>>
    BY <1>2 DEF vars
  <2>2. \A w \in DOMAIN wf : NodesIn(w)' = NodesIn(w) /\ EdgesIn(w)' = EdgesIn(w)
    BY <2>1 DEF NodesIn, EdgesIn
  <2>3. \A r \in Request, w \in DOMAIN wf : (Replaces(r, w)' <=> Replaces(r, w)) /\ (Halfway(r, w) => Halfway(r, w)')
    BY <2>1, <2>2 DEF Replaces, Replacing, Halfway, IsMirrored
  <2>4. \A w \in DOMAIN wf : (BeingReplaced(w)' <=> BeingReplaced(w))
    BY <2>1 DEF BeingReplaced, Replacing
  <2>5. \A w \in DOMAIN wf : IsMirrored(w, wf[w].definition) => IsMirrored(w, wf[w].definition)'
    BY <2>1, <2>2 DEF IsMirrored
  <2>6. \A w \in DOMAIN wf : Mirror(w) => Mirror(w)'
    BY <2>1, <2>3, <2>4, <2>5 DEF Mirror
  <2>7. QED
    BY <2>1, <2>6 DEF MirrorInv
<1>3. QED
  BY <1>1, <1>2

(* persistGraph: when no request is replacing the graph of a workflow, its *)
(* rows of nodes and edges are those of its definition, unless the last    *)
(* replacement failed or overlapped another.                               *)
THEOREM TablesAreTheDefinition == Spec => []TablesMirror
<1>1. MirrorInv => TablesMirror
  BY DEF MirrorInv, Mirror, TablesMirror, IsMirrored
<1>2. QED
  BY <1>1, MirrorInit, MirrorNext, Invariance, PTL DEF Spec

=============================================================================
