----------------------- MODULE WorkflowRunner_proofs -----------------------
(***************************************************************************)
(* Theorems about WorkflowRunner, for every set of graphs, every number of *)
(* cancellations and every number of database errors.                      *)
(***************************************************************************)
EXTENDS WorkflowRunner, SequenceTheorems, TLAPS

-----------------------------------------------------------------------------
(* Paths.                                                                  *)

(* A path extended by an edge.                                             *)
LEMMA AppendPath ==
  ASSUME NEW p \in Path, NEW e \in Nat
  PROVE  /\ Append(p, e) \in Path
         /\ Len(Append(p, e)) = Len(p) + 1
         /\ \A i \in 1..Len(p) : Append(p, e)[i] = p[i]
         /\ Append(p, e)[Len(p) + 1] = e
         /\ Append(p, e) # <<>>
BY DEF Path

(* The path of a child extends its parent, and whatever its parent extends.*)
LEMMA AppendExtends ==
  ASSUME NEW p \in Path, NEW e \in Nat, NEW r \in Path
  PROVE  /\ IsChild(Append(p, e), p)
         /\ Extends(p, r) => Extends(Append(p, e), r)
         /\ Extends(Append(p, e), r) => r = p \/ Extends(p, r)
         /\ ~Extends(p, Append(p, e))
<1> DEFINE q == Append(p, e)
<1>1. /\ q \in Path /\ Len(q) = Len(p) + 1 /\ Len(p) \in Nat /\ Len(r) \in Nat
      /\ \A i \in 1..Len(p) : q[i] = p[i]
  BY AppendPath DEF Path
<1> HIDE DEF q
<1>2. IsChild(q, p) /\ ~Extends(p, q)
  BY <1>1 DEF IsChild, Extends
<1>3. Extends(p, r) => Extends(q, r)
  BY <1>1 DEF Extends
<1>4. ASSUME Extends(q, r), r # p
      PROVE  Extends(p, r)
  <2>1. Len(r) <= Len(p) /\ \A i \in 1..Len(r) : p[i] = r[i]
    BY <1>1, <1>4 DEF Extends
  <2>2. Len(r) # Len(p)
    BY <2>1, <1>4, SeqEqual DEF Path
  <2>. QED BY <2>1, <2>2, <1>1 DEF Extends
<1>. QED BY <1>2, <1>3, <1>4 DEF q

LEMMA ExtendsTransitive ==
  ASSUME NEW p \in Path, NEW q \in Path, NEW r \in Path,
         Extends(r, q), Extends(q, p)
  PROVE  Extends(r, p)
<1>1. Len(p) \in Nat /\ Len(q) \in Nat /\ Len(r) \in Nat
  BY DEF Path
<1>. QED BY <1>1 DEF Extends

(* Every activation but the root lies below the root.                      *)
LEMMA RootIsExtended ==
  ASSUME NEW p \in Path, p # <<>>
  PROVE  <<>> \in Path /\ Extends(p, <<>>)
<1>1. Len(p) \in Nat \ {0} /\ <<>> \in Path /\ Len(<<>>) = 0
  BY EmptySeq DEF Path
<1>. QED BY <1>1 DEF Extends
-----------------------------------------------------------------------------
(* Every step of walk() has the same shape: one activation in flight goes  *)
(* on, to frame f, and starts the activations Q, which are new.            *)

Early == {"handler", "persist", "log", "branch"}

Goes(p, f, Q) ==
  /\ p \in DOMAIN frame /\ frame[p].pc \in Early \cup {"await"}
  /\ f \in Frame
  /\ frame' = Spawn([frame EXCEPT ![p] = f], Q)
  /\ Q \subseteq {Append(p, e) : e \in DOMAIN snapshot.edges}
  /\ Q \cap DOMAIN frame = {}
  /\ Q # {} => f.pc = "await"

(* What f may be.                                                          *)
WellFormed(p, f, Q) ==
  /\ f.todo \subseteq DOMAIN snapshot.edges
  /\ f.pc \in Early => frame[p].pc \in Early /\ f.todo = {}
  /\ \A e \in f.todo : Append(p, e) \notin DOMAIN frame \cup Q
  /\ f.pc = "done" => \A q \in DOMAIN frame : IsChild(q, p) => frame[q].pc = "done"
  /\ f.pc = "branch" => [path |-> p, ok |-> f.ok] \in log'
  /\ f.pc \in {"await", "done"} => [path |-> p, ok |-> TRUE] \in log'

(* What a step of walk() leaves alone.                                     *)
Keeps ==
  /\ UNCHANGED <<snapshot, phase, alive, cancel>>
  /\ row' \in [status: {row.status}, currentNode: Node \cup {NoNode}, context: Context]
  /\ ctx' \in Context
  /\ log \subseteq log' /\ log' \subseteq [path: Path, ok: BOOLEAN]
  /\ dbErrors' \in Nat

(* A node reached along a path is a node of the graph.                     *)
LEMMA NodeAtType ==
  ASSUME TypeOK, NEW p \in DOMAIN frame
  PROVE  NodeAt(p) \in DOMAIN snapshot.type /\ NodeAt(p) \in Node
<1>1. IsWorkflowGraph(snapshot)
  BY GraphsAssumption DEF TypeOK
<1>2. CASE p = <<>>
  BY <1>1, <1>2 DEF IsWorkflowGraph, NodeAt, TriggerNode
<1>3. CASE p # <<>>
  <2>1. p[Len(p)] \in DOMAIN snapshot.edges
    BY <1>3 DEF TypeOK
  <2>. QED BY <1>1, <1>3, <2>1 DEF IsWorkflowGraph, NodeAt
<1>. QED BY <1>2, <1>3

(* Edges are indexed by naturals.                                          *)
LEMMA EdgesAreNat ==
  ASSUME TypeOK
  PROVE  DOMAIN snapshot.edges \subseteq Nat
<1>1. snapshot.edges \in Seq(WorkflowEdge)
  BY GraphsAssumption DEF TypeOK, IsWorkflowGraph
<1>. QED BY <1>1

LEMMA WalkStepShape ==
  ASSUME IInv, NEW p \in DOMAIN frame, WalkStep(p)
  PROVE  Keeps /\ \E f \in Frame, Q \in SUBSET Path : Goes(p, f, Q) /\ WellFormed(p, f, Q)
<1> USE DEF At, Goto
<1>0. /\ frame \in [DOMAIN frame -> Frame] /\ frame[p] \in Frame
      /\ p \in Path
      /\ frame[p].todo \subseteq DOMAIN snapshot.edges
      /\ frame[p].pc \in Early => /\ frame[p].todo = {}
                                 /\ \A q \in DOMAIN frame : ~Extends(q, p)
      /\ \A e \in frame[p].todo : Append(p, e) \notin DOMAIN frame
      /\ ctx \in Context /\ log \subseteq [path: Path, ok: BOOLEAN] /\ dbErrors \in Nat
      /\ row \in [status: Status, currentNode: Node \cup {NoNode}, context: Context]
      /\ DOMAIN snapshot.edges \subseteq Nat
      /\ NodeAt(p) \in Node
  BY EdgesAreNat, NodeAtType DEF IInv, TypeOK, SpawnInv, Early
(* Steps that start nothing: the frame they write decides.                 *)
<1>1. ASSUME NEW f \in Frame, frame' = [frame EXCEPT ![p] = f],
             frame[p].pc \in Early \cup {"await"}
      PROVE  Goes(p, f, {})
  BY <1>0, <1>1 DEF Goes, Spawn, Early
<1>2. CASE HandlerReturns(p)
  <2>1. ctx' \in Context
    <3> DEFINE written == [ctx EXCEPT !.setBy = @ \cup {NodeAt(p)}]
    <3>1. written \in Context /\ \A b \in {"true", "false"} :
             [written EXCEPT !.lastCondition = b] \in Context
      BY <1>0 DEF Context
    <3> HIDE DEF written
    <3>2. ctx' \in {[written EXCEPT !.lastCondition = b] : b \in {"true", "false"}}
                   \cup {written, ctx}
      BY <1>2 DEF HandlerReturns, AfterHandler, written
    <3>. QED BY <1>0, <3>1, <3>2
  <2> DEFINE f == [frame[p] EXCEPT !.pc = "persist", !.ok = TRUE, !.sent = ctx']
  <2>2. f \in Frame /\ frame' = [frame EXCEPT ![p] = f]
    BY <1>0, <1>2, <2>1 DEF HandlerReturns, Frame
  <2>3. Goes(p, f, {}) /\ WellFormed(p, f, {})
    BY <1>0, <1>1, <1>2, <2>2 DEF HandlerReturns, WellFormed, Early, Frame
  <2>4. Keeps
    BY <1>0, <1>2, <2>1 DEF HandlerReturns, Keeps
  <2>. QED BY <2>2, <2>3, <2>4
<1>3. CASE HandlerFails(p)
  <2> DEFINE f == [frame[p] EXCEPT !.pc = "persist", !.ok = FALSE, !.sent = ctx]
  <2>2. f \in Frame /\ frame' = [frame EXCEPT ![p] = f]
    BY <1>0, <1>3 DEF HandlerFails, Frame
  <2>3. Goes(p, f, {}) /\ WellFormed(p, f, {})
    BY <1>0, <1>1, <1>3, <2>2 DEF HandlerFails, WellFormed, Early, Frame
  <2>4. Keeps
    BY <1>0, <1>3 DEF HandlerFails, Keeps
  <2>. QED BY <2>2, <2>3, <2>4
<1>4. CASE PersistContext(p)
  <2> DEFINE f == [frame[p] EXCEPT !.pc = "log"]
  <2>2. f \in Frame /\ frame' = [frame EXCEPT ![p] = f]
    BY <1>0, <1>4 DEF PersistContext, Frame
  <2>3. Goes(p, f, {}) /\ WellFormed(p, f, {})
    BY <1>0, <1>1, <1>4, <2>2 DEF PersistContext, WellFormed, Early, Frame
  <2>4. Keeps
    BY <1>0, <1>4 DEF PersistContext, Keeps, Frame
  <2>. QED BY <2>2, <2>3, <2>4
<1>5. CASE WriteLog(p)
  <2> DEFINE f == [frame[p] EXCEPT !.pc = "branch"]
  <2>2. f \in Frame /\ frame' = [frame EXCEPT ![p] = f]
    BY <1>0, <1>5 DEF WriteLog, Frame
  <2>3. Goes(p, f, {}) /\ WellFormed(p, f, {})
    BY <1>0, <1>1, <1>5, <2>2 DEF WriteLog, WellFormed, Early, Frame
  <2>4. Keeps
    BY <1>0, <1>5 DEF WriteLog, Keeps, Frame
  <2>. QED BY <2>2, <2>3, <2>4
<1>6. CASE WriteRejected(p) \/ Throw(p) \/ Propagate(p)
  <2> DEFINE f == [frame[p] EXCEPT !.pc = "failed"]
  <2>2. f \in Frame /\ frame' = [frame EXCEPT ![p] = f] /\ frame[p].pc \in Early \cup {"await"}
    BY <1>0, <1>6 DEF WriteRejected, Throw, Propagate, Frame, Early
  <2>3. Goes(p, f, {}) /\ WellFormed(p, f, {})
    BY <1>0, <1>1, <2>2 DEF WellFormed, Early, Frame
  <2>4. Keeps
    BY <1>0, <1>6 DEF WriteRejected, Throw, Propagate, Keeps, DbError
  <2>. QED BY <2>2, <2>3, <2>4
<1>7. CASE Stop(p) \/ Return(p)
  <2> DEFINE f == [frame[p] EXCEPT !.pc = "done"]
  <2>2. f \in Frame /\ frame' = [frame EXCEPT ![p] = f] /\ frame[p].pc \in {"branch", "await"}
    BY <1>0, <1>7 DEF Stop, Return, Frame
  <2>3. \A q \in DOMAIN frame : IsChild(q, p) => frame[q].pc = "done"
    BY <1>0, <1>7 DEF Stop, Return, ChildrenDone, Children, IsChild, Early
  <2>4. [path |-> p, ok |-> TRUE] \in log /\ log' = log
    BY <1>0, <1>7 DEF Stop, Return, IInv, LogInv
  <2>5. Goes(p, f, {}) /\ WellFormed(p, f, {})
    BY <1>0, <1>1, <2>2, <2>3, <2>4 DEF WellFormed, Early, Frame
  <2>6. Keeps
    BY <1>0, <1>7 DEF Stop, Return, Keeps
  <2>. QED BY <2>2, <2>5, <2>6
<1>8. CASE Fork(p)
  <2> DEFINE f == [frame[p] EXCEPT !.pc = "await"]
  <2>1. PICK es \in SUBSET DOMAIN snapshot.edges :
          frame' = Spawn([frame EXCEPT ![p] = f], {Append(p, e) : e \in es})
    BY <1>8 DEF Fork, MatchingEdges, OutgoingEdges
  <2> DEFINE Q == {Append(p, e) : e \in es}
  <2>2. f \in Frame /\ frame[p].pc = "branch" /\ frame[p].ok
    BY <1>0, <1>8 DEF Fork, Frame
  <2>3. Q \subseteq Path /\ Q \cap DOMAIN frame = {}
    <3>1. ASSUME NEW e \in es
          PROVE  Append(p, e) \in Path /\ Append(p, e) \notin DOMAIN frame
      <4>1. e \in Nat
        BY <1>0
      <4>. QED BY <1>0, <2>2, <4>1, AppendPath, AppendExtends DEF Early, IsChild
    <3>. QED BY <3>1
  <2>4. Goes(p, f, Q)
    BY <1>0, <2>1, <2>2, <2>3 DEF Goes, Early, Frame
  <2>5. [path |-> p, ok |-> TRUE] \in log /\ log' = log
    BY <1>0, <1>8, <2>2 DEF Fork, IInv, LogInv, Frame
  <2>6. WellFormed(p, f, Q)
    BY <1>0, <2>2, <2>5 DEF WellFormed, Early, Frame
  <2>7. Keeps
    BY <1>0, <1>8 DEF Fork, Keeps
  <2>. QED BY <2>2, <2>3, <2>4, <2>6, <2>7
<1>9. CASE Descend(p)
  <2>1. PICK es \in SUBSET DOMAIN snapshot.edges, e \in DOMAIN snapshot.edges :
          /\ e \in es
          /\ frame' = Spawn([frame EXCEPT ![p] =
                               [frame[p] EXCEPT !.pc = "await", !.todo = es \ {e}]],
                            {Append(p, e)})
    BY <1>9 DEF Descend, MatchingEdges, OutgoingEdges, IsFirst
  <2> DEFINE f == [frame[p] EXCEPT !.pc = "await", !.todo = es \ {e}]
             Q == {Append(p, e)}
  <2>2. f \in Frame /\ frame[p].pc = "branch" /\ frame[p].ok
    BY <1>0, <1>9 DEF Descend, Frame
  <2>3. \A d \in es : Append(p, d) \in Path /\ Append(p, d) \notin DOMAIN frame
    <3>1. ASSUME NEW d \in es
          PROVE  Append(p, d) \in Path /\ Append(p, d) \notin DOMAIN frame
      <4>1. d \in Nat
        BY <1>0
      <4>. QED BY <1>0, <2>2, <4>1, AppendPath, AppendExtends DEF Early, IsChild
    <3>. QED BY <3>1
  <2>4. Goes(p, f, Q)
    BY ZenonT(40), <1>0, <2>1, <2>2, <2>3 DEF Goes, Early, Frame
  <2>5. [path |-> p, ok |-> TRUE] \in log /\ log' = log
    BY <1>0, <1>9, <2>2 DEF Descend, IInv, LogInv, Frame
  <2>6. \A d \in es \ {e} : Append(p, d) \notin DOMAIN frame \cup Q
    BY <1>0, <2>3, AppendPath
  <2>7. WellFormed(p, f, Q)
    BY <1>0, <2>2, <2>5, <2>6 DEF WellFormed, Early, Frame
  <2>8. Keeps
    BY <1>0, <1>9 DEF Descend, Keeps
  <2>. QED BY <2>1, <2>2, <2>3, <2>4, <2>7, <2>8
<1>10. CASE NextEdge(p)
  <2>1. PICK e \in frame[p].todo :
          frame' = Spawn([frame EXCEPT ![p] =
                            [frame[p] EXCEPT !.todo = frame[p].todo \ {e}]],
                         {Append(p, e)})
    BY <1>0, <1>10 DEF NextEdge
  <2> DEFINE f == [frame[p] EXCEPT !.todo = frame[p].todo \ {e}]
             Q == {Append(p, e)}
  <2>2. f \in Frame /\ frame[p].pc = "await"
    BY <1>0, <1>10 DEF NextEdge, Frame
  <2>3. \A d \in frame[p].todo : Append(p, d) \in Path /\ Append(p, d) \notin DOMAIN frame
    BY <1>0, AppendPath
  <2>4. Goes(p, f, Q)
    BY ZenonT(40), <1>0, <2>1, <2>2, <2>3 DEF Goes, Early, Frame
  <2>5. [path |-> p, ok |-> TRUE] \in log /\ log' = log
    BY <1>0, <1>10, <2>2 DEF NextEdge, IInv, LogInv
  <2>6. \A d \in frame[p].todo \ {e} : Append(p, d) \notin DOMAIN frame \cup Q
    BY <1>0, <2>3, AppendPath
  <2>7. WellFormed(p, f, Q)
    BY <1>0, <2>2, <2>5, <2>6 DEF WellFormed, Early, Frame
  <2>8. Keeps
    BY <1>0, <1>10 DEF NextEdge, Keeps
  <2>. QED BY <2>2, <2>3, <2>4, <2>7, <2>8
<1>. QED
  BY <1>2, <1>3, <1>4, <1>5, <1>6, <1>7, <1>8, <1>9, <1>10 DEF WalkStep, IInv
-----------------------------------------------------------------------------
(* The children of p on the way to one activation are the same child.      *)
LEMMA SameChild ==
  ASSUME NEW p \in Path, NEW c \in Path, NEW x \in Path, NEW y \in Path,
         IsChild(c, p), IsChild(x, p), c = y \/ Extends(y, c), x = y \/ Extends(y, x)
  PROVE  c = x
<1>1. Len(c) = Len(x) /\ Len(p) \in Nat /\ Len(c) \in Nat /\ Len(y) \in Nat
  BY DEF IsChild, Path
<1>2. \A i \in 1..Len(c) : c[i] = x[i]
  BY <1>1 DEF Extends
<1>. QED BY <1>1, <1>2, SeqEqual DEF Path

(* An activation has one parent.                                           *)
LEMMA SameParent ==
  ASSUME NEW p \in Path, NEW x \in Path, NEW y \in Path, IsChild(y, p), IsChild(y, x)
  PROVE  x = p
<1>1. Len(x) = Len(p) /\ Len(p) \in Nat
  BY DEF IsChild, Path
<1>2. \A i \in 1..Len(x) : x[i] = p[i]
  BY <1>1 DEF IsChild, Extends
<1>. QED BY <1>1, <1>2, SeqEqual DEF Path

(* A new activation is a leaf; what lies above it lies above, or is, p.    *)
LEMMA NewLeaves ==
  ASSUME IInv, NEW p, NEW f, NEW Q \in SUBSET Path, Goes(p, f, Q), NEW x \in Q
  PROVE  /\ x \in Path /\ p \in Path /\ IsChild(x, p) /\ x # p
         /\ \A y \in DOMAIN frame \cup Q : ~Extends(y, x)
         /\ \A r \in Path : Extends(x, r) <=> r = p \/ Extends(p, r)
<1>0. p \in DOMAIN frame /\ p \in Path /\ DOMAIN frame \subseteq Path
  BY DEF Goes, IInv, TypeOK
<1>1. PICK e \in Nat : x = Append(p, e)
  BY EdgesAreNat DEF Goes, IInv
<1>2. IsChild(x, p) /\ Len(p) \in Nat /\ Len(x) = Len(p) + 1
  BY <1>0, <1>1, AppendPath, AppendExtends DEF Path
<1>3. ASSUME NEW y \in DOMAIN frame
      PROVE  ~Extends(y, x)
  <2>1. SUFFICES ASSUME Extends(y, x) PROVE FALSE
    OBVIOUS
  <2>2. Extends(y, p)
    BY <1>0, <1>2, <2>1, ExtendsTransitive DEF IsChild
  <2>3. PICK c \in DOMAIN frame : IsChild(c, p) /\ (c = y \/ Extends(y, c))
    BY <1>0, <2>2 DEF IInv, TreeInv
  <2>4. c = x
    BY <1>0, <1>2, <2>1, <2>3, SameChild
  <2>. QED BY <2>4 DEF Goes
<1>4. ASSUME NEW y \in Q
      PROVE  ~Extends(y, x)
  <2>1. PICK d \in Nat : y = Append(p, d)
    BY EdgesAreNat DEF Goes, IInv
  <2>2. Len(y) = Len(p) + 1
    BY <1>0, <2>1, AppendPath
  <2>. QED BY <1>2, <2>2 DEF Extends
<1>5. x # p
  BY <1>2
<1>6. \A r \in Path : Extends(x, r) <=> r = p \/ Extends(p, r)
  BY <1>0, <1>1, <1>2, AppendExtends DEF IsChild
<1>. QED BY <1>0, <1>2, <1>3, <1>4, <1>5, <1>6

(* A step of walk() preserves the invariant.                               *)
LEMMA WalkPreserves ==
  ASSUME IInv, NEW p, NEW f \in Frame, NEW Q \in SUBSET Path,
         Goes(p, f, Q), WellFormed(p, f, Q), Keeps
  PROVE  IInv'
<1> DEFINE D == DOMAIN frame
<1>1. /\ p \in D /\ D \subseteq Path /\ frame \in [D -> Frame]
      /\ frame[p].pc \in Early \cup {"await"}
      /\ Q \cap D = {} /\ p \notin Q
      /\ Q # {} => f.pc = "await"
  BY DEF Goes, IInv, TypeOK
<1>2. /\ DOMAIN frame' = D \cup Q
      /\ \A q \in Q : frame'[q] = NewFrame
      /\ frame'[p] = f
      /\ \A q \in D : q # p => frame'[q] = frame[q]
  BY <1>1 DEF Goes, Spawn
<1>3. NewFrame \in Frame /\ NewFrame.pc = "handler" /\ NewFrame.todo = {}
  BY DEF NewFrame, Frame, NoContext, Context
<1>4. TypeOK'
  <2>1. frame' \in [DOMAIN frame' -> Frame]
    BY <1>1, <1>2, <1>3 DEF Goes, Spawn
  <2>2. DOMAIN frame' \subseteq Path
    BY <1>1, <1>2
  <2>3. snapshot' = snapshot
    BY DEF Keeps
  <2>4. ASSUME NEW q \in DOMAIN frame'
        PROVE  /\ q # <<>> => q[Len(q)] \in DOMAIN snapshot.edges
               /\ frame'[q].todo \subseteq DOMAIN snapshot.edges
    <3>1. CASE q \in Q
      <4>1. PICK e \in DOMAIN snapshot.edges : q = Append(p, e)
        BY <3>1 DEF Goes
      <4>2. e \in Nat
        BY EdgesAreNat DEF IInv
      <4>3. Len(q) = Len(p) + 1 /\ q[Len(p) + 1] = e
        BY <1>1, <4>1, <4>2, AppendPath
      <4>. QED BY <1>2, <1>3, <3>1, <4>3
    <3>2. CASE q \in D /\ q # p
      BY <1>2, <3>2 DEF IInv, TypeOK
    <3>3. CASE q = p
      BY <1>1, <1>2, <3>3 DEF IInv, TypeOK, WellFormed
    <3>. QED BY <1>2, <3>1, <3>2, <3>3
  <2>5. /\ snapshot' \in Graphs
        /\ phase' \in Phase /\ cancel' \in [Canceller -> {"idle", "read", "over"}]
        /\ alive' \in BOOLEAN
    BY DEF IInv, TypeOK, Keeps
  <2>6. row' \in [status: Status, currentNode: Node \cup {NoNode}, context: Context]
    BY DEF IInv, TypeOK, Keeps
  <2>. QED BY <2>1, <2>2, <2>3, <2>4, <2>5, <2>6 DEF TypeOK, Keeps
<1>5. RootInv'
  BY <1>1, <1>2 DEF IInv, RootInv, Keeps
<1>6. TreeInv'
  <2>1. SUFFICES ASSUME NEW x \in D \cup Q, NEW y \in D \cup Q, Extends(y, x)
                 PROVE  \E c \in D \cup Q : IsChild(c, x) /\ (c = y \/ Extends(y, c))
    BY <1>2 DEF TreeInv
  <2>2. x \in D
    BY <2>1, NewLeaves
  <2>3. CASE y \in D
    BY <2>1, <2>2, <2>3 DEF IInv, TreeInv
  <2>4. CASE y \in Q /\ x = p
    BY <2>4, NewLeaves
  <2>5. CASE y \in Q /\ Extends(p, x)
    <3>1. PICK c \in D : IsChild(c, x) /\ (c = p \/ Extends(p, c))
      BY <1>1, <2>2, <2>5 DEF IInv, TreeInv
    <3>2. Extends(y, c)
      BY <1>1, <2>5, <3>1, NewLeaves
    <3>. QED BY <3>1, <3>2
  <2>. QED BY <1>1, <2>1, <2>2, <2>3, <2>4, <2>5, NewLeaves
<1>7. SpawnInv'
  <2>1. SUFFICES ASSUME NEW x \in D \cup Q
                 PROVE  /\ \A y \in D \cup Q : Extends(y, x) =>
                             frame'[x].pc \in {"await", "done", "failed"}
                        /\ \A e \in frame'[x].todo : Append(x, e) \notin D \cup Q
                        /\ frame'[x].pc \in Early => frame'[x].todo = {}
    BY <1>2 DEF SpawnInv, Early
  <2>2. CASE x \in Q
    BY <1>2, <1>3, <2>2, NewLeaves
  <2>3. CASE x = p
    <3>1. ASSUME NEW y \in D \cup Q, Extends(y, x)
          PROVE  f.pc \in {"await", "done", "failed"}
      <4>1. CASE y \in D
        <5>1. frame[p].pc \in {"await", "done", "failed"}
          BY <1>1, <2>3, <3>1, <4>1 DEF IInv, SpawnInv
        <5>2. f.pc \notin Early
          BY <5>1 DEF WellFormed, Early
        <5>. QED BY <5>2 DEF Frame, Early
      <4>2. CASE y \in Q
        BY <1>1, <4>2
      <4>. QED BY <4>1, <4>2
    <3>. QED BY <1>2, <2>3, <3>1 DEF WellFormed
  <2>4. CASE x \in D /\ x # p
    <3>0. frame'[x] = frame[x] /\ x \in Path
      BY <1>1, <1>2, <2>4
    <3>1. ASSUME NEW y \in D \cup Q, Extends(y, x)
          PROVE  frame[x].pc \in {"await", "done", "failed"}
      <4>1. CASE y \in D
        BY <2>4, <3>1, <4>1 DEF IInv, SpawnInv
      <4>2. CASE y \in Q
        <5>1. Extends(p, x)
          BY <2>4, <3>0, <3>1, <4>2, NewLeaves
        <5>. QED BY <1>1, <2>4, <5>1 DEF IInv, SpawnInv
      <4>. QED BY <4>1, <4>2
    <3>2. ASSUME NEW e \in frame[x].todo
          PROVE  Append(x, e) \notin D \cup Q
      <4>1. Append(x, e) \notin D
        BY <2>4 DEF IInv, SpawnInv
      <4>2. e \in Nat
        BY <2>4, EdgesAreNat DEF IInv, TypeOK
      <4>3. ASSUME Append(x, e) \in Q
            PROVE  FALSE
        <5>1. Append(x, e) \in Path /\ IsChild(Append(x, e), x)
          BY <3>0, <4>2, AppendPath, AppendExtends
        <5>2. p \in Path /\ IsChild(Append(x, e), p)
          BY <4>3, NewLeaves
        <5>3. x = p
          BY <3>0, <5>1, <5>2, SameParent, Zenon
        <5>. QED BY <2>4, <5>3
      <4>. QED BY <4>1, <4>3
    <3>. QED BY <2>4, <3>0, <3>1, <3>2 DEF IInv, SpawnInv, Early
  <2>. QED BY <2>1, <2>2, <2>3, <2>4
<1>8. DoneInv'
  <2>1. SUFFICES ASSUME NEW x \in D \cup Q, NEW y \in D \cup Q,
                        Extends(y, x), frame'[x].pc = "done"
                 PROVE  frame'[y].pc = "done"
    BY <1>2 DEF DoneInv
  <2>2. x \in D
    BY <2>1, NewLeaves
  <2>3. CASE x = p
    <3>1. f.pc = "done" /\ Q = {} /\ y \in D
      BY <1>1, <1>2, <2>1, <2>3
    <3>2. PICK c \in D : IsChild(c, p) /\ (c = y \/ Extends(y, c))
      BY <1>1, <2>1, <2>3, <3>1 DEF IInv, TreeInv
    <3>3. frame[c].pc = "done"
      BY <3>1, <3>2 DEF WellFormed
    <3>4. frame[y].pc = "done"
      BY <3>1, <3>2, <3>3 DEF IInv, DoneInv
    <3>. QED BY <1>1, <1>2, <3>1, <3>4 DEF Early
  <2>4. CASE x # p
    <3>1. frame[x].pc = "done"
      BY <1>2, <2>1, <2>2, <2>4
    <3>2. ~Extends(p, x)
      BY <1>1, <2>2, <3>1 DEF IInv, DoneInv, Early
    <3>3. y \in D
      BY <1>1, <2>1, <2>2, <2>4, <3>2, NewLeaves
    <3>4. frame[y].pc = "done" /\ y # p
      BY <2>1, <2>2, <3>1, <3>2, <3>3 DEF IInv, DoneInv
    <3>. QED BY <1>2, <3>3, <3>4
  <2>. QED BY <2>3, <2>4
<1>9. LogInv'
  BY <1>2, <1>3 DEF IInv, LogInv, Keeps, WellFormed
<1>10. LogHasNoGap'
  <2>1. SUFFICES ASSUME NEW x \in D \cup Q, NEW y \in D \cup Q, IsChild(y, x)
                 PROVE  [path |-> x, ok |-> TRUE] \in log'
    BY <1>2 DEF LogHasNoGap
  <2>2. x \in D /\ x \in Path /\ Extends(y, x)
    BY <1>1, <2>1, NewLeaves DEF IsChild
  <2>3. CASE y \in D
    BY <2>1, <2>2, <2>3 DEF IInv, LogHasNoGap, Keeps
  <2>4. CASE y \in Q
    <3>1. IsChild(y, p) /\ p \in Path /\ (x = p \/ Extends(p, x))
      BY <2>2, <2>4, NewLeaves
    <3>2. x = p
      BY <2>1, <2>2, <3>1 DEF IsChild, Extends, Path
    <3>. QED BY <1>1, <2>4, <3>2 DEF WellFormed
  <2>. QED BY <2>3, <2>4
<1>11. VerdictInv'
  <2>1. ASSUME phase \in {"failing", "completed"}
        PROVE  FALSE
    <3>1. <<>> \in D /\ frame[<<>>].pc = "done"
      BY <2>1 DEF IInv, RootInv, VerdictInv
    <3>2. p = <<>> \/ Extends(p, <<>>)
      BY <1>1, RootIsExtended
    <3>. QED BY <1>1, <3>1, <3>2 DEF IInv, DoneInv, Early
  <2>. QED BY <2>1 DEF VerdictInv, IInv, Keeps
<1>. QED BY <1>4, <1>5, <1>6, <1>7, <1>8, <1>9, <1>10, <1>11 DEF IInv
-----------------------------------------------------------------------------
(* The invariant.                                                          *)

LEMMA InitIInv == Init => IInv
<1> SUFFICES ASSUME Init PROVE IInv
  OBVIOUS
<1>1. frame = [p \in {} |-> NewFrame] /\ DOMAIN frame = {}
  BY DEF Init
<1>2. TypeOK
  BY <1>1 DEF Init, TypeOK, Status, Terminal, NoContext, Context, Phase
<1>. QED
  BY <1>1, <1>2 DEF Init, IInv, RootInv, TreeInv, SpawnInv, DoneInv, LogInv, VerdictInv,
                    LogHasNoGap

(* run() calls walk() on the trigger: one activation, with nothing below.  *)
LEMMA BeginPreserves ==
  ASSUME IInv, Begin
  PROVE  IInv'
<1>1. DOMAIN frame' = {<<>>} /\ frame'[<<>>] = NewFrame /\ frame' = [q \in {<<>>} |-> NewFrame]
  BY DEF Begin, IInv, RootInv, Spawn
<1>2. NewFrame \in Frame /\ NewFrame.pc = "handler" /\ NewFrame.todo = {}
  BY DEF NewFrame, Frame, NoContext, Context
<1>3. <<>> \in Path /\ ~Extends(<<>>, <<>>)
  BY EmptySeq DEF Path, Extends
<1>4. TypeOK'
  <2>1. /\ DOMAIN frame' \subseteq Path
        /\ frame' \in [DOMAIN frame' -> Frame]
        /\ \A p \in DOMAIN frame' : p = <<>> /\ frame'[p].todo = {}
    BY <1>1, <1>2, <1>3
  <2>2. row' \in [status: Status, currentNode: Node \cup {NoNode}, context: Context]
    BY DEF Begin, IInv, TypeOK, Status
  <2>. QED BY <2>1, <2>2 DEF Begin, IInv, TypeOK, Phase
<1>5. RootInv' /\ TreeInv' /\ DoneInv' /\ LogHasNoGap'
  BY <1>1, <1>2, <1>3 DEF Begin, RootInv, TreeInv, DoneInv, LogHasNoGap, IsChild
<1>6. SpawnInv' /\ LogInv'
  BY <1>1, <1>2, <1>3 DEF SpawnInv, LogInv
<1>7. VerdictInv'
  BY DEF Begin, IInv, VerdictInv, TypeOK
<1>. QED BY <1>4, <1>5, <1>6, <1>7 DEF IInv

(* The other steps of run(), cancellations and the crash leave the         *)
(* activations alone.                                                      *)
LEMMA OtherPreserves ==
  ASSUME IInv,
         \/ BeginRejected \/ Complete \/ CompleteRejected \/ Fail \/ FailRejected
         \/ (\E c \in Canceller : CancelRead(c) \/ CancelWrite(c))
         \/ Crash \/ UNCHANGED vars
  PROVE  IInv'
<1>1. frame' = frame /\ log' = log /\ snapshot' = snapshot /\ ctx' = ctx
  BY DEF BeginRejected, Complete, CompleteRejected, Fail, FailRejected, CancelRead, CancelWrite,
         Crash, vars
<1>2. TypeOK'
  <2> DEFINE Row == [status: Status, currentNode: Node \cup {NoNode}, context: Context]
  <2>0. row \in Row /\ ctx \in Context /\ NoNode \in Node \cup {NoNode}
        /\ {"COMPLETED", "FAILED", "CANCELLED"} \subseteq Status
    BY DEF IInv, TypeOK, Status, Terminal
  <2>1. row' \in Row
    <3>1. CASE Complete
      BY <2>0, <3>1 DEF Complete
    <3>2. CASE Fail
      BY <2>0, <3>2 DEF Fail
    <3>3. CASE \E c \in Canceller : CancelWrite(c)
      BY <2>0, <3>3 DEF CancelWrite
    <3>4. CASE UNCHANGED row
      BY <2>0, <3>4
    <3>. QED
      BY <3>1, <3>2, <3>3, <3>4 DEF BeginRejected, CompleteRejected, FailRejected, CancelRead,
                                    Crash, vars
  <2>2. alive' \in BOOLEAN
    BY DEF BeginRejected, Complete, CompleteRejected, Fail, FailRejected, CancelRead, CancelWrite,
           Crash, vars, IInv, TypeOK
  <2>4. phase' \in Phase
    BY DEF BeginRejected, Complete, CompleteRejected, Fail, FailRejected, CancelRead, CancelWrite,
           Crash, vars, IInv, TypeOK, Phase
  <2>5. dbErrors' \in Nat
    BY DEF BeginRejected, Complete, CompleteRejected, Fail, FailRejected, CancelRead, CancelWrite,
           Crash, vars, IInv, TypeOK, DbError
  <2>3. cancel' \in [Canceller -> {"idle", "read", "over"}]
    BY DEF BeginRejected, Complete, CompleteRejected, Fail, FailRejected, CancelRead, CancelWrite,
           Crash, vars, IInv, TypeOK
  <2>. QED BY <1>1, <2>1, <2>2, <2>3, <2>4, <2>5 DEF IInv, TypeOK
<1>3. TreeInv' /\ SpawnInv' /\ DoneInv' /\ LogInv' /\ LogHasNoGap'
  BY <1>1 DEF IInv, TreeInv, SpawnInv, DoneInv, LogInv, LogHasNoGap
<1>4. RootInv'
  BY <1>1 DEF IInv, RootInv, BeginRejected, Complete, CompleteRejected, Fail, FailRejected,
              MustFail, CancelRead, CancelWrite, Crash, vars
<1>5. VerdictInv'
  BY <1>1 DEF IInv, VerdictInv, TypeOK, BeginRejected, Complete, CompleteRejected, Fail,
              FailRejected, MustFail, At, CancelRead, CancelWrite, Crash, vars
<1>. QED BY <1>2, <1>3, <1>4, <1>5 DEF IInv

LEMMA NextIInv == IInv /\ [Next]_vars => IInv'
<1> SUFFICES ASSUME IInv, [Next]_vars PROVE IInv'
  OBVIOUS
<1>1. CASE Begin
  BY <1>1, BeginPreserves
<1>2. ASSUME NEW p \in DOMAIN frame, WalkStep(p)
      PROVE  IInv'
  BY <1>2, WalkStepShape, WalkPreserves
<1>3. CASE \/ BeginRejected \/ Complete \/ CompleteRejected \/ Fail \/ FailRejected
           \/ (\E c \in Canceller : CancelRead(c) \/ CancelWrite(c))
           \/ Crash \/ UNCHANGED vars
  BY <1>3, OtherPreserves
<1>. QED BY <1>1, <1>2, <1>3 DEF Next, RunnerStep

(* The inductive invariant holds of every run of every graph.              *)
THEOREM Invariance == Spec => []IInv
<1>. QED BY InitIInv, NextIInv, PTL DEF Spec

(* Every variable keeps its type.                                          *)
THEOREM TypeCorrect == Spec => []TypeOK
<1>1. IInv => TypeOK
  BY DEF IInv
<1>. QED BY <1>1, Invariance, PTL

(* A COMPLETED row is the whole story.                                     *)
THEOREM CompletedWhole == Spec => []CompletedIsWhole
<1>1. IInv => CompletedIsWhole
  <2> SUFFICES ASSUME IInv, row.status = "COMPLETED" PROVE CompletedIsWhole
    BY DEF CompletedIsWhole
  <2>1. phase = "completed" /\ <<>> \in DOMAIN frame /\ frame[<<>>].pc = "done"
    BY DEF IInv, VerdictInv, RootInv
  <2>2. ASSUME NEW p \in DOMAIN frame
        PROVE  frame[p].pc = "done" /\ [path |-> p, ok |-> TRUE] \in log
    <3>1. p = <<>> \/ Extends(p, <<>>)
      BY RootIsExtended DEF IInv, TypeOK
    <3>. QED BY <2>1, <3>1 DEF IInv, DoneInv, LogInv
  <2>. QED BY <2>1, <2>2 DEF IInv, VerdictInv, CompletedIsWhole
<1>. QED BY <1>1, Invariance, PTL

-----------------------------------------------------------------------------
(* The refinement.                                                         *)

(* A step of walk() is Work of the contract.                               *)
LEMMA WalkIsWork ==
  ASSUME IInv, NEW p \in DOMAIN frame, WalkStep(p)
  PROVE  Contract!Work
<1>1. PICK f \in Frame, Q \in SUBSET Path : Keeps /\ Goes(p, f, Q)
  BY WalkStepShape
<1>2. openActivations # {}
  BY <1>1 DEF openActivations, Settled, Goes, Early
<1>3. phase # "completed"
  <2>1. ASSUME phase = "completed"
        PROVE  FALSE
    <3>1. <<>> \in DOMAIN frame /\ frame[<<>>].pc = "done"
      BY <2>1 DEF IInv, RootInv, VerdictInv
    <3>2. p = <<>> \/ Extends(p, <<>>)
      BY RootIsExtended DEF IInv, TypeOK
    <3>. QED BY <1>1, <3>1, <3>2 DEF IInv, DoneInv, Goes, Early
  <2>. QED BY <2>1
<1>4. somethingBroke => somethingBroke'
  <2>1. CASE phase \in {"failing", "failed", "abandoned"}
    BY <1>1, <2>1 DEF Keeps, somethingBroke
  <2>2. ASSUME NEW q \in DOMAIN frame, frame[q].pc = "failed"
        PROVE  somethingBroke'
    <3>1. q \in DOMAIN frame' /\ frame'[q] = frame[q]
      BY <1>1, <2>2 DEF Goes, Spawn, Early
    <3>. QED BY <2>2, <3>1 DEF somethingBroke
  <2>. QED BY <2>1, <2>2 DEF somethingBroke
<1>5. row'.status = row.status /\ verdictGiven' = verdictGiven
  BY <1>1 DEF Keeps, verdictGiven
<1>. QED BY <1>2, <1>3, <1>4, <1>5 DEF Contract!Work, verdictGiven

(* When the tree has settled well, nothing is in flight and nothing broke. *)
LEMMA RootDone ==
  ASSUME IInv, <<>> \in DOMAIN frame, frame[<<>>].pc = "done"
  PROVE  /\ openActivations = {}
         /\ \A p \in DOMAIN frame : frame[p].pc # "failed"
<1>1. ASSUME NEW p \in DOMAIN frame
      PROVE  frame[p].pc = "done"
  <2>1. p = <<>> \/ Extends(p, <<>>)
    BY RootIsExtended DEF IInv, TypeOK
  <2>. QED BY <2>1 DEF IInv, DoneInv
<1>. QED BY <1>1 DEF openActivations, Settled

LEMMA StepRefines ==
  ASSUME IInv, [Next]_vars
  PROVE  [Contract!Next]_(Contract!vars)
<1> USE DEF Contract!Next
<1>1. ASSUME NEW p \in DOMAIN frame, WalkStep(p)
      PROVE  Contract!Work
  BY <1>1, WalkIsWork
<1>2. CASE Begin
  <2>1. openActivations = {} /\ ~somethingBroke /\ verdictGiven = "NONE"
    BY <1>2 DEF Begin, IInv, RootInv, openActivations, somethingBroke, verdictGiven
  <2>2. DOMAIN frame' = {<<>>} /\ frame'[<<>>].pc = "handler"
    BY <1>2 DEF Begin, IInv, RootInv, Spawn, NewFrame
  <2>3. openActivations' # {} /\ ~somethingBroke' /\ verdictGiven' = "NONE"
    BY <1>2, <2>2 DEF Begin, openActivations, Settled, somethingBroke, verdictGiven
  <2>5. somethingBroke' = somethingBroke
    <3>1. somethingBroke = FALSE /\ somethingBroke' = FALSE
      BY <2>1, <2>3 DEF somethingBroke
    <3>. QED BY <3>1
  <2>4. row'.status = "RUNNING"
    BY <1>2 DEF Begin, IInv, TypeOK
  <2>. QED BY <2>1, <2>3, <2>4, <2>5 DEF Contract!Begin
<1>3. CASE BeginRejected
  <2>1. openActivations = {} /\ openActivations' = {} /\ verdictGiven = "NONE"
    BY <1>3 DEF BeginRejected, IInv, RootInv, openActivations, verdictGiven
  <2>2. somethingBroke' /\ verdictGiven' = "NONE" /\ row' = row
    BY <1>3 DEF BeginRejected, somethingBroke, verdictGiven
  <2>3. somethingBroke' = TRUE
    BY <2>2 DEF somethingBroke
  <2>. QED BY <2>1, <2>2, <2>3 DEF Contract!Break
<1>4. CASE Complete \/ CompleteRejected
  <2>1. phase = "walk" /\ <<>> \in DOMAIN frame /\ frame[<<>>].pc = "done" /\ frame' = frame
    BY <1>4 DEF Complete, CompleteRejected, At
  <2>2. openActivations = {} /\ openActivations' = {} /\ ~somethingBroke /\ verdictGiven = "NONE"
    BY <2>1, RootDone DEF openActivations, Settled, somethingBroke, verdictGiven
  <2>3. CASE Complete
    <3>1. somethingBroke' = somethingBroke
      BY <2>1, <2>3 DEF Complete, somethingBroke
    <3>. QED BY <2>2, <2>3, <3>1 DEF Complete, verdictGiven, Contract!Complete
  <2>4. CASE CompleteRejected
    <3>1. somethingBroke' = TRUE
      BY <2>4 DEF CompleteRejected, somethingBroke
    <3>. QED BY <2>2, <2>4, <3>1 DEF CompleteRejected, verdictGiven, Contract!Break
  <2>. QED BY <1>4, <2>3, <2>4
<1>5. CASE Fail \/ FailRejected
  <2>1. verdictGiven = "NONE" /\ somethingBroke = TRUE /\ frame' = frame
    <3>1. \/ phase = "failing"
          \/ phase = "walk" /\ <<>> \in DOMAIN frame /\ frame[<<>>].pc = "failed"
      <4>1. MustFail
        BY <1>5, Zenon DEF Fail, FailRejected
      <4>. QED BY <4>1 DEF MustFail, IInv, RootInv
    <3>2. verdictGiven = "NONE" /\ somethingBroke = TRUE
      BY <3>1 DEF verdictGiven, somethingBroke
    <3>. QED BY <1>5, <3>2 DEF Fail, FailRejected
  <2>2. openActivations' = openActivations
    BY <2>1 DEF openActivations, Settled
  <2>3. somethingBroke' = TRUE
    BY <1>5 DEF Fail, FailRejected, somethingBroke
  <2>4. CASE Fail
    <3>1. row'.status = "FAILED" /\ verdictGiven' = "FAILED"
      BY <2>4 DEF Fail, verdictGiven, IInv, TypeOK
    <3>. QED BY <2>1, <2>2, <2>3, <3>1 DEF Contract!Fail
  <2>5. CASE FailRejected
    BY <2>1, <2>2, <2>3, <2>5 DEF FailRejected, verdictGiven, Contract!vars
  <2>. QED BY <1>5, <2>4, <2>5
<1>6. ASSUME NEW c \in Canceller, CancelRead(c) \/ CancelWrite(c)
      PROVE  [Contract!Next]_(Contract!vars)
  <2>1. frame' = frame /\ phase' = phase
    BY <1>6 DEF CancelRead, CancelWrite
  <2>2. openActivations' = openActivations
    BY <2>1 DEF openActivations, Settled
  <2>3. somethingBroke' = somethingBroke /\ verdictGiven' = verdictGiven
    BY <2>1 DEF somethingBroke, verdictGiven
  <2>4. CASE CancelRead(c)
    BY <2>2, <2>3, <2>4 DEF CancelRead, Contract!vars
  <2>5. CASE CancelWrite(c)
    <3>1. row'.status = "CANCELLED"
      BY <2>5 DEF CancelWrite, IInv, TypeOK
    <3>. QED BY <2>2, <2>3, <3>1 DEF Contract!Cancel
  <2>. QED BY <1>6, <2>4, <2>5
<1>7. CASE Crash \/ UNCHANGED vars
  <2>1. frame' = frame /\ phase' = phase /\ row' = row
    BY <1>7 DEF Crash, vars
  <2>2. openActivations' = openActivations
    BY <2>1 DEF openActivations, Settled
  <2>3. somethingBroke' = somethingBroke /\ verdictGiven' = verdictGiven
    BY <2>1 DEF somethingBroke, verdictGiven
  <2>. QED BY <2>1, <2>2, <2>3 DEF Contract!vars
<1>. QED
  BY <1>1, <1>2, <1>3, <1>4, <1>5, <1>6, <1>7 DEF Next, RunnerStep

(* The runner implements the contract of a run.                            *)
THEOREM Refinement == Spec => ImplementsContract
<1>1. Init => Contract!Init
  <2> SUFFICES ASSUME Init PROVE Contract!Init
    OBVIOUS
  <2>1. DOMAIN frame = {} /\ phase = "begin" /\ row.status = "PENDING"
    BY DEF Init
  <2>2. openActivations = {} /\ somethingBroke = FALSE /\ verdictGiven = "NONE"
    BY <2>1 DEF openActivations, somethingBroke, verdictGiven
  <2>. QED BY <2>1, <2>2 DEF Contract!Init
<1>2. IInv /\ [Next]_vars => [Contract!Next]_(Contract!vars)
  BY StepRefines
<1>. QED BY <1>1, <1>2, Invariance, PTL DEF Spec, ImplementsContract, Contract!Spec

-----------------------------------------------------------------------------
(* The branches of a run: the second invariant.                            *)

(* Edge e is one p had still to walk, or one that matched when p chose.    *)
Matched(p, e) ==
  \/ e \in frame[p].todo
  \/ /\ frame[p].pc = "branch" /\ frame[p].ok
     /\ snapshot.edges[e].condition \in {"ifTrue", "ifFalse"} => ctx.lastCondition = Selecting(e)

(* What a step of walk() does to the outcomes, and what it starts.         *)
Turns(p, f, Q) ==
  /\ TypeAt(p) # "PARALLEL" => \A x, y \in Q : x = y /\ ChildrenDone(p)
  /\ f.pc = "failed" => frame[p].pc \in Early \/ \E c \in Children(p) : frame[c].pc = "failed"
  /\ f.pc # "handler"
  /\ frame[p].pc = "handler" /\ f.ok => f.sent = ctx'
  /\ frame[p].pc # "handler" => f.sent = frame[p].sent /\ f.ok = frame[p].ok /\ ctx' = ctx
  /\ \/ ctx'.lastCondition = ctx.lastCondition
     \/ TypeAt(p) = "CONDITION" /\ frame[p].pc = "handler" /\ f.sent = ctx'
  /\ \A e \in f.todo : Matched(p, e)
  /\ \A x \in Q : Matched(p, x[Len(x)])

(* An edge that matches reads the outcome it asks for.                     *)
LEMMA MatchingReads ==
  ASSUME NEW n, NEW hold, NEW e \in MatchingEdges(n, hold)
  PROVE  /\ e \in DOMAIN snapshot.edges
         /\ snapshot.edges[e].condition \in {"ifTrue", "ifFalse"} => ctx.lastCondition = Selecting(e)
BY DEF MatchingEdges, OutgoingEdges, Holds, Selecting

LEMMA WalkStepTurns ==
  ASSUME IInv, NEW p \in DOMAIN frame, WalkStep(p),
         NEW f \in Frame, NEW Q \in SUBSET Path, Goes(p, f, Q)
  PROVE  Turns(p, f, Q)
<1> USE DEF At, Goto
<1>0. /\ frame \in [DOMAIN frame -> Frame] /\ frame[p] \in Frame /\ p \in Path
      /\ frame[p].pc \in Early => frame[p].todo = {} /\ Children(p) = {}
      /\ ctx \in Context
      /\ DOMAIN snapshot.edges \subseteq Nat
  BY EdgesAreNat DEF IInv, TypeOK, SpawnInv, Early, Children, IsChild
<1>1. /\ frame' = Spawn([frame EXCEPT ![p] = f], Q)
      /\ Q \cap DOMAIN frame = {} /\ p \notin Q
      /\ f = frame'[p] /\ Q = DOMAIN frame' \ DOMAIN frame
  BY <1>0 DEF Goes, Spawn
(* Steps that start nothing and only move the activation on.               *)
<1>2. ASSUME NEW label \in {"log", "branch", "failed", "done"},
             Goto(p, label), ctx' = ctx, frame[p].pc # "handler",
             label = "failed" => \/ frame[p].pc \in Early
                                 \/ \E c \in Children(p) : frame[c].pc = "failed"
      PROVE  Turns(p, f, Q)
  <2>1. f = [frame[p] EXCEPT !.pc = label] /\ Q = {}
    BY <1>0, <1>1, <1>2
  <2>2. f.pc = label /\ f.sent = frame[p].sent /\ f.ok = frame[p].ok /\ f.todo = frame[p].todo
    BY <1>0, <2>1 DEF Frame
  <2>. QED BY <1>2, <2>1, <2>2 DEF Turns, Matched
<1>3. CASE HandlerReturns(p)
  <2>1. f = [frame[p] EXCEPT !.pc = "persist", !.ok = TRUE, !.sent = ctx'] /\ Q = {}
    BY <1>0, <1>1, <1>3 DEF HandlerReturns
  <2>2. f.pc = "persist" /\ f.sent = ctx' /\ f.todo = {} /\ frame[p].pc = "handler"
    BY <1>0, <1>3, <2>1 DEF HandlerReturns, Frame, Early
  <2>3. ctx'.lastCondition = ctx.lastCondition \/ TypeAt(p) = "CONDITION"
    <3>1. CASE snapshot.type[NodeAt(p)] = "CONDITION"
      BY <3>1 DEF TypeAt
    <3>2. CASE snapshot.type[NodeAt(p)] # "CONDITION"
      <4>1. ctx' = ctx \/ ctx' = [ctx EXCEPT !.setBy = @ \cup {NodeAt(p)}]
        BY <1>3, <3>2 DEF HandlerReturns, AfterHandler
      <4>. QED BY <1>0, <4>1 DEF Context
    <3>. QED BY <3>1, <3>2
  <2>. QED BY <2>1, <2>2, <2>3 DEF Turns
<1>4. CASE HandlerFails(p)
  <2>1. f = [frame[p] EXCEPT !.pc = "persist", !.ok = FALSE, !.sent = ctx] /\ Q = {}
    BY <1>0, <1>1, <1>4 DEF HandlerFails
  <2>2. f.pc = "persist" /\ f.sent = ctx' /\ f.todo = {} /\ ctx' = ctx /\ frame[p].pc = "handler"
    BY <1>0, <1>4, <2>1 DEF HandlerFails, Frame, Early
  <2>. QED BY <2>1, <2>2 DEF Turns
<1>5. CASE PersistContext(p)
  BY <1>2, <1>5 DEF PersistContext
<1>6. CASE WriteLog(p)
  BY <1>2, <1>6 DEF WriteLog
<1>7. CASE WriteRejected(p) \/ Throw(p) \/ Propagate(p)
  BY <1>2, <1>7 DEF WriteRejected, Throw, Propagate, Early
<1>8. CASE Stop(p) \/ Return(p)
  BY <1>2, <1>8 DEF Stop, Return
<1>9. CASE Fork(p)
  <2>1. PICK hold \in SUBSET DataEdges :
          frame' = Spawn([frame EXCEPT ![p].pc = "await"],
                         {Append(p, e) : e \in MatchingEdges(NodeAt(p), hold)})
    BY <1>9 DEF Fork
  <2> DEFINE es == MatchingEdges(NodeAt(p), hold)
  <2>2. f = [frame[p] EXCEPT !.pc = "await"]
    BY <1>0, <1>1, <2>1 DEF Spawn
  <2>3. Q \subseteq {Append(p, e) : e \in es}
    BY <1>0, <1>1, <2>1 DEF Spawn
  <2>4. f.pc = "await" /\ f.sent = frame[p].sent /\ f.ok = frame[p].ok /\ f.todo = {}
    BY <1>0, <1>9, <2>2 DEF Frame, Fork, Early
  <2>5. ASSUME NEW x \in Q
        PROVE  Matched(p, x[Len(x)])
    <3>1. PICK e \in es : x = Append(p, e)
      BY <2>3
    <3>2. e \in Nat /\ x[Len(x)] = e
      BY <1>0, <3>1, MatchingReads, AppendPath
    <3>. QED BY <1>9, <3>1, <3>2, MatchingReads DEF Fork, Matched
  <2>. QED BY <1>9, <2>4, <2>5 DEF Fork, Turns
<1>10. CASE Descend(p)
  <2>1. PICK hold \in SUBSET DataEdges, e \in DOMAIN snapshot.edges :
          /\ e \in MatchingEdges(NodeAt(p), hold)
          /\ frame' = Spawn([frame EXCEPT ![p] =
                               [@ EXCEPT !.pc = "await",
                                         !.todo = MatchingEdges(NodeAt(p), hold) \ {e}]],
                            {Append(p, e)})
    BY <1>10 DEF Descend, IsFirst
  <2> DEFINE es == MatchingEdges(NodeAt(p), hold)
  <2>2. f = [frame[p] EXCEPT !.pc = "await", !.todo = es \ {e}]
    BY <1>0, <1>1, <2>1 DEF Spawn
  <2>3. Q \subseteq {Append(p, e)}
    BY <1>0, <1>1, <2>1 DEF Spawn
  <2>4. f.pc = "await" /\ f.sent = frame[p].sent /\ f.ok = frame[p].ok /\ f.todo = es \ {e}
    BY <1>0, <2>2 DEF Frame
  <2>5. \A d \in es : Matched(p, d)
    BY <1>10, MatchingReads DEF Descend, Matched
  <2>6. \A x \in Q : x[Len(x)] = e
    BY <1>0, <2>1, <2>3, AppendPath
  <2>7. ChildrenDone(p)
    BY <1>0, <1>10 DEF Descend, ChildrenDone, Early
  <2>. QED BY <1>10, <2>1, <2>3, <2>4, <2>5, <2>6, <2>7 DEF Descend, Turns
<1>11. CASE NextEdge(p)
  <2>1. PICK e \in frame[p].todo :
          frame' = Spawn([frame EXCEPT ![p].todo = @ \ {e}], {Append(p, e)})
    BY <1>11 DEF NextEdge
  <2>2. f = [frame[p] EXCEPT !.todo = frame[p].todo \ {e}]
    BY <1>0, <1>1, <2>1 DEF Spawn
  <2>3. Q \subseteq {Append(p, e)}
    BY <1>0, <1>1, <2>1 DEF Spawn
  <2>4. /\ f.pc = "await" /\ f.sent = frame[p].sent /\ f.ok = frame[p].ok
        /\ f.todo \subseteq frame[p].todo
    BY <1>0, <1>11, <2>2 DEF Frame, NextEdge
  <2>5. e \in Nat
    BY <1>0, <2>1 DEF IInv, TypeOK
  <2>6. \A x \in Q : x[Len(x)] = e
    BY <1>0, <2>3, <2>5, AppendPath
  <2>. QED BY <1>11, <2>1, <2>3, <2>4, <2>6 DEF NextEdge, Turns, Matched
<1>. QED
  BY <1>3, <1>4, <1>5, <1>6, <1>7, <1>8, <1>9, <1>10, <1>11 DEF WalkStep

-----------------------------------------------------------------------------
(* Common ground of the steps of walk().                                   *)

(* What the step leaves: settled activations stay, the graph stays.        *)
LEMMA WalkKeeps ==
  ASSUME IInv, NEW p, NEW f \in Frame, NEW Q \in SUBSET Path,
         Goes(p, f, Q), WellFormed(p, f, Q), Keeps
  PROVE  /\ p \in DOMAIN frame /\ DOMAIN frame \subseteq Path
         /\ frame[p].pc \in Early \cup {"await"}
         /\ Q \cap DOMAIN frame = {} /\ p \notin Q
         /\ Q # {} => f.pc = "await"
         /\ DOMAIN frame' = DOMAIN frame \cup Q
         /\ \A q \in Q : frame'[q] = NewFrame
         /\ frame'[p] = f
         /\ \A q \in DOMAIN frame : q # p => frame'[q] = frame[q]
         /\ \A q : NodeAt(q)' = NodeAt(q)
         /\ \A q : TypeAt(q)' = TypeAt(q)
         /\ \A q : Children(q) \subseteq Children(q)'
<1>1. /\ p \in DOMAIN frame /\ DOMAIN frame \subseteq Path
      /\ frame \in [DOMAIN frame -> Frame]
      /\ frame[p].pc \in Early \cup {"await"}
      /\ Q \cap DOMAIN frame = {} /\ p \notin Q
      /\ Q # {} => f.pc = "await"
  BY DEF Goes, IInv, TypeOK
<1>2. /\ DOMAIN frame' = DOMAIN frame \cup Q
      /\ \A q \in Q : frame'[q] = NewFrame
      /\ frame'[p] = f
      /\ \A q \in DOMAIN frame : q # p => frame'[q] = frame[q]
  BY <1>1 DEF Goes, Spawn
<1>3. \A q : NodeAt(q)' = NodeAt(q)
  BY DEF Keeps, NodeAt, TriggerNode, IsTrigger
<1>4. \A q : TypeAt(q)' = TypeAt(q)
  BY <1>3 DEF Keeps, TypeAt
<1>5. \A q : Children(q) \subseteq Children(q)'
  BY <1>2 DEF Children
<1>. QED BY <1>1, <1>2, <1>3, <1>4, <1>5

(* A child is new only under the activation that moves.                    *)
LEMMA NewChildren ==
  ASSUME IInv, NEW p, NEW f \in Frame, NEW Q \in SUBSET Path, Goes(p, f, Q),
         NEW x \in DOMAIN frame \cup Q, NEW c \in DOMAIN frame \cup Q, IsChild(c, x)
  PROVE  /\ x \in DOMAIN frame
         /\ c \in DOMAIN frame => c \in Children(x)
         /\ c \in Q => x = p
<1>1. p \in Path /\ DOMAIN frame \subseteq Path
  BY DEF Goes, IInv, TypeOK
<1>2. x \in DOMAIN frame
  BY NewLeaves DEF IsChild
<1>3. c \in Q => IsChild(c, p)
  BY NewLeaves
<1>4. c \in Q => x = p
  BY <1>1, <1>2, <1>3, SameParent
<1>. QED BY <1>2, <1>4 DEF Children

(* Two activations that have not returned and do not lie on one path are   *)
(* in different branches of a fork.                                        *)
LEMMA Divergence ==
  ASSUME IInv, SequenceInv, PathsInv,
         NEW p \in DOMAIN frame, NEW r \in DOMAIN frame,
         ~Under(p, r), ~Under(r, p), frame[p].pc # "done", frame[r].pc # "done"
  PROVE  \E a \in DOMAIN frame :
           /\ TypeAt(a) = "PARALLEL" /\ Extends(p, a) /\ Extends(r, a)
           /\ p[Len(a) + 1] # r[Len(a) + 1]
<1>0. DOMAIN frame \subseteq Path
  BY DEF IInv, TypeOK
<1>1. PICK a \in DOMAIN frame : PartAt(p, r, a)
  BY DEF PathsInv
<1>2. PICK c \in Children(a), d \in Children(a) : c # d /\ Under(p, c) /\ Under(r, d)
  BY <1>1 DEF PartAt
<1>3. /\ c \in DOMAIN frame /\ d \in DOMAIN frame /\ IsChild(c, a) /\ IsChild(d, a)
      /\ c \in Path /\ d \in Path /\ a \in Path /\ p \in Path /\ r \in Path
  BY <1>0 DEF Children
<1>4. frame[c].pc # "done" /\ frame[d].pc # "done"
  BY <1>2, <1>3 DEF IInv, DoneInv, Under
<1>5. TypeAt(a) = "PARALLEL"
  BY <1>2, <1>4 DEF SequenceInv
<1>6. Extends(p, a) /\ Extends(r, a)
  BY <1>2, <1>3, ExtendsTransitive DEF Under, IsChild
<1>7. /\ Len(a) \in Nat /\ Len(c) = Len(a) + 1 /\ Len(d) = Len(a) + 1
      /\ \A i \in 1..Len(a) : c[i] = a[i] /\ d[i] = a[i]
  BY <1>3 DEF IsChild, Extends, Path
<1>8. c[Len(a) + 1] # d[Len(a) + 1]
  <2>1. SUFFICES ASSUME c[Len(a) + 1] = d[Len(a) + 1] PROVE FALSE
    OBVIOUS
  <2>2. \A i \in 1..Len(c) : c[i] = d[i]
    BY <1>7, <2>1
  <2>. QED BY <1>2, <1>3, <1>7, <2>2, SeqEqual DEF Path
<1>9. p[Len(a) + 1] = c[Len(a) + 1]
  BY SMTT(30), <1>2, <1>3, <1>7 DEF Under, Extends, Path
<1>10. r[Len(a) + 1] = d[Len(a) + 1]
  BY SMTT(30), <1>2, <1>3, <1>7 DEF Under, Extends, Path
<1>. QED BY <1>5, <1>6, <1>8, <1>9, <1>10
-----------------------------------------------------------------------------
(* One lemma per part of the invariant.                                    *)

LEMMA WalkKeepsSequence ==
  ASSUME IInv, SequenceInv, NEW p, NEW f \in Frame, NEW Q \in SUBSET Path,
         Goes(p, f, Q), WellFormed(p, f, Q), Keeps, Turns(p, f, Q)
  PROVE  SequenceInv'
<1>0. /\ p \in DOMAIN frame /\ frame[p].pc # "done"
      /\ DOMAIN frame' = DOMAIN frame \cup Q
      /\ \A q \in DOMAIN frame : q # p => frame'[q] = frame[q]
      /\ \A q : TypeAt(q)' = TypeAt(q)
  BY WalkKeeps, Zenon DEF Early
<1>1. SUFFICES ASSUME NEW x \in DOMAIN frame \cup Q, TypeAt(x) # "PARALLEL",
                      NEW c \in DOMAIN frame \cup Q, NEW d \in DOMAIN frame \cup Q,
                      IsChild(c, x), IsChild(d, x)
               PROVE  c = d \/ frame'[c].pc = "done" \/ frame'[d].pc = "done"
  BY <1>0 DEF SequenceInv, Children
<1>2. /\ x \in DOMAIN frame
      /\ c \in DOMAIN frame => c \in Children(x)
      /\ d \in DOMAIN frame => d \in Children(x)
      /\ c \in Q \/ d \in Q => x = p
  BY <1>1, NewChildren
<1>3. CASE c \in DOMAIN frame /\ d \in DOMAIN frame
  BY <1>0, <1>1, <1>2, <1>3 DEF SequenceInv
<1>4. CASE c \in Q /\ d \in Q
  BY <1>1, <1>2, <1>4 DEF Turns
<1>5. CASE c \in Q /\ d \in DOMAIN frame
  BY <1>0, <1>1, <1>2, <1>5 DEF Turns, ChildrenDone
<1>6. CASE c \in DOMAIN frame /\ d \in Q
  BY <1>0, <1>1, <1>2, <1>6 DEF Turns, ChildrenDone
<1>. QED BY <1>3, <1>4, <1>5, <1>6

LEMMA WalkKeepsFailed ==
  ASSUME IInv, SequenceInv, FailedInv, NEW p, NEW f \in Frame, NEW Q \in SUBSET Path,
         Goes(p, f, Q), WellFormed(p, f, Q), Keeps, Turns(p, f, Q)
  PROVE  FailedInv'
<1>0. /\ p \in DOMAIN frame /\ DOMAIN frame \subseteq Path /\ ~Settled(p)
      /\ Q \cap DOMAIN frame = {}
      /\ Q # {} => f.pc = "await"
      /\ DOMAIN frame' = DOMAIN frame \cup Q
      /\ \A q \in Q : frame'[q] = NewFrame
      /\ frame'[p] = f
      /\ \A q \in DOMAIN frame : q # p => frame'[q] = frame[q]
      /\ \A q : TypeAt(q)' = TypeAt(q)
  BY WalkKeeps, Zenon DEF Early, Settled
<1>1. ASSUME NEW x \in DOMAIN frame, UnderFailedFork(x)
      PROVE  UnderFailedFork(x)'
  BY <1>0, <1>1 DEF UnderFailedFork, Settled
<1>2. ASSUME NEW r \in DOMAIN frame', NEW x \in DOMAIN frame',
             frame'[r].pc = "failed", Extends(x, r), frame'[x].pc \notin {"done", "failed"}
      PROVE  UnderFailedFork(x)'
  <2>0. r \in DOMAIN frame
    BY <1>0, <1>2 DEF NewFrame
  <2>1. CASE r # p /\ x \in DOMAIN frame
    BY <1>0, <1>1, <1>2, <2>0, <2>1 DEF FailedInv, Settled
  <2>2. CASE r # p /\ x \in Q
    <3>1. Extends(p, r)
      BY <1>0, <1>2, <2>0, <2>2, NewLeaves
    <3>2. UnderFailedFork(p)
      BY <1>0, <1>2, <2>0, <2>2, <3>1 DEF FailedInv
    <3>3. PICK a \in DOMAIN frame : Extends(p, a) /\ TypeAt(a) = "PARALLEL" /\ frame[a].pc = "failed"
      BY <3>2 DEF UnderFailedFork
    <3>4. Extends(x, a)
      BY <1>0, <2>2, <3>3, NewLeaves
    <3>. QED BY <1>0, <3>3, <3>4 DEF UnderFailedFork, Settled
  <2>3. CASE r = p
    <3>1. f.pc = "failed" /\ Q = {} /\ x \in DOMAIN frame /\ Extends(x, p)
      BY <1>0, <1>2, <2>3
    <3>2. x # p
      BY <1>0, <1>2, <2>3
    <3>3. ~Settled(x) /\ x \in Path /\ p \in Path
      BY <1>0, <1>2, <3>1, <3>2 DEF Settled
    <3>4. CASE TypeAt(p) = "PARALLEL"
      BY <1>0, <3>1, <3>4 DEF UnderFailedFork
    <3>5. CASE TypeAt(p) # "PARALLEL"
      <4>1. PICK c \in Children(p) : frame[c].pc = "failed"
        BY <1>0, <3>1 DEF Turns, IInv, SpawnInv, Early
      <4>2. PICK d \in DOMAIN frame : IsChild(d, p) /\ (d = x \/ Extends(x, d))
        BY <1>0, <3>1 DEF IInv, TreeInv
      <4>3. frame[d].pc # "done"
        BY <3>1, <3>3, <4>2 DEF IInv, DoneInv, Settled
      <4>4. c = d
        BY <1>0, <3>5, <4>1, <4>2, <4>3 DEF SequenceInv, Children
      <4>5. UnderFailedFork(x)
        BY <3>1, <3>3, <4>1, <4>2, <4>4 DEF FailedInv, Settled
      <4>. QED BY <1>1, <3>1, <4>5
    <3>. QED BY <3>4, <3>5
  <2>. QED BY <1>0, <2>1, <2>2, <2>3
<1>3. ASSUME phase = "failed"
      PROVE  frame'[<<>>].pc \in {"done", "failed"}
  BY <1>0, <1>3 DEF FailedInv, IInv, RootInv, Settled
<1>. QED BY <1>2, <1>3 DEF FailedInv, Settled, Keeps

LEMMA WalkKeepsPaths ==
  ASSUME IInv, PathsInv, NEW p, NEW f \in Frame, NEW Q \in SUBSET Path,
         Goes(p, f, Q), WellFormed(p, f, Q), Keeps
  PROVE  PathsInv'
<1>0. /\ p \in DOMAIN frame /\ DOMAIN frame \subseteq Path
      /\ Q \cap DOMAIN frame = {}
      /\ DOMAIN frame' = DOMAIN frame \cup Q
      /\ \A q : Children(q) \subseteq Children(q)'
  BY WalkKeeps, Zenon
<1>1. ASSUME NEW x \in DOMAIN frame, NEW r \in DOMAIN frame
      PROVE  Under(x, r) \/ Under(r, x) \/ \E a \in DOMAIN frame : PartAt(x, r, a)'
  <2>1. CASE \E a \in DOMAIN frame : PartAt(x, r, a)
    BY <1>0, <2>1 DEF PartAt
  <2>. QED BY <2>1 DEF PathsInv
<1>2. ASSUME NEW x \in Q, NEW r \in DOMAIN frame
      PROVE  Under(x, r) \/ \E a \in DOMAIN frame : PartAt(x, r, a)' /\ PartAt(r, x, a)'
  <2>0. /\ x \in Path /\ p \in Path /\ x \in DOMAIN frame' /\ IsChild(x, p) /\ x \in Children(p)'
        /\ \A q \in Path : Extends(x, q) <=> q = p \/ Extends(p, q)
    BY <1>0, NewLeaves DEF Children
  <2>1. CASE Under(p, r)
    BY <1>0, <2>0, <2>1 DEF Under
  <2>2. CASE r # p /\ Under(r, p)
    <3>1. PICK d \in DOMAIN frame : IsChild(d, p) /\ (d = r \/ Extends(r, d))
      BY <1>0, <2>2 DEF Under, IInv, TreeInv
    <3>2. d \in Children(p)' /\ d # x
      BY <1>0, <3>1 DEF Children
    <3>. QED BY <1>0, <2>0, <3>1, <3>2 DEF PartAt, Under
  <2>3. ASSUME NEW a \in DOMAIN frame, PartAt(p, r, a)
        PROVE  PartAt(x, r, a)' /\ PartAt(r, x, a)'
    <3>1. PICK c \in Children(a), d \in Children(a) : c # d /\ Under(p, c) /\ Under(r, d)
      BY <2>3 DEF PartAt
    <3>2. Under(x, c)
      BY <1>0, <2>0, <3>1 DEF Under, Children
    <3>. QED BY <1>0, <3>1, <3>2 DEF PartAt
  <2>. QED BY <1>0, <2>1, <2>2, <2>3 DEF PathsInv, Under
<1>3. ASSUME NEW x \in Q, NEW r \in Q, x # r
      PROVE  PartAt(x, r, p)'
  <2>1. x \in Children(p)' /\ r \in Children(p)'
    BY <1>0, NewLeaves DEF Children
  <2>. QED BY <1>3, <2>1 DEF PartAt, Under
<1>. QED
  <2>1. SUFFICES ASSUME NEW x \in DOMAIN frame \cup Q, NEW r \in DOMAIN frame \cup Q
                 PROVE  Under(x, r) \/ Under(r, x) \/ \E a \in DOMAIN frame : PartAt(x, r, a)'
    BY <1>0 DEF PathsInv, Under
  <2>2. CASE x \in DOMAIN frame /\ r \in DOMAIN frame
    BY <1>1, <2>2
  <2>3. CASE x \in Q /\ r \in DOMAIN frame
    BY <1>2, <2>3
  <2>4. CASE x \in DOMAIN frame /\ r \in Q
    BY <1>2, <2>4
  <2>5. CASE x \in Q /\ r \in Q
    BY <1>0, <1>3, <2>5 DEF Under
  <2>. QED BY <2>2, <2>3, <2>4, <2>5

(* An explained outcome stays explained: whoever came to it keeps it.      *)
LEMMA ExplainedStays ==
  ASSUME IInv, NEW p, NEW f \in Frame, NEW Q \in SUBSET Path,
         Goes(p, f, Q), WellFormed(p, f, Q), Keeps, Turns(p, f, Q),
         NEW x \in DOMAIN frame, frame'[x].sent = frame[x].sent,
         NEW v, Explained(x, v)
  PROVE  frame'[x].sent.lastCondition # v =>
           \E r, a \in DOMAIN frame' :
             /\ TypeAt(r)' = "CONDITION" /\ frame'[r].pc # "handler"
             /\ frame'[r].sent.lastCondition = v
             /\ TypeAt(a)' = "PARALLEL" /\ Extends(x, a) /\ Extends(r, a)
             /\ x[Len(a) + 1] # r[Len(a) + 1]
<1>0. /\ p \in DOMAIN frame
      /\ DOMAIN frame' = DOMAIN frame \cup Q
      /\ frame'[p] = f
      /\ \A q \in DOMAIN frame : q # p => frame'[q] = frame[q]
      /\ \A q : TypeAt(q)' = TypeAt(q)
  BY WalkKeeps, Zenon
<1>1. SUFFICES ASSUME frame[x].sent.lastCondition # v
               PROVE  \E r, a \in DOMAIN frame' :
                        /\ TypeAt(r)' = "CONDITION" /\ frame'[r].pc # "handler"
                        /\ frame'[r].sent.lastCondition = v
                        /\ TypeAt(a)' = "PARALLEL" /\ Extends(x, a) /\ Extends(r, a)
                        /\ x[Len(a) + 1] # r[Len(a) + 1]
  OBVIOUS
<1>2. PICK r \in DOMAIN frame, a \in DOMAIN frame :
        /\ TypeAt(r) = "CONDITION" /\ frame[r].pc # "handler" /\ frame[r].sent.lastCondition = v
        /\ TypeAt(a) = "PARALLEL" /\ Extends(x, a) /\ Extends(r, a)
        /\ x[Len(a) + 1] # r[Len(a) + 1]
  BY <1>1 DEF Explained
<1>3. frame'[r].pc # "handler" /\ frame'[r].sent = frame[r].sent
  BY <1>0, <1>2 DEF Turns
<1>. QED BY <1>0, <1>2, <1>3

LEMMA WalkKeepsOutcomes ==
  ASSUME IInv, SequenceInv, PathsInv, OutcomeInv,
         NEW p, NEW f \in Frame, NEW Q \in SUBSET Path,
         Goes(p, f, Q), WellFormed(p, f, Q), Keeps, Turns(p, f, Q)
  PROVE  OutcomeInv'
<1>0. /\ p \in DOMAIN frame /\ DOMAIN frame \subseteq Path
      /\ frame[p].pc \in Early \cup {"await"}
      /\ Q \cap DOMAIN frame = {}
      /\ Q # {} => f.pc = "await"
      /\ DOMAIN frame' = DOMAIN frame \cup Q
      /\ \A q \in Q : frame'[q] = NewFrame
      /\ frame'[p] = f
      /\ \A q \in DOMAIN frame : q # p => frame'[q] = frame[q]
      /\ \A q : TypeAt(q)' = TypeAt(q)
      /\ snapshot' = snapshot
  BY WalkKeeps, Zenon DEF Keeps
<1>1. NewFrame.pc = "handler" /\ NewFrame.todo = {}
  BY DEF NewFrame
<1>2. \A e : Selecting(e)' = Selecting(e)
  BY <1>0 DEF Selecting
(* What was picked stays picked.                                           *)
<1>3. ASSUME NEW x \in DOMAIN frame, frame'[x].sent = frame[x].sent, NEW e, Picked(x, e)
      PROVE  Picked(x, e)'
  <2>1. SUFFICES ASSUME snapshot.edges[e].condition \in {"ifTrue", "ifFalse"}
                 PROVE  Explained(x, Selecting(e))'
    BY <1>0 DEF Picked
  <2>2. PICK v : v = Selecting(e)
    OBVIOUS
  <2>3. Explained(x, v)
    BY <1>3, <2>1, <2>2 DEF Picked
  <2>4. frame'[x].sent.lastCondition # v =>
          \E r, a \in DOMAIN frame' :
            /\ TypeAt(r)' = "CONDITION" /\ frame'[r].pc # "handler"
            /\ frame'[r].sent.lastCondition = v
            /\ TypeAt(a)' = "PARALLEL" /\ Extends(x, a) /\ Extends(r, a)
            /\ x[Len(a) + 1] # r[Len(a) + 1]
    BY <1>3, <2>3, ExplainedStays
  <2>5. Selecting(e)' = v
    BY <1>2, <2>2
  <2>. QED BY <2>4, <2>5 DEF Explained
(* What p matches now, it picks.                                           *)
<1>4. ASSUME TypeAt(p) = "CONDITION", NEW e, Matched(p, e)
      PROVE  Picked(p, e)'
  <2>1. frame[p].pc # "handler"
    BY <1>0, <1>4 DEF Matched, IInv, SpawnInv
  <2>2. Picked(p, e)
    <3>1. CASE e \in frame[p].todo
      BY <1>0, <1>4, <3>1 DEF OutcomeInv
    <3>2. CASE e \notin frame[p].todo
      <4>1. Explained(p, ctx.lastCondition)
        BY <1>0, <1>4, <3>2 DEF OutcomeInv, Matched
      <4>. QED BY <1>4, <3>2, <4>1 DEF Matched, Picked
    <3>. QED BY <3>1, <3>2
  <2>. QED BY <1>0, <1>3, <2>1, <2>2 DEF Turns
<1>5. ASSUME NEW x \in DOMAIN frame, TypeAt(x) = "CONDITION",
             frame'[x].pc \in {"persist", "log", "branch"}, frame'[x].ok
      PROVE  Explained(x, ctx.lastCondition)'
  <2>1. PICK v : v = ctx'.lastCondition
    OBVIOUS
  <2>2. SUFFICES frame'[x].sent.lastCondition # v =>
                   \E r, a \in DOMAIN frame' :
                     /\ TypeAt(r)' = "CONDITION" /\ frame'[r].pc # "handler"
                     /\ frame'[r].sent.lastCondition = v
                     /\ TypeAt(a)' = "PARALLEL" /\ Extends(x, a) /\ Extends(r, a)
                     /\ x[Len(a) + 1] # r[Len(a) + 1]
    BY <2>1 DEF Explained
  <2>3. CASE x = p /\ frame[p].pc = "handler"
    BY <1>0, <1>5, <2>1, <2>3 DEF Turns
  <2>4. ASSUME frame[x].pc \in {"persist", "log", "branch"}, frame[x].ok,
               ctx'.lastCondition = ctx.lastCondition, frame'[x].sent = frame[x].sent
        PROVE  frame'[x].sent.lastCondition # v =>
                 \E r, a \in DOMAIN frame' :
                   /\ TypeAt(r)' = "CONDITION" /\ frame'[r].pc # "handler"
                   /\ frame'[r].sent.lastCondition = v
                   /\ TypeAt(a)' = "PARALLEL" /\ Extends(x, a) /\ Extends(r, a)
                   /\ x[Len(a) + 1] # r[Len(a) + 1]
    <3>1. Explained(x, v)
      BY <1>5, <2>1, <2>4 DEF OutcomeInv
    <3>. QED BY <2>4, <3>1, ExplainedStays
  <2>5. CASE x = p /\ frame[p].pc # "handler"
    <3>1. frame[p].pc \in {"persist", "log", "branch"}
      BY <1>0, <1>5, <2>5 DEF WellFormed, Early
    <3>. QED BY <1>0, <1>5, <2>4, <2>5, <3>1 DEF Turns
  <2>6. CASE x # p /\ ctx'.lastCondition = ctx.lastCondition
    BY <1>0, <1>5, <2>4, <2>6
  <2>7. CASE x # p /\ ctx'.lastCondition # ctx.lastCondition
    <3>1. /\ TypeAt(p) = "CONDITION" /\ frame[p].pc = "handler"
          /\ f.sent.lastCondition = v /\ f.pc # "handler"
      BY <2>1, <2>7 DEF Turns
    <3>2. frame[x].pc \in {"persist", "log", "branch"}
      BY <1>0, <1>5, <2>7
    <3>3. ~Under(x, p) /\ ~Under(p, x)
      BY <1>0, <2>7, <3>1, <3>2 DEF IInv, SpawnInv, Under
    <3>4. PICK a \in DOMAIN frame :
            /\ TypeAt(a) = "PARALLEL" /\ Extends(x, a) /\ Extends(p, a)
            /\ x[Len(a) + 1] # p[Len(a) + 1]
      BY <1>0, <3>1, <3>2, <3>3, Divergence
    <3>. QED BY <1>0, <3>1, <3>4
  <2>. QED BY <2>3, <2>5, <2>6, <2>7
<1>6. ASSUME NEW x \in DOMAIN frame, TypeAt(x) = "CONDITION", NEW e \in frame'[x].todo
      PROVE  Picked(x, e)'
  <2>1. CASE x = p
    BY <1>0, <1>4, <1>6, <2>1 DEF Turns
  <2>2. CASE x # p
    BY <1>0, <1>3, <1>6, <2>2 DEF OutcomeInv
  <2>. QED BY <2>1, <2>2
<1>7. ASSUME NEW x \in DOMAIN frame \cup Q, TypeAt(x) = "CONDITION",
             NEW q \in DOMAIN frame \cup Q, IsChild(q, x)
      PROVE  Picked(x, q[Len(q)])'
  <2>0. PICK e : e = q[Len(q)]
    OBVIOUS
  <2>1. CASE q \in Q
    <3>1. x = p
      BY <1>7, <2>1, NewChildren
    <3>2. Matched(p, e)
      BY <2>0, <2>1 DEF Turns
    <3>3. Picked(p, e)'
      BY <1>4, <1>7, <3>1, <3>2
    <3>. QED BY <2>0, <3>1, <3>3
  <2>2. CASE q \in DOMAIN frame
    <3>1. x \in DOMAIN frame /\ q \in Children(x)
      BY <1>7, <2>2, NewChildren
    <3>2. Picked(x, e)
      BY <1>7, <2>0, <3>1 DEF OutcomeInv
    <3>3. frame'[x].sent = frame[x].sent
      BY <1>0, <1>7, <2>2, <3>1 DEF IInv, SpawnInv, IsChild, Turns
    <3>. QED BY <1>3, <2>0, <3>1, <3>2, <3>3
  <2>. QED BY <2>1, <2>2
<1>8. ASSUME NEW x \in DOMAIN frame', TypeAt(x)' = "CONDITION"
      PROVE  /\ frame'[x].pc \in {"persist", "log", "branch"} /\ frame'[x].ok =>
                  Explained(x, ctx.lastCondition)'
             /\ \A e \in frame'[x].todo : Picked(x, e)'
             /\ \A q \in Children(x)' : Picked(x, q[Len(q)])'
  BY <1>0, <1>1, <1>5, <1>6, <1>7, <1>8 DEF Children
<1>. QED BY <1>8 DEF OutcomeInv

-----------------------------------------------------------------------------
(* The second invariant.                                                   *)

LEMMA WalkKeepsBranches ==
  ASSUME IInv, BranchesInv, NEW p \in DOMAIN frame, WalkStep(p)
  PROVE  BranchesInv'
<1>1. PICK f \in Frame, Q \in SUBSET Path : Keeps /\ Goes(p, f, Q) /\ WellFormed(p, f, Q)
  BY WalkStepShape
<1>2. Turns(p, f, Q)
  BY <1>1, WalkStepTurns
<1>. QED
  BY <1>1, <1>2, WalkKeepsSequence, WalkKeepsFailed, WalkKeepsPaths, WalkKeepsOutcomes
  DEF BranchesInv

LEMMA BranchesInit == Init => BranchesInv
BY DEF Init, BranchesInv, SequenceInv, FailedInv, PathsInv, OutcomeInv

(* The trigger is alone when run() starts it.                              *)
LEMMA BeginKeepsBranches ==
  ASSUME IInv, Begin
  PROVE  BranchesInv'
<1>1. DOMAIN frame' = {<<>>} /\ frame'[<<>>] = NewFrame
  BY DEF Begin, IInv, RootInv, Spawn
<1>2. NewFrame.pc = "handler" /\ NewFrame.todo = {}
  BY DEF NewFrame
<1>3. \A p : Children(p)' \subseteq {<<>>}
  BY <1>1 DEF Children
<1>4. Children(<<>>)' = {}
  BY <1>1 DEF Children, IsChild, Extends
<1>5. SequenceInv' /\ PathsInv' /\ OutcomeInv'
  BY <1>1, <1>2, <1>3, <1>4 DEF SequenceInv, PathsInv, Under, OutcomeInv
<1>6. FailedInv'
  BY <1>1, <1>2 DEF FailedInv, Begin
<1>. QED BY <1>5, <1>6 DEF BranchesInv

(* Whatever is not a step of walk() leaves the activations and the shared  *)
(* context alone; FAILED is written once the walk is over.                 *)
LEMMA OtherKeepsBranches ==
  ASSUME IInv, BranchesInv,
         \/ BeginRejected \/ Complete \/ CompleteRejected \/ Fail \/ FailRejected
         \/ (\E c \in Canceller : CancelRead(c) \/ CancelWrite(c))
         \/ Crash \/ UNCHANGED vars
  PROVE  BranchesInv'
<1>1. frame' = frame /\ snapshot' = snapshot /\ ctx' = ctx
  BY DEF BeginRejected, Complete, CompleteRejected, Fail, FailRejected, CancelRead, CancelWrite,
         Crash, vars
<1>2. /\ \A p : TypeAt(p)' = TypeAt(p)
      /\ \A p : Children(p)' = Children(p)
  BY <1>1 DEF TypeAt, NodeAt, TriggerNode, IsTrigger, Children
<1>3. SequenceInv' /\ PathsInv'
  BY <1>1, <1>2 DEF BranchesInv, SequenceInv, PathsInv, PartAt
<1>4. OutcomeInv'
  BY <1>1, <1>2 DEF BranchesInv, OutcomeInv, Picked, Explained, Selecting
<1>5. \A p : Settled(p)' = Settled(p) /\ UnderFailedFork(p)' = UnderFailedFork(p)
  BY <1>1, <1>2 DEF Settled, UnderFailedFork
<1>6. ASSUME phase' = "failed"
      PROVE  frame[<<>>].pc \in {"done", "failed"}
  <2>1. CASE phase = "failed"
    BY <2>1 DEF BranchesInv, FailedInv
  <2>2. CASE Fail
    BY <2>2 DEF Fail, MustFail, IInv, VerdictInv
  <2>. QED
    BY <1>6, <2>1, <2>2 DEF BeginRejected, Complete, CompleteRejected, FailRejected, CancelRead,
                            CancelWrite, Crash, vars
<1>7. FailedInv'
  BY <1>1, <1>5, <1>6 DEF BranchesInv, FailedInv
<1>. QED BY <1>3, <1>4, <1>7 DEF BranchesInv

LEMMA BranchesNext == IInv /\ BranchesInv /\ [Next]_vars => BranchesInv'
<1> SUFFICES ASSUME IInv, BranchesInv, [Next]_vars PROVE BranchesInv'
  OBVIOUS
<1>1. CASE Begin
  BY <1>1, BeginKeepsBranches
<1>2. ASSUME NEW p \in DOMAIN frame, WalkStep(p)
      PROVE  BranchesInv'
  BY <1>2, WalkKeepsBranches
<1>3. CASE \/ BeginRejected \/ Complete \/ CompleteRejected \/ Fail \/ FailRejected
           \/ (\E c \in Canceller : CancelRead(c) \/ CancelWrite(c))
           \/ Crash \/ UNCHANGED vars
  BY <1>3, OtherKeepsBranches
<1>. QED BY <1>1, <1>2, <1>3 DEF Next, RunnerStep

LEMMA BranchesInvariance == Spec => []BranchesInv
BY BranchesInit, BranchesNext, Invariance, PTL DEF Spec

(* What still runs when a run is FAILED lies under a fork that has failed: *)
(* walk() awaits what it calls in sequence, and only Promise.all gives up  *)
(* on calls in flight.                                                     *)
THEOREM StragglersUnderForks == Spec => []StragglersComeFromForks
<1>1. IInv /\ BranchesInv => StragglersComeFromForks
  <2> SUFFICES ASSUME IInv, BranchesInv, phase = "failed", NEW p \in DOMAIN frame, ~Settled(p)
               PROVE  UnderFailedFork(p)
    BY DEF StragglersComeFromForks, openActivations, UnderFailedFork
  <2>1. <<>> \in DOMAIN frame /\ frame[<<>>].pc \in {"done", "failed"}
    BY DEF IInv, RootInv, BranchesInv, FailedInv
  <2>2. Extends(p, <<>>)
    BY <2>1, RootIsExtended DEF IInv, TypeOK, Settled
  <2>. QED BY <2>1, <2>2 DEF IInv, DoneInv, BranchesInv, FailedInv, Settled
<1>. QED BY <1>1, Invariance, BranchesInvariance, PTL

(* The edge walked out of a CONDITION is one its own outcome selects, or   *)
(* one that the outcome of a CONDITION in another branch of a fork does:   *)
(* evaluateEdgeCondition reads the one _lastCondition all branches share.  *)
THEOREM OwnOutcomePicks == Spec => []OwnConditionPicksEdge
<1>1. BranchesInv => OwnConditionPicksEdge
  <2> SUFFICES ASSUME BranchesInv, NEW p \in DOMAIN frame, NEW q \in Children(p),
                      TypeAt(p) = "CONDITION",
                      snapshot.edges[q[Len(q)]].condition \in {"ifTrue", "ifFalse"}
               PROVE  Explained(p, Selecting(q[Len(q)]))
    BY DEF OwnConditionPicksEdge, Explained, Selecting
  <2>. QED BY DEF BranchesInv, OutcomeInv, Picked
<1>. QED BY <1>1, BranchesInvariance, PTL
=============================================================================
