--------------------------- MODULE WorkflowRunner ---------------------------
(***************************************************************************)
(* One workflow run: WorkflowRunner.run/walk/complete/fail, the handlers   *)
(* it calls, and WorkflowsService.cancelRun working on the same row.       *)
(*                                                                         *)
(* walk() is a recursive async function.  Each call is an activation,      *)
(* named by the path of edges that led to it (<<>> for the TRIGGER), so a  *)
(* node reached along two paths has two activations, as in the code.  An   *)
(* activation suspends at every await: the handler, the row update, the    *)
(* log insert, its children; between two awaits any other activation or    *)
(* request may run.                                                        *)
(***************************************************************************)
EXTENDS Naturals, Sequences

CONSTANTS
  Node,         \* node ids
  Graphs,       \* the validated graphs a run may have as its snapshot
  Canceller,    \* concurrent POST .../cancel requests
  MaxDbErrors,  \* bound: database calls of the runner that are rejected
  MayCrash      \* bound: whether the process running the runner may die

NodeType == {"TRIGGER", "CONDITION", "AGENT", "ACTION", "WAIT", "PARALLEL", "END"}

(* Edge conditions by what they read: nothing, vars._lastCondition, or     *)
(* other run data (a value the model does not track).                      *)
EdgeCondition == {"always", "ifTrue", "ifFalse", "data"}

WorkflowEdge == [source: Node, target: Node, condition: EdgeCondition]

IsTrigger(g, n) == g.type[n] = "TRIGGER"

(* A graph types some of the nodes, one of them TRIGGER, and orders its    *)
(* edges, whose ends are nodes of the graph.                               *)
IsWorkflowGraph(g) ==
  /\ DOMAIN g.type \subseteq Node
  /\ g.type \in [DOMAIN g.type -> NodeType]
  /\ g.edges \in Seq(WorkflowEdge)
  /\ \A i \in DOMAIN g.edges : {g.edges[i].source, g.edges[i].target} \subseteq DOMAIN g.type
  /\ \E n \in DOMAIN g.type : IsTrigger(g, n)

ASSUME GraphsAssumption == \A g \in Graphs : IsWorkflowGraph(g)

ASSUME BoundsAssumption == MaxDbErrors \in Nat /\ MayCrash \in BOOLEAN

VARIABLES
  snapshot,   \* workflow_runs.snapshot
  row,        \* the other columns of workflow_runs: status, currentNode, context
  log,        \* workflow_run_logs
  ctx,        \* WorkflowRunContext.vars, shared by every activation
  frame,      \* the activations of walk(), by path
  phase,      \* where run() is
  cancel,     \* where each cancelRun() request is
  alive,      \* the process still runs
  dbErrors

vars == <<snapshot, row, log, ctx, frame, phase, cancel, alive, dbErrors>>

Path == Seq(Nat)
NoNode == "NULL"
Terminal == {"COMPLETED", "FAILED", "CANCELLED"}
Status == Terminal \cup {"PENDING", "RUNNING"}

(* vars by who wrote it: the nodes whose setVars was merged, and the value *)
(* of _lastCondition.                                                      *)
Context == [setBy: SUBSET Node, lastCondition: {"unset", "true", "false"}]
NoContext == [setBy |-> {}, lastCondition |-> "unset"]

Frame ==
  [pc: {"handler", "persist", "log", "branch", "await", "done", "failed"},
   ok: BOOLEAN,       \* result.ok of the handler
   sent: Context,     \* the context the row update carries
   todo: SUBSET Nat]  \* matching edges not walked yet

(* run() is before its RUNNING write, inside walk(), about to write FAILED *)
(* after complete() threw, or over: by a verdict, or with no row written.  *)
Phase == {"begin", "walk", "failing", "completed", "failed", "abandoned"}

TypeOK ==
  /\ snapshot \in Graphs
  /\ row \in [status: Status, currentNode: Node \cup {NoNode}, context: Context]
  /\ log \subseteq [path: Path, ok: BOOLEAN]
  /\ ctx \in Context
  /\ DOMAIN frame \subseteq Path
  /\ frame \in [DOMAIN frame -> Frame]
  /\ \A p \in DOMAIN frame :
       /\ p # <<>> => p[Len(p)] \in DOMAIN snapshot.edges
       /\ frame[p].todo \subseteq DOMAIN snapshot.edges
  /\ phase \in Phase
  /\ cancel \in [Canceller -> {"idle", "read", "over"}]
  /\ alive \in BOOLEAN
  /\ dbErrors \in Nat

-----------------------------------------------------------------------------
(* The graph.                                                              *)

TriggerNode == CHOOSE n \in DOMAIN snapshot.type : IsTrigger(snapshot, n)

NodeAt(p) == IF p = <<>> THEN TriggerNode ELSE snapshot.edges[p[Len(p)]].target

TypeAt(p) == snapshot.type[NodeAt(p)]

(* q lies below p in the tree of activations; q was called by p.           *)
Extends(q, p) == Len(p) < Len(q) /\ \A i \in 1..Len(p) : q[i] = p[i]
IsChild(q, p) == Extends(q, p) /\ Len(q) = Len(p) + 1

Children(p) == {q \in DOMAIN frame : IsChild(q, p)}

(* Mutant of Holds: any outcome that is not empty counts as true.          *)
HoldsTruthy(e, hold) ==
  CASE snapshot.edges[e].condition = "always"  -> TRUE
    [] snapshot.edges[e].condition = "ifTrue"  -> ctx.lastCondition # "unset"
    [] snapshot.edges[e].condition = "ifFalse" -> ctx.lastCondition = "false"
    [] snapshot.edges[e].condition = "data"    -> e \in hold

(* evaluateEdgeCondition: hold is the set of data edges that are true now. *)
Holds(e, hold) ==
  CASE snapshot.edges[e].condition = "always"  -> TRUE
    [] snapshot.edges[e].condition = "ifTrue"  -> ctx.lastCondition = "true"
    [] snapshot.edges[e].condition = "ifFalse" -> ctx.lastCondition = "false"
    [] snapshot.edges[e].condition = "data"    -> e \in hold

OutgoingEdges(n) == {e \in DOMAIN snapshot.edges : snapshot.edges[e].source = n}

MatchingEdges(n, hold) == {e \in OutgoingEdges(n) : Holds(e, hold)}

(* Edges are walked in declaration order.                                  *)
IsFirst(e, es) == e \in es /\ \A f \in es : e <= f
IsSingleton(es) == \E e \in es : es = {e}

DataEdges == {e \in DOMAIN snapshot.edges : snapshot.edges[e].condition = "data"}

-----------------------------------------------------------------------------
(* run(): the row is PENDING, nothing has been walked.                     *)

NewFrame == [pc |-> "handler", ok |-> TRUE, sent |-> NoContext, todo |-> {}]

Init ==
  /\ snapshot \in Graphs
  /\ row = [status |-> "PENDING", currentNode |-> NoNode, context |-> NoContext]
  /\ log = {}
  /\ ctx = NoContext
  /\ frame = [p \in {} |-> NewFrame]
  /\ phase = "begin"
  /\ cancel = [c \in Canceller |-> "idle"]
  /\ alive = TRUE
  /\ dbErrors = 0

(* Activations Q start: walk() is called on the target of each edge.       *)
Spawn(f, Q) == [q \in DOMAIN f \cup Q |-> IF q \in Q THEN NewFrame ELSE f[q]]

Goto(p, label) == frame' = [frame EXCEPT ![p].pc = label]

At(p, label) == alive /\ p \in DOMAIN frame /\ frame[p].pc = label

DbError == dbErrors < MaxDbErrors /\ dbErrors' = dbErrors + 1

(* The write of RUNNING is unconditional: a cancellation that came first   *)
(* is overwritten.                                                         *)
Begin ==
  /\ alive /\ phase = "begin"
  /\ row' = [row EXCEPT !.status = "RUNNING", !.context = ctx]
  /\ frame' = Spawn(frame, {<<>>})
  /\ phase' = "walk"
  /\ UNCHANGED <<snapshot, log, ctx, cancel, alive, dbErrors>>

(* That write is outside the try block: its rejection leaves the row alone.*)
BeginRejected ==
  /\ alive /\ phase = "begin"
  /\ DbError
  /\ phase' = "abandoned"
  /\ UNCHANGED <<snapshot, row, log, ctx, frame, cancel, alive>>

-----------------------------------------------------------------------------
(* walk().                                                                 *)

MayFail == {"CONDITION", "AGENT", "ACTION"}
SetsVars == {"TRIGGER", "CONDITION", "AGENT", "ACTION", "WAIT"}

(* The contexts a successful handler of node n may leave: setVars merged.  *)
AfterHandler(n) ==
  LET written == [ctx EXCEPT !.setBy = @ \cup {n}]
  IN  IF snapshot.type[n] = "CONDITION"
        THEN {[written EXCEPT !.lastCondition = b] : b \in {"true", "false"}}
        ELSE {IF snapshot.type[n] \in SetsVars THEN written ELSE ctx}

(* handler.execute settles, setVars is merged into the shared context and  *)
(* the row update is issued with the context as it is now.                 *)
HandlerReturns(p) ==
  /\ At(p, "handler")
  /\ ctx' \in AfterHandler(NodeAt(p))
  /\ frame' = [frame EXCEPT ![p] = [@ EXCEPT !.pc = "persist", !.ok = TRUE, !.sent = ctx']]
  /\ UNCHANGED <<snapshot, row, log, phase, cancel, alive, dbErrors>>

(* A handler that throws or returns ok: false merges nothing.              *)
HandlerFails(p) ==
  /\ At(p, "handler")
  /\ TypeAt(p) \in MayFail
  /\ frame' = [frame EXCEPT ![p] = [@ EXCEPT !.pc = "persist", !.ok = FALSE, !.sent = ctx]]
  /\ UNCHANGED <<snapshot, row, log, ctx, phase, cancel, alive, dbErrors>>

(* Mutant of PersistContext: the log insert is skipped.                    *)
PersistWithoutLog(p) ==
  /\ At(p, "persist")
  /\ row' = [row EXCEPT !.currentNode = NodeAt(p), !.context = frame[p].sent]
  /\ Goto(p, "branch")
  /\ UNCHANGED <<snapshot, log, ctx, phase, cancel, alive, dbErrors>>

PersistContext(p) ==
  /\ At(p, "persist")
  /\ row' = [row EXCEPT !.currentNode = NodeAt(p), !.context = frame[p].sent]
  /\ Goto(p, "log")
  /\ UNCHANGED <<snapshot, log, ctx, phase, cancel, alive, dbErrors>>

WriteLog(p) ==
  /\ At(p, "log")
  /\ log' = log \cup {[path |-> p, ok |-> frame[p].ok]}
  /\ Goto(p, "branch")
  /\ UNCHANGED <<snapshot, row, ctx, phase, cancel, alive, dbErrors>>

(* The row update or the log insert is rejected: walk() throws.            *)
WriteRejected(p) ==
  /\ At(p, "persist") \/ At(p, "log")
  /\ DbError
  /\ Goto(p, "failed")
  /\ UNCHANGED <<snapshot, row, log, ctx, phase, cancel, alive>>

Throw(p) ==
  /\ At(p, "branch")
  /\ ~frame[p].ok
  /\ Goto(p, "failed")
  /\ UNCHANGED <<snapshot, row, log, ctx, phase, cancel, alive, dbErrors>>

(* Mutant of Stop: a node none of whose edges match never returns.         *)
StopAtEndOnly(p) ==
  /\ At(p, "branch")
  /\ frame[p].ok
  /\ TypeAt(p) = "END"
  /\ Goto(p, "done")
  /\ UNCHANGED <<snapshot, row, log, ctx, phase, cancel, alive, dbErrors>>

(* END, or no edge matches: the activation returns.                        *)
Stop(p) ==
  /\ At(p, "branch")
  /\ frame[p].ok
  /\ \/ TypeAt(p) = "END"
     \/ \E hold \in SUBSET DataEdges : MatchingEdges(NodeAt(p), hold) = {}
  /\ Goto(p, "done")
  /\ UNCHANGED <<snapshot, row, log, ctx, phase, cancel, alive, dbErrors>>

(* PARALLEL with several matching edges: all branches start (Promise.all). *)
Fork(p) ==
  /\ At(p, "branch")
  /\ frame[p].ok
  /\ TypeAt(p) = "PARALLEL"
  /\ \E hold \in SUBSET DataEdges :
       LET es == MatchingEdges(NodeAt(p), hold)
       IN  /\ es # {} /\ ~IsSingleton(es)
           /\ frame' = Spawn([frame EXCEPT ![p].pc = "await"], {Append(p, e) : e \in es})
  /\ UNCHANGED <<snapshot, row, log, ctx, phase, cancel, alive, dbErrors>>

(* Otherwise every matching edge is walked, one after the other.           *)
Descend(p) ==
  /\ At(p, "branch")
  /\ frame[p].ok
  /\ TypeAt(p) # "END"
  /\ \E hold \in SUBSET DataEdges, e \in DOMAIN snapshot.edges :
       LET es == MatchingEdges(NodeAt(p), hold)
       IN  /\ IsFirst(e, es)
           /\ TypeAt(p) = "PARALLEL" => IsSingleton(es)
           /\ frame' = Spawn([frame EXCEPT ![p] = [@ EXCEPT !.pc = "await", !.todo = es \ {e}]],
                             {Append(p, e)})
  /\ UNCHANGED <<snapshot, row, log, ctx, phase, cancel, alive, dbErrors>>

(* Mutant of ChildrenDone: one settled child is enough (Promise.any).      *)
AnyChildDone(p) == \E q \in Children(p) : frame[q].pc = "done"

ChildrenDone(p) == \A q \in Children(p) : frame[q].pc = "done"

(* The awaited child returned: walk the next edge of the sequence.         *)
NextEdge(p) ==
  /\ At(p, "await")
  /\ ChildrenDone(p)
  /\ \E e \in frame[p].todo :
       /\ IsFirst(e, frame[p].todo)
       /\ frame' = Spawn([frame EXCEPT ![p].todo = @ \ {e}], {Append(p, e)})
  /\ UNCHANGED <<snapshot, row, log, ctx, phase, cancel, alive, dbErrors>>

Return(p) ==
  /\ At(p, "await")
  /\ ChildrenDone(p)
  /\ frame[p].todo = {}
  /\ Goto(p, "done")
  /\ UNCHANGED <<snapshot, row, log, ctx, phase, cancel, alive, dbErrors>>

(* A child threw: this activation throws too, at once; the other branches  *)
(* of a Promise.all are not stopped.                                       *)
Propagate(p) ==
  /\ At(p, "await")
  /\ \E q \in Children(p) : frame[q].pc = "failed"
  /\ Goto(p, "failed")
  /\ UNCHANGED <<snapshot, row, log, ctx, phase, cancel, alive, dbErrors>>

-----------------------------------------------------------------------------
(* run(), after walk().                                                    *)

(* Mutant of Complete: the context of the last row update is kept.         *)
CompleteKeepsContext ==
  /\ phase = "walk" /\ At(<<>>, "done")
  /\ row' = [row EXCEPT !.status = "COMPLETED", !.currentNode = NoNode]
  /\ phase' = "completed"
  /\ UNCHANGED <<snapshot, log, ctx, frame, cancel, alive, dbErrors>>

Complete ==
  /\ phase = "walk" /\ At(<<>>, "done")
  /\ row' = [status |-> "COMPLETED", currentNode |-> NoNode, context |-> ctx]
  /\ phase' = "completed"
  /\ UNCHANGED <<snapshot, log, ctx, frame, cancel, alive, dbErrors>>

CompleteRejected ==
  /\ phase = "walk" /\ At(<<>>, "done")
  /\ DbError
  /\ phase' = "failing"
  /\ UNCHANGED <<snapshot, row, log, ctx, frame, cancel, alive>>

(* Mutant of MustFail: FAILED is written as soon as an activation throws.  *)
FailEagerly ==
  /\ alive
  /\ phase \in {"walk", "failing"}
  /\ \E p \in DOMAIN frame : frame[p].pc = "failed"

MustFail ==
  /\ alive
  /\ \/ phase = "failing"
     \/ phase = "walk" /\ frame[<<>>].pc = "failed"

Fail ==
  /\ MustFail
  /\ row' = [row EXCEPT !.status = "FAILED"]
  /\ phase' = "failed"
  /\ UNCHANGED <<snapshot, log, ctx, frame, cancel, alive, dbErrors>>

(* fail() itself is rejected: the caller only logs, the row stays RUNNING. *)
FailRejected ==
  /\ MustFail
  /\ DbError
  /\ phase' = "abandoned"
  /\ UNCHANGED <<snapshot, row, log, ctx, frame, cancel, alive>>

-----------------------------------------------------------------------------
(* cancelRun(): read the row, then write it; and the process.              *)

CancelRead(c) ==
  /\ cancel[c] = "idle"
  /\ cancel' = [cancel EXCEPT ![c] = IF row.status \in Terminal THEN "over" ELSE "read"]
  /\ UNCHANGED <<snapshot, row, log, ctx, frame, phase, alive, dbErrors>>

CancelWrite(c) ==
  /\ cancel[c] = "read"
  /\ row' = [row EXCEPT !.status = "CANCELLED"]
  /\ cancel' = [cancel EXCEPT ![c] = "over"]
  /\ UNCHANGED <<snapshot, log, ctx, frame, phase, alive, dbErrors>>

(* The run lives in memory only: when the process dies nothing resumes it. *)
Crash ==
  /\ MayCrash /\ alive
  /\ alive' = FALSE
  /\ UNCHANGED <<snapshot, row, log, ctx, frame, phase, cancel, dbErrors>>

WalkStep(p) ==
  \/ HandlerReturns(p) \/ HandlerFails(p)
  \/ PersistContext(p) \/ WriteLog(p) \/ WriteRejected(p)
  \/ Throw(p) \/ Stop(p) \/ Fork(p) \/ Descend(p)
  \/ NextEdge(p) \/ Return(p) \/ Propagate(p)

RunnerStep ==
  \/ Begin \/ BeginRejected
  \/ \E p \in DOMAIN frame : WalkStep(p)
  \/ Complete \/ CompleteRejected \/ Fail \/ FailRejected

Next ==
  \/ RunnerStep
  \/ \E c \in Canceller : CancelRead(c) \/ CancelWrite(c)
  \/ Crash

Spec == Init /\ [][Next]_vars

(* The event loop keeps serving the runner while the process is alive, and *)
(* a handler settles: tool calls, waits and provider calls are bounded.    *)
FairSpec == Spec /\ WF_vars(RunnerStep)

-----------------------------------------------------------------------------
(* Properties.                                                             *)

(* The abstract contract, with the activations in flight read off the      *)
(* frames: a settled activation is "done" or "failed".                     *)
Settled(p) == frame[p].pc \in {"done", "failed"}

openActivations == {p \in DOMAIN frame : ~Settled(p)}

somethingBroke ==
  \/ phase \in {"failing", "failed", "abandoned"}
  \/ \E p \in DOMAIN frame : frame[p].pc = "failed"

verdictGiven ==
  IF phase = "completed" THEN "COMPLETED" ELSE IF phase = "failed" THEN "FAILED" ELSE "NONE"

Contract == INSTANCE RunContract
  WITH status <- row.status, open <- openActivations,
       broken <- somethingBroke, verdict <- verdictGiven

(* The run implements its contract: one verdict at most, COMPLETED only    *)
(* when every activation has settled well (complete after walk), FAILED    *)
(* only after a rejection, and nothing else but a cancellation touches the *)
(* status.                                                                 *)
ImplementsContract == Contract!Spec

(* A COMPLETED row is the whole story: every activation settled well and   *)
(* has its log row, no node is current, and the context holds what every   *)
(* handler set, although the row updates of parallel branches may have     *)
(* reached the database out of order (walk's update, complete).            *)
CompletedIsWhole ==
  row.status = "COMPLETED" =>
    /\ row.currentNode = NoNode
    /\ row.context = ctx
    /\ \A p \in DOMAIN frame : frame[p].pc = "done" /\ [path |-> p, ok |-> TRUE] \in log

(* When the run is FAILED, whatever still runs lies under a PARALLEL node  *)
(* that has failed: a failure elsewhere leaves nothing behind.             *)
StragglersComeFromForks ==
  phase = "failed" =>
    \A p \in openActivations : \E r \in DOMAIN frame :
      Extends(p, r) /\ TypeAt(r) = "PARALLEL" /\ frame[r].pc = "failed"

(* The edge walked out of a CONDITION is one its own outcome selects,      *)
(* unless a CONDITION in another branch of a fork came to the outcome that *)
(* does: vars._lastCondition is one for all branches (walk's merge, then   *)
(* evaluateEdgeCondition), but what ran in sequence leaves it alone.       *)
OwnConditionPicksEdge ==
  \A p \in DOMAIN frame : \A q \in Children(p) :
    LET condition == snapshot.edges[q[Len(q)]].condition
        selecting == IF condition = "ifTrue" THEN "true" ELSE "false"
    IN  /\ TypeAt(p) = "CONDITION" /\ condition \in {"ifTrue", "ifFalse"}
        /\ frame[p].sent.lastCondition # selecting
        => \E r, f \in DOMAIN frame :
             /\ TypeAt(r) = "CONDITION" /\ frame[r].sent.lastCondition = selecting
             /\ TypeAt(f) = "PARALLEL" /\ Extends(p, f) /\ Extends(r, f) /\ p[Len(f) + 1] # r[Len(f) + 1]

(* Every run ends: unless a database error or the end of the process comes *)
(* in between, the row gets a terminal status and keeps one, whatever the  *)
(* branches, their failures and cancellations do.                          *)
RunEnds == <>[](row.status \in Terminal) \/ <>(~alive \/ dbErrors > 0)

-----------------------------------------------------------------------------
(* The inductive invariant behind ImplementsContract and CompletedIsWhole. *)

(* The log has no gap: an activation exists only when the one that led to  *)
(* it has a COMPLETED log row (walk logs before it takes an edge), also    *)
(* when log inserts are rejected or the process dies.                      *)
LogHasNoGap ==
  \A p, q \in DOMAIN frame : IsChild(q, p) => [path |-> p, ok |-> TRUE] \in log

(* The root activation exists from Begin on.                               *)
RootInv ==
  /\ phase = "begin" => DOMAIN frame = {}
  /\ phase \in {"walk", "failing", "completed", "failed"} => <<>> \in DOMAIN frame

(* The activations form a tree: whatever lies below p lies below, or is, a *)
(* child of p.                                                             *)
TreeInv ==
  \A p, q \in DOMAIN frame : Extends(q, p) =>
    \E c \in DOMAIN frame : IsChild(c, p) /\ (c = q \/ Extends(q, c))

(* Children exist only once p awaits them, and the edges left to walk have *)
(* no activation yet.                                                      *)
SpawnInv ==
  \A p \in DOMAIN frame :
    /\ \A q \in DOMAIN frame : Extends(q, p) => frame[p].pc \in {"await", "done", "failed"}
    /\ \A e \in frame[p].todo : Append(p, e) \notin DOMAIN frame
    /\ frame[p].pc \in {"handler", "persist", "log", "branch"} => frame[p].todo = {}

(* An activation returns only after everything below it has.               *)
DoneInv ==
  \A p, q \in DOMAIN frame :
    Extends(q, p) /\ frame[p].pc = "done" => frame[q].pc = "done"

(* Whoever got past the log insert has its row.                            *)
LogInv ==
  \A p \in DOMAIN frame :
    /\ frame[p].pc = "branch" => [path |-> p, ok |-> frame[p].ok] \in log
    /\ frame[p].pc \in {"await", "done"} => [path |-> p, ok |-> TRUE] \in log

(* run() gives its verdict on a settled tree, and nothing moves after a    *)
(* COMPLETED one.                                                          *)
VerdictInv ==
  /\ phase \in {"failing", "completed"} => frame[<<>>].pc = "done"
  /\ phase = "completed" => row.currentNode = NoNode /\ row.context = ctx
  /\ row.status = "COMPLETED" => phase = "completed"

IInv ==
  /\ TypeOK /\ RootInv /\ TreeInv /\ SpawnInv /\ DoneInv /\ LogInv /\ VerdictInv
  /\ LogHasNoGap

(* And the one behind StragglersComeFromForks and OwnConditionPicksEdge.   *)
(* What is called in sequence is called one after the other.               *)
SequenceInv ==
  \A p \in DOMAIN frame : TypeAt(p) # "PARALLEL" =>
    \A c, d \in Children(p) : c = d \/ frame[c].pc = "done" \/ frame[d].pc = "done"

(* What goes on under an activation that failed is a branch of a fork.     *)
UnderFailedFork(p) ==
  \E f \in DOMAIN frame : Extends(p, f) /\ TypeAt(f) = "PARALLEL" /\ frame[f].pc = "failed"

FailedInv ==
  /\ \A r, p \in DOMAIN frame : frame[r].pc = "failed" /\ Extends(p, r) /\ ~Settled(p) => UnderFailedFork(p)
  /\ phase = "failed" => frame[<<>>].pc \in {"done", "failed"}

(* Two activations lie on one path, or on two that part at a common one.   *)
Under(p, c) == c = p \/ Extends(p, c)
PartAt(p, r, a) == \E c, d \in Children(a) : c # d /\ Under(p, c) /\ Under(r, d)

PathsInv == \A p, r \in DOMAIN frame : Under(p, r) \/ Under(r, p) \/ \E a \in DOMAIN frame : PartAt(p, r, a)

(* An outcome v that is not p's own is that of a CONDITION in another      *)
(* branch of a fork.                                                       *)
Explained(p, v) ==
  frame[p].sent.lastCondition # v =>
    \E r, f \in DOMAIN frame :
      /\ TypeAt(r) = "CONDITION" /\ frame[r].pc # "handler" /\ frame[r].sent.lastCondition = v
      /\ TypeAt(f) = "PARALLEL" /\ Extends(p, f) /\ Extends(r, f) /\ p[Len(f) + 1] # r[Len(f) + 1]

Selecting(e) == IF snapshot.edges[e].condition = "ifTrue" THEN "true" ELSE "false"

Picked(p, e) == snapshot.edges[e].condition \in {"ifTrue", "ifFalse"} => Explained(p, Selecting(e))

OutcomeInv ==
  \A p \in DOMAIN frame : TypeAt(p) = "CONDITION" =>
    /\ frame[p].pc \in {"persist", "log", "branch"} /\ frame[p].ok => Explained(p, ctx.lastCondition)
    /\ \A e \in frame[p].todo : Picked(p, e)
    /\ \A q \in Children(p) : Picked(p, q[Len(q)])

BranchesInv == SequenceInv /\ FailedInv /\ PathsInv /\ OutcomeInv
=============================================================================
