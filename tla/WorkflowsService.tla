-------------------------- MODULE WorkflowsService --------------------------
(***************************************************************************)
(* WorkflowsService: create, update, activate, pause, archive and          *)
(* runWorkflow on rows of workflows, workflow_nodes and workflow_edges.    *)
(*                                                                         *)
(* A request reads the workflow, checks what it read and then writes; each *)
(* database call is a step, so requests interleave between the read and    *)
(* the writes.  Only the two deletes of persistGraph share a transaction.  *)
(***************************************************************************)
EXTENDS Naturals

CONSTANTS
  Workflow,     \* workflow ids
  Request,      \* HTTP requests
  Definition,   \* graphs a client submits
  Valid,        \* those validateGraph accepts
  NodesOf,      \* the node ids of a definition
  EdgesOf,      \* its edges
  MaxDbErrors   \* bound: database calls that are rejected

Nothing == "undefined"
Status == {"DRAFT", "ACTIVE", "PAUSED", "ARCHIVED"}

ASSUME DefinitionsAssumption == Valid \subseteq Definition /\ Nothing \notin Definition

VARIABLES
  wf,         \* workflows, by id
  nodes,      \* workflow_nodes: ids are a primary key over all workflows
  edges,      \* workflow_edges: also, with foreign keys to workflow_nodes
  runs,       \* workflow_runs, what of them the service writes
  req,        \* where each request is, and what it holds
  dbErrors,
  was,        \* history: every row a workflow has had
  disturbed   \* history: its last graph update overlapped another or failed

vars == <<wf, nodes, edges, runs, req, dbErrors, was, disturbed>>

Row == [status: Status, deleted: BOOLEAN, version: Nat, definition: Definition]

Op == {"create", "update", "activate", "pause", "archive", "run"}

(* definition and status are the ones of the DTO, for a run the definition *)
(* it read; version is the one read.                                       *)
RequestState ==
  [pc: {"idle", "delete", "nodes", "edges", "write", "run", "over"}, op: Op, workflow: Workflow,
   definition: Definition \cup {Nothing}, status: Status \cup {Nothing}, version: Nat]

TypeOK ==
  /\ DOMAIN wf \subseteq Workflow
  /\ wf \in [DOMAIN wf -> Row]
  /\ \A n \in nodes : n.workflow \in DOMAIN wf
  /\ \A e \in edges : e.workflow \in DOMAIN wf
  /\ runs \subseteq [workflow: Workflow, version: Nat, snapshot: Definition]
  /\ req \in [Request -> RequestState]
  /\ \A r \in Request : req[r].pc \notin {"idle", "over"} => req[r].workflow \in DOMAIN wf
  /\ dbErrors \in Nat
  /\ was \subseteq [workflow: Workflow, row: Row]
  /\ disturbed \in [Workflow -> BOOLEAN]

-----------------------------------------------------------------------------

NodeRows(w, d) == {[id |-> n, workflow |-> w] : n \in NodesOf[d]}
EdgeRows(w, d) ==
  {[id |-> e.id, workflow |-> w, source |-> e.source, target |-> e.target] : e \in EdgesOf[d]}

NodesIn(w) == {n \in nodes : n.workflow = w}
EdgesIn(w) == {e \in edges : e.workflow = w}

Created(s, d) == [status |-> s, deleted |-> FALSE, version |-> 1, definition |-> d]

(* Workflows exist from earlier requests, or not yet.                      *)
Init ==
  /\ \E W \in SUBSET Workflow :
       wf \in [W -> {Created(s, d) : s \in {"DRAFT", "ACTIVE"}, d \in Valid}]
  /\ nodes = UNION {NodeRows(w, wf[w].definition) : w \in DOMAIN wf}
  /\ edges = UNION {EdgeRows(w, wf[w].definition) : w \in DOMAIN wf}
  /\ \A m, n \in nodes : m.id = n.id => m = n
  /\ \A e, f \in edges : e.id = f.id => e = f
  /\ runs = {}
  /\ \E w \in Workflow :
       req = [r \in Request |-> [pc |-> "idle", op |-> "run", workflow |-> w, definition |-> Nothing,
                                 status |-> Nothing, version |-> 0]]
  /\ dbErrors = 0
  /\ was = {[workflow |-> w, row |-> wf[w]] : w \in DOMAIN wf}
  /\ disturbed = [w \in Workflow |-> FALSE]

(* A row is written, the history follows.                                  *)
Write(w, row) ==
  /\ wf' = [v \in DOMAIN wf \cup {w} |-> IF v = w THEN row ELSE wf[v]]
  /\ was' = was \cup {[workflow |-> w, row |-> row]}

Goto(r, label) == req' = [req EXCEPT ![r].pc = label]

Begin(r, label, op, w, d, s, v) ==
  /\ req[r].pc = "idle"
  /\ req' = [req EXCEPT ![r] = [pc |-> label, op |-> op, workflow |-> w, definition |-> d,
                                status |-> s, version |-> v]]

(* get(): not archived, the soft delete.                                   *)
Found(w) == w \in DOMAIN wf /\ ~wf[w].deleted

(* What a request is turned down for, by what it read.                     *)
Refused(op, w, d) ==
  \/ op = "create" /\ d \notin Valid
  \/ op # "create" /\ ~Found(w)
  \/ op = "update" /\ d # Nothing /\ d \notin Valid
  \/ op \in {"activate", "pause"} /\ Found(w) /\ wf[w].status = "ARCHIVED"
  \/ op = "activate" /\ Found(w) /\ wf[w].definition \notin Valid
  \/ op = "run" /\ Found(w) /\ wf[w].status # "ACTIVE"

Refuse(r, op, w, d) ==
  /\ req[r].pc = "idle"
  /\ Refused(op, w, d)
  /\ Goto(r, "over")
  /\ UNCHANGED <<wf, nodes, edges, runs, dbErrors, was, disturbed>>

(* A request is replacing the graph of w.                                  *)
Replacing(r) ==
  /\ req[r].op \in {"create", "update"}
  /\ req[r].definition # Nothing
  /\ req[r].pc \in {"delete", "nodes", "edges", "write"}

BeingReplaced(w) == \E r \in Request : Replacing(r) /\ req[r].workflow = w

create(r, w, d) ==
  /\ w \notin DOMAIN wf
  /\ ~Refused("create", w, d)
  /\ Write(w, Created("DRAFT", d))
  /\ Begin(r, "delete", "create", w, d, Nothing, 0)
  /\ UNCHANGED <<nodes, edges, runs, dbErrors, disturbed>>

(* Mutant of update: no validation.                                        *)
updateUnchecked(r, w, d, s) ==
  /\ Found(w)
  /\ Begin(r, IF d = Nothing THEN "write" ELSE "delete", "update", w, d, s, wf[w].version)
  /\ disturbed' = IF d = Nothing THEN disturbed ELSE [disturbed EXCEPT ![w] = BeingReplaced(w)]
  /\ UNCHANGED <<wf, nodes, edges, runs, dbErrors, was>>

(* A new graph goes to the tables first.                                   *)
update(r, w, d, s) ==
  /\ ~Refused("update", w, d)
  /\ Begin(r, IF d = Nothing THEN "write" ELSE "delete", "update", w, d, s, wf[w].version)
  /\ disturbed' = IF d = Nothing THEN disturbed ELSE [disturbed EXCEPT ![w] = BeingReplaced(w)]
  /\ UNCHANGED <<wf, nodes, edges, runs, dbErrors, was>>

(* activate, pause and archive: the status they are going to write.        *)
Transition(r, w, op, s) ==
  /\ ~Refused(op, w, Nothing)
  /\ Begin(r, "write", op, w, Nothing, s, 0)
  /\ UNCHANGED <<wf, nodes, edges, runs, dbErrors, was, disturbed>>

activate(r, w) == Transition(r, w, "activate", "ACTIVE")
pause(r, w) == Transition(r, w, "pause", "PAUSED")
archive(r, w) == Transition(r, w, "archive", "ARCHIVED")

(* Mutant of runWorkflow: the status is not checked.                       *)
runWorkflowAny(r, w) ==
  /\ Found(w)
  /\ Begin(r, "run", "run", w, wf[w].definition, Nothing, wf[w].version)
  /\ UNCHANGED <<wf, nodes, edges, runs, dbErrors, was, disturbed>>

runWorkflow(r, w) ==
  /\ ~Refused("run", w, Nothing)
  /\ Begin(r, "run", "run", w, wf[w].definition, Nothing, wf[w].version)
  /\ UNCHANGED <<wf, nodes, edges, runs, dbErrors, was, disturbed>>

-----------------------------------------------------------------------------
(* The request goes on with what it holds.                                 *)

(* A rejected call ends the request and undoes nothing before it.          *)
Fail(r) ==
  /\ Goto(r, "over")
  /\ disturbed' = [disturbed EXCEPT ![req[r].workflow] = @ \/ Replacing(r)]
  /\ UNCHANGED <<wf, nodes, edges, runs, was>>

DbError(r) ==
  /\ req[r].pc \notin {"idle", "over"}
  /\ dbErrors < MaxDbErrors /\ dbErrors' = dbErrors + 1
  /\ Fail(r)

Afterwards(r) == IF req[r].op = "create" THEN "over" ELSE "write"

(* The transaction: an edge of another workflow may forbid the deletion.   *)
DeleteGraph(r) ==
  LET w == req[r].workflow
      kept == edges \ EdgesIn(w)
      blocked == \E e \in kept, n \in NodesIn(w) : n.id \in {e.source, e.target} IN
  /\ req[r].pc = "delete"
  /\ \/ /\ blocked
        /\ Fail(r) /\ UNCHANGED dbErrors
     \/ /\ ~blocked
        /\ edges' = kept
        /\ nodes' = nodes \ NodesIn(w)
        /\ Goto(r, "nodes")
        /\ UNCHANGED <<wf, runs, dbErrors, was, disturbed>>

(* Mutant of InsertNodes: the edges are left out.                          *)
InsertNodesOnly(r) ==
  LET new == NodeRows(req[r].workflow, req[r].definition)
      clash == \E m \in new, n \in nodes : m.id = n.id IN
  /\ req[r].pc = "nodes"
  /\ \/ clash /\ Fail(r) /\ UNCHANGED dbErrors
     \/ /\ ~clash
        /\ nodes' = nodes \cup new
        /\ Goto(r, Afterwards(r))
        /\ UNCHANGED <<wf, edges, runs, dbErrors, was, disturbed>>

(* Node ids come from the client: another row may have one of them.        *)
InsertNodes(r) ==
  LET new == NodeRows(req[r].workflow, req[r].definition)
      clash == \E m \in new, n \in nodes : m.id = n.id IN
  /\ req[r].pc = "nodes"
  /\ \/ clash /\ Fail(r) /\ UNCHANGED dbErrors
     \/ /\ ~clash
        /\ nodes' = nodes \cup new
        /\ Goto(r, IF EdgesOf[req[r].definition] = {} THEN Afterwards(r) ELSE "edges")
        /\ UNCHANGED <<wf, edges, runs, dbErrors, was, disturbed>>

InsertEdges(r) ==
  LET new == EdgeRows(req[r].workflow, req[r].definition)
      clash == \E e \in new, f \in edges : e.id = f.id
      dangling == \E e \in new : ~({e.source, e.target} \subseteq {n.id : n \in nodes}) IN
  /\ req[r].pc = "edges"
  /\ \/ (clash \/ dangling) /\ Fail(r) /\ UNCHANGED dbErrors
     \/ /\ ~clash /\ ~dangling
        /\ edges' = edges \cup new
        /\ Goto(r, Afterwards(r))
        /\ UNCHANGED <<wf, nodes, runs, dbErrors, was, disturbed>>

(* Mutant of WriteRow: the version that was read, plus one.                *)
WriteRowReadVersion(r) ==
  LET w == req[r].workflow
      row == wf[w] IN
  /\ req[r].pc = "write"
  /\ Write(w, [status |-> IF req[r].status = Nothing THEN row.status ELSE req[r].status,
               deleted |-> row.deleted \/ req[r].op = "archive",
               version |-> IF req[r].definition = Nothing THEN row.version ELSE req[r].version + 1,
               definition |-> IF req[r].definition = Nothing THEN row.definition ELSE req[r].definition])
  /\ Goto(r, "over")
  /\ UNCHANGED <<nodes, edges, runs, dbErrors, disturbed>>

(* workflow.update: only what is given is written, to the row as it is by  *)
(* now; the version is incremented by the database.                        *)
WriteRow(r) ==
  LET w == req[r].workflow
      row == wf[w] IN
  /\ req[r].pc = "write"
  /\ Write(w, [status |-> IF req[r].status = Nothing THEN row.status ELSE req[r].status,
               deleted |-> row.deleted \/ req[r].op = "archive",
               version |-> IF req[r].definition = Nothing THEN row.version ELSE row.version + 1,
               definition |-> IF req[r].definition = Nothing THEN row.definition ELSE req[r].definition])
  /\ Goto(r, "over")
  /\ UNCHANGED <<nodes, edges, runs, dbErrors, disturbed>>

InsertRun(r) ==
  /\ req[r].pc = "run"
  /\ runs' = runs \cup {[workflow |-> req[r].workflow, version |-> req[r].version,
                         snapshot |-> req[r].definition]}
  /\ Goto(r, "over")
  /\ UNCHANGED <<wf, nodes, edges, dbErrors, was, disturbed>>

Continue(r) ==
  \/ DeleteGraph(r) \/ InsertNodes(r) \/ InsertEdges(r) \/ WriteRow(r) \/ InsertRun(r) \/ DbError(r)

Next ==
  \E r \in Request :
    \/ \E w \in Workflow :
         \/ \E op \in Op, d \in Definition \cup {Nothing} : Refuse(r, op, w, d)
         \/ \E d \in Definition : create(r, w, d)
         \/ \E d \in Definition \cup {Nothing}, s \in Status \cup {Nothing} : update(r, w, d, s)
         \/ activate(r, w) \/ pause(r, w) \/ archive(r, w) \/ runWorkflow(r, w)
    \/ Continue(r)

Spec == Init /\ [][Next]_vars

-----------------------------------------------------------------------------
(* A version names one definition: no two rows a workflow has ever had     *)
(* share the version and differ in the graph, however updates overlap, so  *)
(* what a run records as workflowVersion identifies what it executed.      *)
OneGraphPerVersion ==
  \A a, b \in was :
    a.workflow = b.workflow /\ a.row.version = b.row.version => a.row.definition = b.row.definition

ReadActive(w, v, d) ==
  \E a \in was :
    /\ a.workflow = w /\ a.row.version = v /\ a.row.definition = d
    /\ a.row.status = "ACTIVE" /\ ~a.row.deleted

(* A run pairs the version and the graph of one row that was ACTIVE and    *)
(* not archived: reading them before the insert never mixes two rows.      *)
RunsWereActive == \A run \in runs : ReadActive(run.workflow, run.version, run.snapshot)

(* The runner is only ever given a graph that validateGraph accepted,      *)
(* although runWorkflow does not validate and PATCH may set ACTIVE itself. *)
RunsAreValid == \A run \in runs : run.snapshot \in Valid

(* When no request is replacing the graph of a workflow, the node and edge *)
(* tables are its definition, unless the last replacement failed halfway   *)
(* or overlapped another.                                                  *)
TablesMirror ==
  \A w \in DOMAIN wf :
    ~BeingReplaced(w) /\ ~disturbed[w] =>
      /\ NodesIn(w) = NodeRows(w, wf[w].definition)
      /\ EdgesIn(w) = EdgeRows(w, wf[w].definition)

-----------------------------------------------------------------------------
(* The inductive invariant behind the three.                               *)

HistoryInv ==
  /\ \A w \in DOMAIN wf : [workflow |-> w, row |-> wf[w]] \in was
  /\ \A a \in was : a.workflow \in DOMAIN wf /\ a.row.version <= wf[a.workflow].version
  /\ \A a \in was : a.row.definition \in Valid

HeldInv ==
  \A r \in Request :
    /\ req[r].pc \in {"delete", "nodes", "edges"} => req[r].definition \in Valid
    /\ req[r].pc = "write" => req[r].definition \in Valid \cup {Nothing}
    /\ req[r].pc = "run" => ReadActive(req[r].workflow, req[r].version, req[r].definition)

IInv == TypeOK /\ HistoryInv /\ OneGraphPerVersion /\ HeldInv /\ RunsWereActive

(* And the one behind TablesMirror: how far the request has got that       *)
(* replaces the graph of w alone.                                          *)
Replaces(r, w) == Replacing(r) /\ req[r].workflow = w

IsMirrored(w, d) == NodesIn(w) = NodeRows(w, d) /\ EdgesIn(w) = EdgeRows(w, d)

Halfway(r, w) ==
  LET d == req[r].definition IN
  /\ req[r].op = "create" => wf[w].definition = d
  /\ req[r].pc = "nodes" => NodesIn(w) = {} /\ EdgesIn(w) = {}
  /\ req[r].pc = "edges" => NodesIn(w) = NodeRows(w, d) /\ EdgesIn(w) = {}
  /\ req[r].pc = "write" => IsMirrored(w, d)

Mirror(w) ==
  ~disturbed[w] =>
    /\ \A r, q \in Request : Replaces(r, w) /\ Replaces(q, w) => r = q
    /\ \A r \in Request : Replaces(r, w) => Halfway(r, w)
    /\ ~BeingReplaced(w) => IsMirrored(w, wf[w].definition)

Replacement(q) ==
  /\ q.pc \in {"delete", "nodes", "edges"} => q.op \in {"create", "update"}
  /\ q.pc = "write" => q.op # "create" /\ (q.definition # Nothing => q.op = "update")

MirrorInv == (\A w \in DOMAIN wf : Mirror(w)) /\ (\A r \in Request : Replacement(req[r]))
=============================================================================
