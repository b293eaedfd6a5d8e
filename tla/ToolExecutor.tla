---------------------------- MODULE ToolExecutor ----------------------------
(***************************************************************************)
(* ToolExecutor.execute: one call of the model at a time for each run,     *)
(* with the approval task of a HIGH risk tool, the handler raced against   *)
(* the timeout, and the rows of tool_executions.                           *)
(***************************************************************************)
EXTENDS Naturals

CONSTANTS
  Caller,    \* the runs that call tools
  Call,      \* what a model may call: a name and arguments
  Slug,      \* the risk of the ACTIVE row whose slug is the name, or "none"
  Registry,  \* the risk of the tool registered under the name, or "none"
  Named,     \* the risk of a row of that name, ACTIVE or not, or "none"
  Args       \* the arguments: "valid", "invalid" by the schema, or "malformed" JSON

Found == {"none", "LOW", "MEDIUM", "HIGH"}

ASSUME CallAssumption ==
  /\ Call # {}
  /\ Slug \in [Call -> Found] /\ Registry \in [Call -> Found] /\ Named \in [Call -> Found]
  /\ Args \in [Call -> {"valid", "invalid", "malformed"}]

VARIABLES
  exec,        \* the execution of each run that calls
  tasks,       \* tasks that await approval, by the execution they are for
  executions,  \* the rows of tool_executions
  handlers,    \* the executions whose handler is running
  effects      \* the executions whose handler has done its work

toolVars == <<exec, tasks, executions, handlers, effects>>

ExecLabel == {"idle", "resolve", "fail", "task", "pendingRow", "pendingAudit", "handle", "row", "audit",
              "failRow", "failAudit", "answered", "threw"}

Execution == [by : Caller, n : Nat, call : Call]

ToolTypeOK ==
  /\ exec \in [Caller -> [pc : ExecLabel, id : Execution, requiresApproval : BOOLEAN]]
  /\ tasks \subseteq Execution /\ handlers \subseteq Execution /\ effects \subseteq Execution
  /\ executions \subseteq [id : Execution, status : {"PENDING", "COMPLETED", "FAILED"}]

ToolInit ==
  /\ exec = [r \in Caller |-> [pc |-> "idle", id |-> [by |-> r, n |-> 0, call |-> CHOOSE c \in Call : TRUE],
                              requiresApproval |-> FALSE]]
  /\ tasks = {} /\ executions = {} /\ handlers = {} /\ effects = {}

ExecAt(r, label) == exec[r].pc = label
ExecGoto(r, label) == exec' = [exec EXCEPT ![r].pc = label]

(* A tool is looked up twice.  What decides is the row with that slug, or  *)
(* the registered tool: the risk, the schema, what is recorded.            *)
Judged(c) == IF Slug[c] # "none" THEN Slug[c] ELSE Registry[c]
InDb(r) == Slug[exec[r].id.call] # "none"

(* What runs is the registered tool, or a row with that name.              *)
Runs(c) == IF Registry[c] # "none" THEN Registry[c] ELSE Named[c]

-----------------------------------------------------------------------------

execute(r, c) ==
  /\ exec' = [exec EXCEPT ![r] = [pc |-> "resolve", id |-> [by |-> r, n |-> @.id.n + 1, call |-> c],
                                  requiresApproval |-> FALSE]]
  /\ UNCHANGED <<tasks, executions, handlers, effects>>

Refusal(c) ==
  \/ Judged(c) = "none"
  \/ Args[c] = "invalid"
  \/ Judged(c) = "HIGH" /\ Slug[c] = "none"

Malformed(c) == Judged(c) # "none" /\ Args[c] = "malformed"

(* Mutant of NeedsApproval: the risk is not looked at.                     *)
NeverAsks(c) == FALSE

NeedsApproval(c) == Slug[c] = "HIGH"

(* The tool is looked up, the arguments parsed, outside any try, and       *)
(* validated, and the risk decides; executeTool is started at once.        *)
Resolve(r) ==
  LET c == exec[r].id.call IN
  /\ ExecAt(r, "resolve")
  /\ \/ Malformed(c) /\ ExecGoto(r, "threw") /\ UNCHANGED handlers
     \/ ~Malformed(c) /\ Refusal(c) /\ ExecGoto(r, "fail") /\ UNCHANGED handlers
     \/ ~Malformed(c) /\ ~Refusal(c) /\ NeedsApproval(c) /\ ExecGoto(r, "task") /\ UNCHANGED handlers
     \/ /\ ~Malformed(c) /\ ~Refusal(c) /\ ~NeedsApproval(c)
        /\ ExecGoto(r, "handle")
        /\ handlers' = handlers \cup {exec[r].id}
  /\ UNCHANGED <<tasks, executions, effects>>

recordFailure(r) == ExecAt(r, "fail") /\ ExecGoto(r, "answered") /\ UNCHANGED <<tasks, executions, handlers, effects>>

createApprovalTask(r) ==
  /\ ExecAt(r, "task")
  /\ tasks' = tasks \cup {exec[r].id}
  /\ ExecGoto(r, "pendingRow")
  /\ UNCHANGED <<executions, handlers, effects>>

recordExecutionRow(r, status) == executions' = executions \cup {[id |-> exec[r].id, status |-> status]}

PendingRow(r) ==
  /\ ExecAt(r, "pendingRow")
  /\ recordExecutionRow(r, "PENDING")
  /\ ExecGoto(r, "pendingAudit")
  /\ UNCHANGED <<tasks, handlers, effects>>

PendingAudit(r) ==
  /\ ExecAt(r, "pendingAudit")
  /\ exec' = [exec EXCEPT ![r].pc = "answered", ![r].requiresApproval = TRUE]
  /\ UNCHANGED <<tasks, executions, handlers, effects>>

(* Mutant of Awaited: the answer of a handler is taken after the timeout.  *)
TakenLate(i) == exec[i.by].id = i

Awaited(i) == ExecAt(i.by, "handle") /\ exec[i.by].id = i

(* What executeTool finds does its work and answers, which nobody hears    *)
(* after the timeout.                                                      *)
HandlerAnswers(i) ==
  /\ Runs(i.call) # "none"
  /\ handlers' = handlers \ {i}
  /\ effects' = effects \cup {i}
  /\ IF Awaited(i) THEN ExecGoto(i.by, IF InDb(i.by) THEN "row" ELSE "audit") ELSE UNCHANGED exec
  /\ UNCHANGED <<tasks, executions>>

(* One that throws may have done its work, unless nothing was found.       *)
HandlerThrows(i) ==
  /\ handlers' = handlers \ {i}
  /\ \E acted \in BOOLEAN : effects' = IF acted /\ Runs(i.call) # "none" THEN effects \cup {i} ELSE effects
  /\ IF Awaited(i) THEN ExecGoto(i.by, IF InDb(i.by) THEN "failRow" ELSE "failAudit") ELSE UNCHANGED exec
  /\ UNCHANGED <<tasks, executions>>

(* Mutant of Timeout: a handler is waited for as long as it takes.         *)
NoTimeout(r) == FALSE /\ UNCHANGED toolVars

(* runWithTimeout: the handler is not stopped.                             *)
Timeout(r) ==
  /\ ExecAt(r, "handle")
  /\ ExecGoto(r, IF InDb(r) THEN "failRow" ELSE "failAudit")
  /\ UNCHANGED <<tasks, executions, handlers, effects>>

CompletedRow(r) ==
  /\ ExecAt(r, "row")
  /\ recordExecutionRow(r, "COMPLETED")
  /\ ExecGoto(r, "audit")
  /\ UNCHANGED <<tasks, handlers, effects>>

FailedRow(r) ==
  /\ ExecAt(r, "failRow")
  /\ recordExecutionRow(r, "FAILED")
  /\ ExecGoto(r, "failAudit")
  /\ UNCHANGED <<tasks, handlers, effects>>

Audit(r) ==
  /\ ExecAt(r, "audit") \/ ExecAt(r, "failAudit")
  /\ ExecGoto(r, "answered")
  /\ UNCHANGED <<tasks, executions, handlers, effects>>

(* A call that rejects: those inside the try lead to the catch, which      *)
(* records a failure of a handler that has answered; the others throw.     *)
ExecRejects(r) ==
  /\ \/ ExecAt(r, "row") /\ ExecGoto(r, "failRow")
     \/ ExecAt(r, "audit") /\ ExecGoto(r, IF InDb(r) THEN "failRow" ELSE "failAudit")
     \/ /\ exec[r].pc \in {"resolve", "fail", "task", "pendingRow", "pendingAudit", "failRow", "failAudit"}
        /\ ExecGoto(r, "threw")
  /\ UNCHANGED <<tasks, executions, handlers, effects>>

ExecStep(r) ==
  \/ Resolve(r) \/ recordFailure(r) \/ createApprovalTask(r) \/ PendingRow(r) \/ PendingAudit(r)
  \/ Timeout(r) \/ CompletedRow(r) \/ FailedRow(r) \/ Audit(r)

HandlerStep == \E i \in handlers : HandlerAnswers(i) \/ HandlerThrows(i)

-----------------------------------------------------------------------------

(* docs/tools.md:92, a HIGH risk tool is blocked, whichever look-up finds  *)
(* it.                                                                     *)
HighNeverRuns == \A i \in handlers \cup effects : Runs(i.call) # "HIGH"

(* What holds of it: no call whose slug is of a HIGH row is started, and a *)
(* HIGH tool runs only under the slug of another row, of lower risk.       *)
MayStart(c) == Slug[c] # "HIGH" /\ (Runs(c) = "HIGH" => Slug[c] # "none")

(* The model is told a call waits only if its task and its PENDING row are *)
(* there, a PENDING row never lacks its task, and nothing is started but   *)
(* what MayStart: execute judges what resolveTool finds, and executeTool   *)
(* finds again by another key.                                             *)
HighRiskIsHeld ==
  /\ \A i \in handlers \cup effects : MayStart(i.call)
  /\ \A r \in Caller : exec[r].requiresApproval =>
       exec[r].id \in tasks /\ [id |-> exec[r].id, status |-> "PENDING"] \in executions
  /\ \A e \in executions : e.status = "PENDING" => e.id \in tasks

CompletedIsDone == \A e \in executions : e.status = "COMPLETED" => e.id \in effects
OneRowPerCall == \A e, f \in executions : e.id = f.id => e = f

(* A COMPLETED row means the handler did its work, and a call has one row, *)
(* also when the handler answers after its timeout; a rejected call of the *)
(* audit log may make it two.                                              *)
RowsAreTruthful(noRejection) == CompletedIsDone /\ (noRejection => OneRowPerCall)

-----------------------------------------------------------------------------
(* The inductive invariant behind the two.                                 *)

(* Rows are of this call or of an earlier one of the same run.             *)
RowsAreOfCalls ==
  /\ \A r \in Caller : exec[r].id.by = r
  /\ \A e \in executions : e.id.n <= exec[e.id.by].id.n

(* Who is about to write that a call waits has written what goes before,   *)
(* and who is about to write COMPLETED has had an answer.                  *)
WritesAreDue ==
  \A r \in Caller :
    /\ exec[r].pc \in {"pendingRow", "pendingAudit"} => exec[r].id \in tasks
    /\ ExecAt(r, "pendingAudit") => [id |-> exec[r].id, status |-> "PENDING"] \in executions
    /\ ExecAt(r, "row") => exec[r].id \in effects

(* Without a rejection the row of a call is not there before it is due.    *)
NotYetARow(r) == \A e \in executions : e.id # exec[r].id
RowsAreNew ==
  \A r \in Caller :
    exec[r].pc \in {"resolve", "fail", "task", "pendingRow", "handle", "row", "failRow"} => NotYetARow(r)

ToolInv == HighRiskIsHeld /\ CompletedIsDone /\ RowsAreOfCalls /\ WritesAreDue

RowsAreSingle == OneRowPerCall /\ RowsAreNew
=============================================================================
