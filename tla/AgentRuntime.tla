---------------------------- MODULE AgentRuntime ----------------------------
(***************************************************************************)
(* AgentRuntimeService.run with its callers: the agent loaded, the quota,  *)
(* the messages, the loop between the model and the tools, and what is     *)
(* written when it ends.  Composes Quota and ToolExecutor; prompts,        *)
(* retrieval, streaming and what a model says are left out.                *)
(***************************************************************************)
EXTENDS Quota, ToolExecutor, Sequences

CONSTANTS
  Route,          \* the routes by which each run may begin
  Response,       \* what the model of each run may answer in each iteration: calls, in
                  \* order, and the tokens it took
  MaxIterations,  \* MAX_TOOL_ITERATIONS
  MaxFaults       \* bound: calls to the database, Redis or the audit log that reject

(* The routes: ConversationsService.sendMessage, the chat of an agent, its *)
(* test (a dry run), an AGENT node of a workflow.                          *)
Via == {"conversation", "chat", "test", "workflow"}

ASSUME RuntimeAssumption ==
  /\ Caller = Run /\ MaxIterations \in Nat \ {0}
  /\ \A r \in Run : Route[r] \subseteq Via
  /\ Response \in [Run -> [0..(MaxIterations - 1) -> SUBSET [calls : Seq(Call), tokens : Nat]]]

VARIABLES
  run,       \* each run: where it is and what it holds
  messages,  \* the messages of a conversation, in the order of their rows
  faults

ownVars == <<run, messages, faults>>
vars == <<run, messages, faults, quotaVars, toolVars>>

RunLabel == {"idle", "send", "load", "quota", "user", "model", "tools", "tool", "assistant", "usage",
             "recording", "finish", "over", "refused", "rejected"}

Message == [role : {"USER", "ASSISTANT"}, by : Run]
RunState ==
  [pc : RunLabel, via : Via, iteration : 0..(MaxIterations - 1), calls : Seq(Call), tokens : Nat]

Ended(r) == run[r].pc \in {"over", "refused", "rejected"}

TypeOK ==
  /\ run \in [Run -> RunState]
  /\ messages \in Seq(Message)
  /\ faults \in Nat
  /\ QuotaTypeOK /\ ToolTypeOK

Init ==
  /\ run = [r \in Run |-> [pc |-> "idle", via |-> "chat", iteration |-> 0, calls |-> <<>>, tokens |-> 0]]
  /\ messages = <<>>
  /\ faults = 0
  /\ QuotaInit /\ ToolInit

-----------------------------------------------------------------------------

At(r, label) == run[r].pc = label
Step(r, fields) == run' = [run EXCEPT ![r] = fields]
Goto(r, label) == Step(r, [run[r] EXCEPT !.pc = label])

Alone == UNCHANGED <<faults, quotaVars, toolVars>>

Save(r, role) == messages' = Append(messages, [role |-> role, by |-> r])

begin(r, via) ==
  /\ At(r, "idle")
  /\ Step(r, [run[r] EXCEPT !.via = via, !.pc = IF via = "conversation" THEN "send" ELSE "load"])
  /\ UNCHANGED messages /\ Alone

(* sendMessage saves the message, and the runtime will save it again.      *)
Send(r) == At(r, "send") /\ Save(r, "USER") /\ Goto(r, "load") /\ Alone

(* The agent is there and active, or only there for a test.                *)
Load(r) == At(r, "load") /\ Goto(r, "quota") /\ enforce(r) /\ UNCHANGED <<messages, faults, toolVars>>
NoAgent(r) == At(r, "load") /\ Goto(r, "refused") /\ UNCHANGED messages /\ Alone

Check(r) == At(r, "quota") /\ QuotaStep(r) /\ UNCHANGED <<ownVars, toolVars>>

Enforced(r) ==
  /\ At(r, "quota")
  /\ \/ check[r].pc = "allowed" /\ Goto(r, "user")
     \/ check[r].pc = "refused" /\ Goto(r, "refused")
  /\ UNCHANGED messages /\ Alone

(* The prompt is put together, then the message saved; a workflow's        *)
(* conversation does not exist and its row is refused.                     *)
SaveUser(r) ==
  /\ At(r, "user")
  /\ \/ run[r].via = "test" /\ Goto(r, "model") /\ UNCHANGED messages
     \/ run[r].via = "workflow" /\ Goto(r, "rejected") /\ UNCHANGED messages
     \/ run[r].via \in {"conversation", "chat"} /\ Goto(r, "model") /\ Save(r, "USER")
  /\ Alone

(* One iteration of the loop begins; an error of the provider ends it.     *)
Model(r) ==
  /\ At(r, "model")
  /\ \/ Goto(r, "assistant")
     \/ \E p \in Response[r][run[r].iteration] :
          Step(r, [run[r] EXCEPT !.pc = IF p.calls = <<>> THEN "assistant" ELSE "tools",
                                 !.calls = p.calls, !.tokens = @ + p.tokens])
  /\ UNCHANGED messages /\ Alone

CallTool(r) ==
  /\ At(r, "tools")
  /\ execute(r, Head(run[r].calls))
  /\ Step(r, [run[r] EXCEPT !.pc = "tool", !.calls = Tail(@)])
  /\ UNCHANGED <<messages, faults, quotaVars>>

Execute(r) == At(r, "tool") /\ ExecStep(r) /\ UNCHANGED <<ownVars, quotaVars>>

(* The result is given to the model in the next iteration, if there is one.*)
ToolAnswered(r) ==
  /\ At(r, "tool") /\ ExecAt(r, "answered")
  /\ \/ run[r].calls # <<>> /\ Goto(r, "tools")
     \/ /\ run[r].calls = <<>> /\ run[r].iteration + 1 < MaxIterations
        /\ Step(r, [run[r] EXCEPT !.pc = "model", !.iteration = @ + 1])
     \/ run[r].calls = <<>> /\ run[r].iteration + 1 = MaxIterations /\ Goto(r, "assistant")
  /\ UNCHANGED messages /\ Alone

(* Nothing catches what execute throws.                                    *)
ToolThrew(r) == At(r, "tool") /\ ExecAt(r, "threw") /\ Goto(r, "rejected") /\ UNCHANGED messages /\ Alone

SaveAssistant(r) ==
  /\ At(r, "assistant")
  /\ \/ run[r].via = "test" /\ Goto(r, "finish") /\ UNCHANGED messages
     \/ run[r].via # "test" /\ Goto(r, "usage") /\ Save(r, "ASSISTANT")
  /\ Alone

(* Mutant of RecordUsage: only the tokens of a run that called no tool.    *)
RecordFirst(r) ==
  /\ At(r, "usage")
  /\ \/ run[r].iteration > 0 /\ Goto(r, "finish") /\ UNCHANGED quotaVars
     \/ run[r].iteration = 0 /\ run[r].tokens = 0 /\ Goto(r, "finish") /\ UNCHANGED quotaVars
     \/ run[r].iteration = 0 /\ run[r].tokens > 0 /\ Goto(r, "recording") /\ record(r)
  /\ UNCHANGED <<messages, faults, toolVars>>

RecordUsage(r) ==
  /\ At(r, "usage")
  /\ \/ run[r].tokens = 0 /\ Goto(r, "finish") /\ UNCHANGED quotaVars
     \/ run[r].tokens > 0 /\ Goto(r, "recording") /\ record(r)
  /\ UNCHANGED <<messages, faults, toolVars>>

WriteUsage(r) ==
  /\ At(r, "recording")
  /\ InsertUsage(r, run[r].tokens) \/ QuotaStep(r)
  /\ UNCHANGED <<ownVars, toolVars>>

Recorded(r) ==
  /\ At(r, "recording") /\ check[r].pc \in {"done", "notRecorded", "notInvalidated"}
  /\ Goto(r, "finish")
  /\ UNCHANGED messages /\ Alone

(* Short-term memory and the audit row.                                    *)
Finish(r) == At(r, "finish") /\ Goto(r, "over") /\ UNCHANGED messages /\ Alone

(* A call rejects: the run's own, one of enforce, of record, of execute.   *)
Fault(r) ==
  /\ faults < MaxFaults /\ faults' = faults + 1
  /\ UNCHANGED messages
  /\ \/ /\ \/ run[r].pc \in {"send", "load", "user", "finish"}
           \/ At(r, "assistant") /\ run[r].via # "test"
           \/ At(r, "quota") /\ Checking(r)
        /\ Goto(r, "rejected") /\ UNCHANGED <<quotaVars, toolVars>>
     \/ At(r, "recording") /\ Recording(r) /\ RecordFails(r) /\ UNCHANGED <<run, toolVars>>
     \/ At(r, "tool") /\ ExecRejects(r) /\ UNCHANGED <<run, quotaVars>>

RunStep(r) ==
  \/ Send(r) \/ Load(r) \/ NoAgent(r) \/ Check(r) \/ Enforced(r) \/ SaveUser(r) \/ Model(r)
  \/ CallTool(r) \/ Execute(r) \/ ToolAnswered(r) \/ ToolThrew(r) \/ SaveAssistant(r) \/ RecordUsage(r)
  \/ WriteUsage(r) \/ Recorded(r) \/ Finish(r)

Next ==
  \/ \E r \in Run : (\E via \in Route[r] : begin(r, via)) \/ RunStep(r) \/ Fault(r)
  \/ HandlerStep /\ UNCHANGED <<ownVars, quotaVars>>
  \/ Expire /\ UNCHANGED <<ownVars, toolVars>>

Spec == Init /\ [][Next]_vars

-----------------------------------------------------------------------------

RowsOf(r, role) == {i \in DOMAIN messages : messages[i] = [role |-> role, by |-> r]}

(* However runs of a conversation interleave, one that is answered, and is *)
(* not a test, has one ASSISTANT message, after its USER messages, and,    *)
(* unless a call rejected, one usage row with the tokens of all iterations *)
(* of its loop; a run that is not answered or failing has none.            *)
AnsweredIsWhole ==
  \A r \in Run :
    /\ run[r].pc = "over" /\ run[r].via # "test" =>
         /\ RowsOf(r, "USER") # {} /\ Cardinality(RowsOf(r, "ASSISTANT")) = 1
         /\ \A i \in RowsOf(r, "USER"), j \in RowsOf(r, "ASSISTANT") : i < j
         /\ faults = 0 /\ run[r].tokens > 0 => [by |-> r, tokens |-> run[r].tokens] \in usage
    /\ run[r].via = "test" \/ (faults = 0 /\ run[r].pc \in {"refused", "rejected"}) =>
         RowsOf(r, "ASSISTANT") = {} /\ ~\E u \in usage : u.by = r

(* The type invariant, and AnsweredIsWhole of AgentRuntimeService.run: what*)
(* an answered run leaves in messages and usage_records.                   *)
RuntimeInv == TypeOK /\ AnsweredIsWhole

(* Rows of tool_executions are truthful (see ToolExecutor).                *)
ToolRowsAreTruthful == RowsAreTruthful(faults = 0)

(* A run that has begun and not ended can go on by itself, also when a     *)
(* handler never answers: none waits for another run or for ever.          *)
NoRunWaits == \A r \in Run : At(r, "idle") \/ Ended(r) \/ ENABLED RunStep(r)

-----------------------------------------------------------------------------
(* The inductive invariant behind AnsweredIsWhole: where enforce and       *)
(* record are while the run is somewhere, what of its rows is there, and   *)
(* in which order.                                                         *)

(* Where the quota is while the run is at a label.                         *)
QuotaKeepsPace(r) ==
  /\ run[r].pc \in {"idle", "send", "load"} => check[r].pc = "none"
  /\ run[r].pc = "quota" => check[r].pc \in {"look", "sum", "fill", "allowed", "refused"}
  /\ run[r].pc \in {"user", "model", "tools", "tool", "assistant", "usage"} => check[r].pc = "allowed"
  /\ run[r].pc = "recording" =>
       check[r].pc \in {"insert", "invalidate", "done", "notRecorded", "notInvalidated"}
  /\ run[r].pc = "refused" => check[r].pc \in {"none", "refused"}
  /\ run[r].pc = "rejected" /\ faults = 0 => check[r].pc = "allowed"
  /\ check[r].pc \in {"notRecorded", "notInvalidated"} => faults > 0

Answered(r) == run[r].pc \in {"usage", "recording", "finish", "over"}

(* Nobody has an answer or a usage row too early, and tests have none.     *)
NothingEarly(r) ==
  /\ run[r].via = "test" => ~(run[r].pc \in {"usage", "recording"})
  /\ run[r].via = "test" \/ ~(Answered(r) \/ (At(r, "rejected") /\ faults > 0)) => RowsOf(r, "ASSISTANT") = {}
  /\ run[r].via = "test" => check[r].pc \notin {"insert", "invalidate", "done", "notRecorded", "notInvalidated"}
  /\ (\E u \in usage : u.by = r) => check[r].pc \in {"invalidate", "done", "notInvalidated"}

(* From the first answer of the model on the message of the user is there; *)
(* the answer comes after it.                                              *)
MessagesInOrder(r) ==
  /\ run[r].via # "test" /\ (Answered(r) \/ run[r].pc \in {"model", "tools", "tool", "assistant"}) =>
       RowsOf(r, "USER") # {}
  /\ run[r].via # "test" /\ Answered(r) =>
       \E j \in DOMAIN messages : RowsOf(r, "ASSISTANT") = {j} /\ \A i \in RowsOf(r, "USER") : i < j

(* An answer's tokens are recorded once and whole.                         *)
UsageIsWhole(r) ==
  /\ run[r].pc = "tools" => run[r].calls # <<>>
  /\ run[r].pc = "recording" => run[r].tokens > 0
  /\ check[r].pc \in {"invalidate", "done"} => [by |-> r, tokens |-> run[r].tokens] \in usage
  /\ run[r].pc \in {"finish", "over"} /\ run[r].via # "test" /\ run[r].tokens > 0 /\ faults = 0 =>
       check[r].pc = "done"

Progress(r) == QuotaKeepsPace(r) /\ NothingEarly(r) /\ MessagesInOrder(r) /\ UsageIsWhole(r)
ProgressInv == \A r \in Run : Progress(r)

IInv == TypeOK /\ QuotaInv /\ ToolInv /\ (faults = 0 => RowsAreSingle) /\ ProgressInv
=============================================================================
