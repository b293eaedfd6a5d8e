-------------------------- MODULE AgentLifecycle --------------------------
(***************************************************************************)
(* AgentsService: the life of one agent row and its agent_versions, from   *)
(* create to hardDelete, with the tools and knowledge bases attached to it,*)
(* and the copies duplicate makes of it.  Every database call is a step.   *)
(* Slugs are left out.                                                     *)
(***************************************************************************)
EXTENDS Integers, FiniteSets

CONSTANTS
  Request,             \* HTTP requests
  Config,              \* what a request may give of a configuration
  Template,            \* the configurations of the templates
  Missing,             \* the value of a field that is not given, or null
  DefaultInstructions, \* the instructions of an agent created without
  Tool, KnowledgeBase, \* what may be attached to an agent
  MaxDbErrors          \* bound: database calls that are rejected

(* What the code tells apart of a configuration: systemInstructions, which *)
(* may be empty, and a field that may stay null.                           *)
ASSUME ConfigAssumption ==
  /\ \A c \in Config :
       c = [systemInstructions |-> c.systemInstructions, guardrails |-> c.guardrails]
  /\ Template \subseteq Config /\ Config # {}
  /\ DefaultInstructions \notin {"", Missing}

Instructions == {c.systemInstructions : c \in Config} \cup {DefaultInstructions}
Configuration == [systemInstructions : Instructions, guardrails : {c.guardrails : c \in Config}]
Stored == {c \in Configuration : c.systemInstructions # Missing}
Attachment == Tool \cup KnowledgeBase

Status == {"DRAFT", "ACTIVE", "PAUSED", "ARCHIVED"}
NoVersion == 0

VARIABLES
  agent,     \* the row of agents
  versions,  \* agent_versions: the configuration of each version number
  attached,  \* agent_tools and agent_knowledge
  copies,    \* what each request that duplicates the agent has made
  req,       \* where each request is, and what it holds
  dbErrors,
  overlapped \* history: two requests have been in progress at once

tables == <<agent, versions, attached, copies>>
vars == <<tables, req, dbErrors, overlapped>>

Op == {"none", "create", "update", "createVersion", "deploy", "undeploy", "rollback", "pause", "resume",
       "archive", "restore", "hardDelete", "duplicate", "attach", "detach"}

Label == {"idle", "first", "write", "last", "snapshot", "insert", "override", "target", "refind",
          "version", "deploy", "delete", "copy", "copyTools", "copyKnowledge", "copyVersion",
          "lookUp", "attach", "detach", "over", "failed"}

AgentRow ==
  [row : {"none", "present", "gone"}, deleted : BOOLEAN, status : Status, deployed : Nat,
   config : Stored]

(* version is the version a request works on, target the one a rollback    *)
(* goes back to, last the number it read, config the configuration it      *)
(* holds, kept the agent it read, status what it writes, commit whether a  *)
(* snapshot follows the update, things what it attaches or copies.         *)
RequestState ==
  [pc : Label, op : Op, version : Nat, target : Nat, last : Nat, config : Configuration,
   kept : Stored, status : Status, commit : BOOLEAN, things : SUBSET Attachment]

Copy == [row : BOOLEAN, config : Configuration, attached : SUBSET Attachment, version : BOOLEAN]

TypeOK ==
  /\ agent \in AgentRow /\ agent.deployed \in DOMAIN versions \cup {NoVersion}
  /\ versions \in [DOMAIN versions -> Stored] /\ IsFiniteSet(DOMAIN versions)
  /\ attached \subseteq Attachment
  /\ copies \in [Request -> Copy]
  /\ req \in [Request -> RequestState]
  /\ dbErrors \in Nat /\ overlapped \in BOOLEAN

-----------------------------------------------------------------------------

Nobody(c) == [row |-> "none", deleted |-> FALSE, status |-> "DRAFT", deployed |-> NoVersion, config |-> c]
NoCopy(c) == [row |-> FALSE, config |-> c, attached |-> {}, version |-> FALSE]

Idle(c) ==
  [pc |-> "idle", op |-> "none", version |-> NoVersion, target |-> NoVersion, last |-> 0, config |-> c, kept |-> c,
   status |-> "DRAFT", commit |-> FALSE, things |-> {}]

(* dto.systemInstructions || 'You are a helpful AI assistant.'             *)
Defaulted(c) ==
  [c EXCEPT !.systemInstructions = IF @ \in {"", Missing} THEN DefaultInstructions ELSE @]

(* What is not given, or null in a version, leaves what there was.         *)
Merged(c, old) ==
  [systemInstructions |-> IF c.systemInstructions = Missing THEN old.systemInstructions ELSE c.systemInstructions,
   guardrails |-> IF c.guardrails = Missing THEN old.guardrails ELSE c.guardrails]

Init ==
  /\ \E dto \in Config, created \in BOOLEAN : LET c == Defaulted(dto) IN
       /\ agent = [Nobody(c) EXCEPT !.row = IF created THEN "present" ELSE "none"]
       /\ versions = [v \in IF created THEN {1} ELSE {} |-> c]
       /\ req = [r \in Request |-> Idle(c)]
       /\ copies = [r \in Request |-> NoCopy(c)]
  /\ attached = {}
  /\ dbErrors = 0
  /\ overlapped = FALSE

InProgress(r) == req[r].pc \notin {"idle", "over", "failed"}

Step(r, fields) == req' = [req EXCEPT ![r] = fields]
Goto(r, label) == Step(r, [req[r] EXCEPT !.pc = label])

(* A request begins, with op and what else it was given.                   *)
Begin(r, fields) ==
  /\ req[r].pc = "idle"
  /\ Step(r, fields)
  /\ overlapped' = (overlapped \/ \E q \in Request : InProgress(q))
  /\ UNCHANGED dbErrors

Exists == agent.row = "present"
Found == Exists /\ ~agent.deleted

create(r, dto) ==
  LET c == Defaulted(dto) IN
  /\ agent.row = "none"
  /\ Begin(r, [Idle(c) EXCEPT !.pc = "first", !.op = "create"])
  /\ agent' = [Nobody(c) EXCEPT !.row = "present"]
  /\ UNCHANGED <<versions, attached, copies>>

(* What the template holds is given to create; templates do not change.    *)
cloneFromTemplate(r) == \E template \in Template : create(r, template)

update(r, dto, commit) ==
  /\ Found
  /\ Begin(r, [Idle(agent.config) EXCEPT !.pc = "write", !.op = "update", !.config = dto, !.commit = commit])
  /\ UNCHANGED tables

createVersion(r) ==
  /\ Found
  /\ Begin(r, [req[r] EXCEPT !.pc = "last", !.op = "createVersion"])
  /\ UNCHANGED tables

deployVersion(r, v) ==
  /\ Found
  /\ Begin(r, [req[r] EXCEPT !.pc = "version", !.op = "deploy", !.version = v, !.kept = agent.config])
  /\ UNCHANGED tables

rollback(r, v) ==
  /\ Found
  /\ Begin(r, [req[r] EXCEPT !.pc = "target", !.op = "rollback", !.target = v])
  /\ UNCHANGED tables

Transition(r, op, s) ==
  /\ Begin(r, [req[r] EXCEPT !.pc = "write", !.op = op, !.status = s])
  /\ UNCHANGED tables

undeploy(r) == Found /\ Transition(r, "undeploy", "DRAFT")
pause(r) == Found /\ Transition(r, "pause", "PAUSED")

(* Mutant of resume: what is pinned is not looked at.                      *)
resumeAny(r) == Found /\ Transition(r, "resume", "ACTIVE")

resume(r) == Found /\ agent.deployed # NoVersion /\ Transition(r, "resume", "ACTIVE")

archive(r) == Found /\ agent.status # "ARCHIVED" /\ Transition(r, "archive", "ARCHIVED")
restore(r) == Exists /\ Transition(r, "restore", "DRAFT")

hardDelete(r) ==
  /\ Exists
  /\ Begin(r, [req[r] EXCEPT !.pc = "delete", !.op = "hardDelete"])
  /\ UNCHANGED tables

(* The agent and what is attached to it are read together.                 *)
duplicate(r) ==
  /\ Found
  /\ Begin(r, [req[r] EXCEPT !.pc = "copy", !.op = "duplicate", !.config = agent.config, !.things = attached])
  /\ UNCHANGED tables

Attaches(r, x, label, op) ==
  /\ Found
  /\ Begin(r, [req[r] EXCEPT !.pc = label, !.op = op, !.things = {x}])
  /\ UNCHANGED tables

attachTool(r) == \E t \in Tool : Attaches(r, t, "lookUp", "attach")
attachKnowledge(r) == \E k \in KnowledgeBase : Attaches(r, k, "lookUp", "attach")
detachTool(r) == \E t \in Tool : Attaches(r, t, "detach", "detach")
detachKnowledge(r) == \E k \in KnowledgeBase : Attaches(r, k, "detach", "detach")

-----------------------------------------------------------------------------
(* A call that only reads, or fails.                                       *)
Quiet == UNCHANGED <<tables, dbErrors, overlapped>>

(* agent.update, by what each operation gives it; a row that is gone       *)
(* rejects the call.                                                       *)
Written(q) ==
  [agent EXCEPT
     !.config = IF q.op = "update" THEN Merged(q.config, @) ELSE @,
     !.status = IF q.op = "update" THEN @ ELSE q.status,
     !.deleted = IF q.op = "archive" THEN TRUE ELSE IF q.op = "restore" THEN FALSE ELSE @,
     !.deployed = IF q.op \in {"undeploy", "archive"} THEN NoVersion ELSE @]

WriteAgent(r) ==
  /\ req[r].pc = "write" /\ Exists
  /\ agent' = Written(req[r])
  /\ Goto(r, IF req[r].commit THEN "last" ELSE "over")
  /\ UNCHANGED <<versions, attached, copies, dbErrors, overlapped>>

(* The unique index on (agentId, version) and the foreign key.             *)
MayInsert(v) == Exists /\ v \notin DOMAIN versions

Insert(v, c) == versions' = [w \in DOMAIN versions \cup {v} |-> IF w = v THEN c ELSE versions[w]]

(* The second call of create.                                              *)
InsertFirst(r) ==
  /\ req[r].pc = "first" /\ MayInsert(1)
  /\ Insert(1, req[r].config)
  /\ Step(r, [req[r] EXCEPT !.pc = "over", !.version = 1])
  /\ UNCHANGED <<agent, attached, copies, dbErrors, overlapped>>

LastVersion ==
  IF DOMAIN versions = {} THEN 0 ELSE CHOOSE v \in DOMAIN versions : \A w \in DOMAIN versions : w <= v

(* createVersionInternal: the last number, the agent, the insert.          *)
ReadLast(r) ==
  /\ req[r].pc = "last"
  /\ Step(r, [req[r] EXCEPT !.pc = "snapshot", !.last = LastVersion])
  /\ Quiet

(* kept is the configuration the new version gets; a rollback goes on      *)
(* holding the one of its target.                                          *)
ReadAgent(r) ==
  /\ req[r].pc = "snapshot" /\ Exists
  /\ Step(r, [req[r] EXCEPT !.pc = "insert", !.kept = agent.config])
  /\ Quiet

Inserted(q) ==
  IF q.op = "rollback"
  THEN [q EXCEPT !.pc = "override", !.version = q.last + 1]
  ELSE [q EXCEPT !.pc = "over", !.version = q.last + 1, !.config = q.kept]

(* Mutant of InsertVersion: an upsert, without the unique index.           *)
UpsertVersion(r) ==
  /\ req[r].pc = "insert" /\ Exists
  /\ Insert(req[r].last + 1, req[r].kept)
  /\ Step(r, Inserted(req[r]))
  /\ UNCHANGED <<agent, attached, copies, dbErrors, overlapped>>

InsertVersion(r) ==
  /\ req[r].pc = "insert" /\ MayInsert(req[r].last + 1)
  /\ Insert(req[r].last + 1, req[r].kept)
  /\ Step(r, Inserted(req[r]))
  /\ UNCHANGED <<agent, attached, copies, dbErrors, overlapped>>

ReadTarget(r) ==
  /\ req[r].pc = "target" /\ req[r].target \in DOMAIN versions
  /\ Step(r, [req[r] EXCEPT !.pc = "last", !.config = versions[req[r].target]])
  /\ Quiet

(* Mutant of Override: the new version keeps the present configuration.    *)
NoOverride(r) ==
  /\ req[r].pc = "override" /\ req[r].version \in DOMAIN versions
  /\ Goto(r, "refind")
  /\ Quiet

Override(r) ==
  /\ req[r].pc = "override" /\ req[r].version \in DOMAIN versions
  /\ versions' = [versions EXCEPT ![req[r].version] = req[r].config]
  /\ Goto(r, "refind")
  /\ UNCHANGED <<agent, attached, copies, dbErrors, overlapped>>

(* rollback calls deployVersion, which looks for the agent again.          *)
FindAgain(r) ==
  /\ req[r].pc = "refind" /\ Found
  /\ Step(r, [req[r] EXCEPT !.pc = "version", !.kept = agent.config])
  /\ Quiet

Deployable(v) == v \in DOMAIN versions /\ versions[v].systemInstructions # ""

ReadVersion(r) ==
  /\ req[r].pc = "version" /\ Deployable(req[r].version)
  /\ Step(r, [req[r] EXCEPT !.pc = "deploy", !.config = versions[req[r].version]])
  /\ Quiet

Deploy(r) ==
  /\ req[r].pc = "deploy" /\ Exists
  /\ agent' = [agent EXCEPT !.status = "ACTIVE", !.deployed = req[r].version,
                            !.config = Merged(req[r].config, req[r].kept)]
  /\ Goto(r, "over")
  /\ UNCHANGED <<versions, attached, copies, dbErrors, overlapped>>

(* One transaction; a deleted row rejects it.                              *)
Delete(r) ==
  /\ req[r].pc = "delete" /\ Exists
  /\ agent' = [agent EXCEPT !.row = "gone", !.deployed = NoVersion]
  /\ versions' = [v \in {} |-> agent.config]
  /\ attached' = {}
  /\ Goto(r, "over")
  /\ UNCHANGED <<copies, dbErrors, overlapped>>

(* The tool is active, or the knowledge base not deleted; or it is not.    *)
LookUp(r) ==
  /\ req[r].pc = "lookUp"
  /\ \E label \in {"attach", "failed"} : Goto(r, label)
  /\ Quiet

(* An upsert, which the foreign key rejects without the agent.             *)
Attach(r) ==
  /\ req[r].pc = "attach" /\ Exists
  /\ attached' = attached \cup req[r].things
  /\ Goto(r, "over")
  /\ UNCHANGED <<agent, versions, copies, dbErrors, overlapped>>

Detach(r) ==
  /\ req[r].pc = "detach" /\ req[r].things \subseteq attached
  /\ attached' = attached \ req[r].things
  /\ Goto(r, "over")
  /\ UNCHANGED <<agent, versions, copies, dbErrors, overlapped>>

(* The calls of duplicate.  The copy is a row of its own: what becomes of  *)
(* it later is the life of another agent.                                  *)
Copies(r, label, copy, next) ==
  /\ req[r].pc = label
  /\ copies' = [copies EXCEPT ![r] = copy]
  /\ Goto(r, next)
  /\ UNCHANGED <<agent, versions, attached, dbErrors, overlapped>>

CopyAgent(r) == Copies(r, "copy", [NoCopy(req[r].config) EXCEPT !.row = TRUE], "copyTools")

(* No call is made for a kind the agent has none of.                       *)
CopyTools(r) ==
  Copies(r, "copyTools", [copies[r] EXCEPT !.attached = @ \cup (req[r].things \cap Tool)], "copyKnowledge")

CopyKnowledge(r) ==
  Copies(r, "copyKnowledge", [copies[r] EXCEPT !.attached = @ \cup (req[r].things \cap KnowledgeBase)],
         "copyVersion")

CopyVersion(r) == Copies(r, "copyVersion", [copies[r] EXCEPT !.version = TRUE], "over")

(* What ends a request before its last call: not found, the unique index,  *)
(* a version that cannot be deployed.                                      *)
Refused(r) ==
  \/ req[r].pc \in {"write", "snapshot", "deploy", "delete", "attach"} /\ ~Exists
  \/ req[r].pc = "first" /\ ~MayInsert(1)
  \/ req[r].pc = "insert" /\ ~MayInsert(req[r].last + 1)
  \/ req[r].pc = "target" /\ req[r].target \notin DOMAIN versions
  \/ req[r].pc = "override" /\ req[r].version \notin DOMAIN versions
  \/ req[r].pc = "refind" /\ ~Found
  \/ req[r].pc = "version" /\ ~Deployable(req[r].version)
  \/ req[r].pc = "detach" /\ ~(req[r].things \subseteq attached)

Refuse(r) == Refused(r) /\ Goto(r, "failed") /\ Quiet

DbError(r) ==
  /\ InProgress(r)
  /\ dbErrors < MaxDbErrors /\ dbErrors' = dbErrors + 1
  /\ Goto(r, "failed")
  /\ UNCHANGED <<tables, overlapped>>

Begins(r) ==
  \/ \E dto \in Config : create(r, dto) \/ \E commit \in BOOLEAN : update(r, dto, commit)
  \/ \E v \in DOMAIN versions : deployVersion(r, v) \/ rollback(r, v)
  \/ createVersion(r) \/ undeploy(r) \/ pause(r) \/ resume(r) \/ archive(r) \/ restore(r)
  \/ hardDelete(r) \/ duplicate(r) \/ cloneFromTemplate(r)
  \/ attachTool(r) \/ attachKnowledge(r) \/ detachTool(r) \/ detachKnowledge(r)

Continues(r) ==
  \/ WriteAgent(r) \/ InsertFirst(r) \/ ReadLast(r) \/ ReadAgent(r) \/ InsertVersion(r)
  \/ ReadTarget(r) \/ Override(r) \/ FindAgain(r) \/ ReadVersion(r) \/ Deploy(r) \/ Delete(r)
  \/ LookUp(r) \/ Attach(r) \/ Detach(r)
  \/ CopyAgent(r) \/ CopyTools(r) \/ CopyKnowledge(r) \/ CopyVersion(r)
  \/ Refuse(r) \/ DbError(r)

Next == \E r \in Request : Begins(r) \/ Continues(r)

Spec == Init /\ [][Next]_vars

-----------------------------------------------------------------------------
CopyHas(r, things, version) ==
  /\ copies[r].row /\ copies[r].config = req[r].config
  /\ copies[r].attached = things /\ copies[r].version = version

(* A version a request was told it created keeps the configuration it was  *)
(* given, whatever commits and rollbacks overlap: reading the last number  *)
(* before the insert loses no version.  A duplicate that was answered has  *)
(* all the agent had when it was read (createVersionInternal, duplicate).  *)
CommittedKept ==
  \A r \in Request : req[r].pc = "over" =>
    /\ Exists /\ (req[r].op \in {"create", "createVersion", "rollback"} \/ req[r].commit)
       => req[r].version \in DOMAIN versions /\ versions[req[r].version] = req[r].config
    /\ req[r].op = "duplicate" => CopyHas(r, req[r].things, TRUE)

(* As long as requests do not overlap, no sequence of them makes status,   *)
(* deletedAt and the pinned version disagree.                              *)
StatusAgrees ==
  Exists /\ ~overlapped =>
    /\ agent.status = "ARCHIVED" <=> agent.deleted
    /\ agent.status = "ACTIVE" => agent.deployed # NoVersion
    /\ agent.deleted => agent.deployed = NoVersion
    /\ agent.deployed # NoVersion => Deployable(agent.deployed)

(* Versions are numbered from 1 without gaps, and are of an agent that     *)
(* exists, as what is attached is.                                         *)
RowsAreOfAgent ==
  /\ DOMAIN versions = 1 .. Cardinality(DOMAIN versions)
  /\ ~Exists => DOMAIN versions = {} /\ attached = {}

(* A rollback that succeeds, with nothing else going on, has pinned a new  *)
(* version that equals its target, and the agent has its instructions      *)
(* (AgentsService.rollback).                                               *)
RollbackRestores ==
  [][\A r \in Request :
       /\ req[r].op = "rollback" /\ req[r].pc = "deploy" /\ req'[r].pc = "over" /\ ~overlapped
       => /\ agent'.deployed = req[r].version /\ req[r].version # req[r].target
          /\ versions[req[r].version] = versions[req[r].target]
          /\ agent'.config.systemInstructions = versions[req[r].target].systemInstructions]_vars

(* The type invariant; no attachment or version outlives the agent; and as *)
(* long as requests do not overlap, no sequence of them makes status,      *)
(* deletedAt and the pinned version disagree (AgentsService, all           *)
(* operations).                                                            *)
AgentsInv == TypeOK /\ RowsAreOfAgent /\ StatusAgrees

-----------------------------------------------------------------------------
(* The inductive invariant.  Which operations are at which calls.          *)
CallsOfOps(q) ==
  /\ q.pc = "idle" => q.op = "none"
  /\ q.op # "update" => q.config \in Stored
  /\ q.commit => q.op = "update"
  /\ q.pc = "first" => q.op = "create"
  /\ q.pc = "write" => q.op \in {"update", "undeploy", "pause", "resume", "archive", "restore"}
  /\ q.pc \in {"last", "snapshot", "insert"} => q.op \in {"createVersion", "rollback"} \/ q.commit
  /\ q.pc \in {"target", "override", "refind"} => q.op = "rollback"
  /\ q.pc \in {"version", "deploy"} => q.op \in {"deploy", "rollback"}
  /\ q.pc = "delete" => q.op = "hardDelete"
  /\ q.pc \in {"lookUp", "attach"} => q.op = "attach"
  /\ q.pc = "detach" => q.op = "detach"
  /\ q.pc \in {"copy", "copyTools", "copyKnowledge", "copyVersion"} => q.op = "duplicate"
  /\ q.op = "undeploy" => q.status = "DRAFT"
  /\ q.op = "pause" => q.status = "PAUSED"
  /\ q.op = "resume" => q.status = "ACTIVE"
  /\ q.op = "archive" => q.status = "ARCHIVED"
  /\ q.op = "restore" => q.status = "DRAFT"

(* Nothing has happened before create.                                     *)
NothingBefore == agent.row = "none" => \A r \in Request : req[r].pc = "idle"

(* The version a request inserted and answers for is its own, and there;   *)
(* the number it read as the last one is not beyond the last.              *)
Owns(q) ==
  \/ q.op = "rollback" /\ q.pc \in {"override", "refind", "version", "deploy", "over"}
  \/ q.pc = "over" /\ (q.op \in {"create", "createVersion"} \/ q.commit)

OwnVersionIsKept(r) ==
  Exists =>
    /\ Owns(req[r]) =>
         /\ req[r].version \in DOMAIN versions
         /\ req[r].pc # "override" => versions[req[r].version] = req[r].config
    /\ req[r].pc \in {"version", "deploy"} => req[r].version \in DOMAIN versions
    /\ req[r].pc \in {"snapshot", "insert"} => req[r].last \in DOMAIN versions \cup {0}

OwnVersionsDiffer ==
  Exists => \A r, q \in Request : r # q /\ Owns(req[r]) /\ Owns(req[q]) => req[r].version # req[q].version

(* The copy so far.                                                        *)
CopyIsDue(r) ==
  /\ req[r].pc = "copyTools" => CopyHas(r, {}, FALSE)
  /\ req[r].pc = "copyKnowledge" => CopyHas(r, req[r].things \cap Tool, FALSE)
  /\ req[r].pc = "copyVersion" => CopyHas(r, req[r].things, FALSE)
  /\ req[r].pc = "over" /\ req[r].op = "duplicate" => CopyHas(r, req[r].things, TRUE)

(* Without overlap one request is in progress, and what it read is so still.*)
StillSo(r) ==
  LET q == req[r] IN
  /\ Exists
  /\ q.op \notin {"restore", "hardDelete"} => ~agent.deleted
  /\ q.op = "resume" => agent.deployed # NoVersion
  /\ q.pc = "override" => agent.deployed # q.version
  /\ q.pc = "deploy" => Deployable(q.version) /\ versions[q.version] = q.config
  /\ q.op = "rollback" /\ q.pc # "target" =>
       /\ q.target \in DOMAIN versions /\ versions[q.target] = q.config
       /\ q.pc \in {"override", "refind", "version", "deploy"} => q.version # q.target

Alone ==
  ~overlapped =>
    /\ \A r, q \in Request : InProgress(r) /\ InProgress(q) => r = q
    /\ \A r \in Request : InProgress(r) => StillSo(r)

IInv ==
  /\ TypeOK /\ RowsAreOfAgent /\ StatusAgrees
  /\ NothingBefore /\ OwnVersionsDiffer /\ Alone
  /\ \A r \in Request : CallsOfOps(req[r]) /\ OwnVersionIsKept(r) /\ CopyIsDue(r)
=============================================================================
