----------------------- MODULE AgentLifecycle_proofs -----------------------
(***************************************************************************)
(* Proofs about AgentLifecycle: no overlap of requests loses a version or  *)
(* makes half a copy, and without overlap the columns of the agent agree   *)
(* and a rollback restores its target.                                     *)
(***************************************************************************)
EXTENDS AgentLifecycle, FiniteSetTheorems, TLAPS

-----------------------------------------------------------------------------
(* Configurations and version numbers.                                     *)

LEMMA GivenIsTyped ==
  ASSUME NEW c \in Config
  PROVE  c \in Configuration /\ Defaulted(c) \in Stored
<1>1. c = [systemInstructions |-> c.systemInstructions, guardrails |-> c.guardrails]
  BY ConfigAssumption
<1>2. c.systemInstructions \in Instructions /\ DefaultInstructions \in Instructions
  BY DEF Instructions
<1>3. c \in Configuration
  BY <1>1, <1>2 DEF Configuration
<1>4. Defaulted(c) \in Stored
  BY <1>2, <1>3, ConfigAssumption DEF Stored, Configuration, Defaulted
<1>5. QED
  BY <1>3, <1>4

LEMMA MergedIsTyped ==
  ASSUME NEW c \in Configuration, NEW old \in Stored
  PROVE  Merged(c, old) \in Stored
  BY DEF Merged, Stored, Configuration

(* Numbers without gaps have a greatest one.                               *)
LEMMA LastIsTheNumber ==
  ASSUME TypeOK, RowsAreOfAgent
  PROVE  /\ Cardinality(DOMAIN versions) \in Nat
         /\ LastVersion = Cardinality(DOMAIN versions)
<1> DEFINE n == Cardinality(DOMAIN versions)
<1>1. n \in Nat
  BY FS_CardinalityType DEF TypeOK
<1>2. DOMAIN versions = 1..n
  BY DEF RowsAreOfAgent
<1> HIDE DEF n
<1>3. CASE n = 0
  <2>1. DOMAIN versions = {}
    BY <1>2, <1>3
  <2>2. QED
    BY <1>1, <1>3, <2>1 DEF LastVersion, n
<1>4. CASE n # 0
  <2>1. n \in DOMAIN versions /\ \A w \in DOMAIN versions : w <= n
    BY <1>1, <1>2, <1>4
  <2>2. \A v \in DOMAIN versions : (\A w \in DOMAIN versions : w <= v) => v = n
    BY <1>1, <1>2, <2>1
  <2>3. LastVersion = CHOOSE v \in DOMAIN versions : \A w \in DOMAIN versions : w <= v
    BY <2>1 DEF LastVersion
  <2>4. LastVersion = n
    BY <2>1, <2>2, <2>3
  <2>5. QED
    BY <1>1, <2>4 DEF n
<1>5. QED
  BY <1>3, <1>4

(* An insert is of the next number, whatever was read before.              *)
LEMMA InsertIsNext ==
  ASSUME TypeOK, RowsAreOfAgent, Exists, NEW v \in Nat, NEW c \in Stored,
         v >= 1, MayInsert(v), v - 1 <= LastVersion, Insert(v, c), UNCHANGED <<agent, attached>>
  PROVE  /\ DOMAIN versions' = DOMAIN versions \cup {v} /\ IsFiniteSet(DOMAIN versions')
         /\ versions' \in [DOMAIN versions' -> Stored]
         /\ versions'[v] = c
         /\ \A w \in DOMAIN versions : versions'[w] = versions[w]
         /\ RowsAreOfAgent'
<1> DEFINE n == Cardinality(DOMAIN versions)
<1>1. n \in Nat /\ LastVersion = n /\ DOMAIN versions = 1..n
  BY LastIsTheNumber DEF RowsAreOfAgent
<1>2. v = n + 1
  BY <1>1 DEF MayInsert
<1>3. DOMAIN versions' = DOMAIN versions \cup {v}
  BY DEF Insert
<1>4. DOMAIN versions' = 1..(n + 1)
  BY <1>1, <1>2, <1>3
<1>5. IsFiniteSet(DOMAIN versions') /\ Cardinality(DOMAIN versions') = n + 1
  <2>1. 1 \in Int /\ n + 1 \in Int /\ 1 <= n + 1
    BY <1>1
  <2>2. QED
    BY <1>1, <1>4, <2>1, FS_Interval
<1>6. versions' \in [DOMAIN versions' -> Stored]
  BY <1>3 DEF Insert, TypeOK
<1>7. versions'[v] = c /\ \A w \in DOMAIN versions : versions'[w] = versions[w]
  BY DEF Insert, MayInsert
<1>8. RowsAreOfAgent'
  BY <1>4, <1>5 DEF RowsAreOfAgent, Exists
<1>9. QED
  BY <1>3, <1>5, <1>6, <1>7, <1>8

-----------------------------------------------------------------------------
(* A step of one request.                                                  *)

LEMMA Stepped ==
  ASSUME TypeOK, NEW r \in Request, NEW new \in RequestState, Step(r, new)
  PROVE  /\ req' \in [Request -> RequestState]
         /\ req'[r] = new
         /\ \A q \in Request \ {r} : req'[q] = req[q]
  BY DEF TypeOK, Step

LEMMA Moved ==
  ASSUME TypeOK, NEW r \in Request, NEW label \in Label
  PROVE  /\ [req[r] EXCEPT !.pc = label] \in RequestState
         /\ [req[r] EXCEPT !.pc = label].pc = label
         /\ [req[r] EXCEPT !.pc = label].op = req[r].op
         /\ [req[r] EXCEPT !.pc = label].version = req[r].version
         /\ [req[r] EXCEPT !.pc = label].target = req[r].target
         /\ [req[r] EXCEPT !.pc = label].config = req[r].config
         /\ [req[r] EXCEPT !.pc = label].status = req[r].status
         /\ [req[r] EXCEPT !.pc = label].commit = req[r].commit
         /\ [req[r] EXCEPT !.pc = label].things = req[r].things
  BY DEF TypeOK, RequestState

(* What a step has to show: nothing is lost for the other requests, and it *)
(* leaves its own request as it should be.                                 *)
LEMMA Assemble ==
  ASSUME IInv, NEW r \in Request, NEW new \in RequestState, Step(r, new),
         agent' \in AgentRow, agent'.deployed \in DOMAIN versions' \cup {NoVersion},
         versions' \in [DOMAIN versions' -> Stored], IsFiniteSet(DOMAIN versions'),
         attached' \subseteq Attachment, copies' \in [Request -> Copy], dbErrors' \in Nat, overlapped' \in BOOLEAN,
         RowsAreOfAgent', StatusAgrees',
         agent'.row # "none", Exists' => Exists,
         ~overlapped' => ~overlapped /\ \A q \in Request \ {r} : ~InProgress(q),
         Exists' => DOMAIN versions \subseteq DOMAIN versions',
         Exists' => \A v \in DOMAIN versions :
                      versions'[v] = versions[v] \/ (Owns(req[r]) /\ v = req[r].version),
         \A q \in Request \ {r} : copies'[q] = copies[q],
         new.pc # "idle", CallsOfOps(new), OwnVersionIsKept(r)', CopyIsDue(r)',
         Exists' /\ Owns(new) =>
           (Owns(req[r]) /\ new.version = req[r].version) \/ new.version \notin DOMAIN versions,
         ~overlapped' /\ InProgress(r)' => StillSo(r)'
  PROVE  IInv'
<1> USE DEF IInv
<1>1. /\ req' \in [Request -> RequestState] /\ req'[r] = new
      /\ \A q \in Request \ {r} : req'[q] = req[q]
  BY Stepped
<1>2. TypeOK'
  BY <1>1 DEF TypeOK
<1>3. NothingBefore'
  BY DEF NothingBefore
<1>4. OwnVersionsDiffer'
  <2> SUFFICES ASSUME Exists', NEW p \in Request, NEW q \in Request, p # q, Owns(req'[p]), Owns(req'[q])
               PROVE  req'[p].version # req'[q].version
    BY DEF OwnVersionsDiffer
  <2>1. \A o \in Request : Owns(req[o]) => req[o].version \in DOMAIN versions
    BY DEF OwnVersionIsKept
  <2>2. \A o \in Request : o # r => req'[o] = req[o]
    BY <1>1
  <2>3. CASE p = r
    BY <1>1, <2>1, <2>2, <2>3 DEF OwnVersionsDiffer
  <2>4. CASE q = r
    BY <1>1, <2>1, <2>2, <2>4 DEF OwnVersionsDiffer
  <2>5. CASE p # r /\ q # r
    BY <2>2, <2>5 DEF OwnVersionsDiffer
  <2>6. QED
    BY <2>3, <2>4, <2>5
<1>5. Alone'
  <2> SUFFICES ASSUME ~overlapped'
               PROVE  /\ \A p, q \in Request : InProgress(p)' /\ InProgress(q)' => p = q
                      /\ \A q \in Request : InProgress(q)' => StillSo(q)'
    BY DEF Alone
  <2>1. \A q \in Request : q # r => ~InProgress(q)'
    BY <1>1 DEF InProgress
  <2>2. QED
    BY <2>1
<1>6. \A q \in Request \ {r} : CallsOfOps(req'[q]) /\ OwnVersionIsKept(q)' /\ CopyIsDue(q)'
  <2> SUFFICES ASSUME NEW q \in Request \ {r} PROVE CallsOfOps(req'[q]) /\ OwnVersionIsKept(q)' /\ CopyIsDue(q)'
    OBVIOUS
  <2>1. req'[q] = req[q] /\ copies'[q] = copies[q]
    BY <1>1
  <2>2. CallsOfOps(req'[q]) /\ CopyIsDue(q)'
    BY <2>1 DEF CopyIsDue, CopyHas
  <2>3. OwnVersionIsKept(q)'
    <3>1. SUFFICES ASSUME Exists'
                   PROVE  /\ Owns(req[q]) =>
                               /\ req[q].version \in DOMAIN versions'
                               /\ req[q].pc # "override" => versions'[req[q].version] = req[q].config
                          /\ req[q].pc \in {"version", "deploy"} => req[q].version \in DOMAIN versions'
                          /\ req[q].pc \in {"snapshot", "insert"} => req[q].last \in DOMAIN versions' \cup {0}
      BY <2>1 DEF OwnVersionIsKept
    <3>2. OwnVersionIsKept(q)
      OBVIOUS
    <3>3. Owns(req[r]) /\ Owns(req[q]) => req[q].version # req[r].version
      BY <3>1 DEF OwnVersionsDiffer
    <3>4. QED
      BY <3>1, <3>2, <3>3 DEF OwnVersionIsKept
  <2>4. QED
    BY <2>2, <2>3
<1>7. CallsOfOps(req'[r])
  BY <1>1
<1>8. QED
  BY <1>2, <1>3, <1>4, <1>5, <1>6, <1>7

(* A step that leaves the tables alone.                                    *)
LEMMA TablesKept ==
  ASSUME IInv, NEW r \in Request, NEW new \in RequestState, Step(r, new), UNCHANGED tables,
         dbErrors' \in Nat, overlapped' \in BOOLEAN, agent.row # "none",
         ~overlapped' => ~overlapped /\ \A q \in Request \ {r} : ~InProgress(q),
         new.pc # "idle", CallsOfOps(new), CopyIsDue(r)',
         Exists /\ Owns(new) =>
           /\ Owns(req[r]) /\ new.version = req[r].version
           /\ new.pc # "override" => versions[new.version] = new.config,
         Exists /\ new.pc \in {"version", "deploy"} => new.version \in DOMAIN versions,
         Exists /\ new.pc \in {"snapshot", "insert"} => new.last \in DOMAIN versions \cup {0},
         ~overlapped' /\ InProgress(r)' => StillSo(r)'
  PROVE  IInv'
<1>1. req' \in [Request -> RequestState] /\ req'[r] = new
  BY Stepped DEF IInv
<1>2. agent' = agent /\ versions' = versions /\ attached' = attached /\ copies' = copies
  BY DEF tables
<1>3. RowsAreOfAgent'
  BY <1>2 DEF IInv, RowsAreOfAgent, Exists
<1>4. StatusAgrees'
  BY <1>2 DEF IInv, StatusAgrees, Exists, Deployable
<1>5. OwnVersionIsKept(r)'
  BY <1>1, <1>2 DEF IInv, OwnVersionIsKept, Exists
<1>6. Exists' = Exists
  BY <1>2 DEF Exists
<1>7. QED
  BY <1>2, <1>3, <1>4, <1>5, <1>6, Assemble DEF IInv, TypeOK

(* A step of a request in progress, or one that begins it.                 *)
LEMMA OthersRest ==
  ASSUME IInv, NEW r \in Request, InProgress(r), overlapped' = overlapped
  PROVE  /\ agent.row # "none"
         /\ overlapped' \in BOOLEAN
         /\ ~overlapped' => ~overlapped /\ \A q \in Request \ {r} : ~InProgress(q)
  BY DEF IInv, TypeOK, NothingBefore, Alone, InProgress

(* A request that begins owns nothing yet.                                 *)
LEMMA Begun ==
  ASSUME IInv, NEW r \in Request, NEW new \in RequestState, Begin(r, new), UNCHANGED tables, Exists,
         new.pc \notin {"idle", "over", "failed", "snapshot", "insert", "override", "refind",
                        "copyTools", "copyKnowledge", "copyVersion"},
         CallsOfOps(new), new.op = "rollback" => new.pc = "target",
         new.pc = "version" => new.version \in DOMAIN versions, new.pc # "deploy",
         new.op \notin {"restore", "hardDelete"} => ~agent.deleted,
         new.op = "resume" => agent.deployed # NoVersion
  PROVE  IInv'
<1>1. Step(r, new) /\ dbErrors' = dbErrors
  BY DEF Begin
<1>2. req'[r] = new
  BY <1>1, Stepped DEF IInv
<1>3. ~overlapped' => ~overlapped /\ \A q \in Request \ {r} : ~InProgress(q)
  BY DEF Begin
<1>4. overlapped' \in BOOLEAN
  BY DEF Begin, IInv, TypeOK
<1>5. CopyIsDue(r)'
  BY <1>2 DEF CopyIsDue
<1>6. StillSo(r)'
  BY <1>2 DEF StillSo, Exists, tables
<1>7. ~Owns(new)
  BY DEF Owns
<1>8. agent.row # "none"
  BY DEF Exists
<1>9. QED
  BY <1>1, <1>3, <1>4, <1>5, <1>6, <1>7, <1>8, TablesKept DEF IInv, TypeOK

-----------------------------------------------------------------------------
(* The requests begin.                                                     *)

LEMMA IdleIsTyped ==
  ASSUME NEW c \in Stored
  PROVE  Idle(c) \in RequestState
  BY DEF Stored, Idle, RequestState, Label, Op, Status, NoVersion

LEMMA CreateKeeps ==
  ASSUME IInv, NEW r \in Request, NEW dto \in Config, create(r, dto)
  PROVE  IInv'
<1> DEFINE c == Defaulted(dto)
           new == [Idle(c) EXCEPT !.pc = "first", !.op = "create"]
<1>1. c \in Stored
  BY GivenIsTyped
<1>2. new \in RequestState /\ new.pc = "first" /\ new.op = "create" /\ ~new.commit /\ new.config = c
  BY <1>1 DEF Stored, Idle, RequestState, Label, Op, Status, NoVersion
<1>3. /\ agent.row = "none" /\ Begin(r, new)
      /\ agent' = [Nobody(c) EXCEPT !.row = "present"]
      /\ UNCHANGED <<versions, attached, copies>>
  BY DEF create
<1> HIDE DEF new, c
<1>4. /\ req' \in [Request -> RequestState] /\ req'[r] = new
      /\ \A q \in Request \ {r} : req'[q] = req[q]
  BY <1>2, <1>3, Stepped DEF IInv, Begin
<1>5. agent' \in AgentRow /\ agent'.row = "present" /\ ~agent'.deleted /\ agent'.status = "DRAFT"
      /\ agent'.deployed = NoVersion
  BY <1>1, <1>3 DEF Nobody, AgentRow, Status, NoVersion
<1>6. \A q \in Request : req[q].pc = "idle"
  BY <1>3 DEF IInv, NothingBefore
<1>7. TypeOK'
  BY <1>3, <1>4, <1>5 DEF IInv, TypeOK, Begin
<1>8. RowsAreOfAgent' /\ StatusAgrees' /\ NothingBefore'
  BY <1>3, <1>5 DEF IInv, RowsAreOfAgent, StatusAgrees, NothingBefore, Exists
<1>9. \A q \in Request : ~Owns(req'[q]) /\ (q # r => ~InProgress(q)')
  BY <1>2, <1>4, <1>6 DEF Owns, InProgress, IInv, CallsOfOps
<1>10. OwnVersionsDiffer'
  BY <1>9 DEF OwnVersionsDiffer
<1>11. StillSo(r)'
  BY <1>2, <1>4, <1>5 DEF StillSo, Exists
<1>12. Alone'
  BY <1>9, <1>11 DEF Alone
<1>13. \A q \in Request : CallsOfOps(req'[q]) /\ OwnVersionIsKept(q)' /\ CopyIsDue(q)'
  <2>1. \A q \in Request : CallsOfOps(req'[q])
    BY <1>1, <1>2, <1>4 DEF IInv, CallsOfOps
  <2>2. \A q \in Request : req'[q].pc \in {"idle", "first"}
    BY <1>2, <1>4, <1>6
  <2>3. QED
    BY <2>1, <2>2, <1>9 DEF OwnVersionIsKept, CopyIsDue
<1>14. QED
  BY <1>7, <1>8, <1>10, <1>12, <1>13 DEF IInv

(* All other requests begin from the agent as it is.                       *)
LEMMA BeginsKeep ==
  ASSUME IInv, NEW r \in Request, Begins(r)
  PROVE  IInv'
<1> USE DEF CallsOfOps
<1>0. req[r] \in RequestState /\ agent \in AgentRow /\ attached \subseteq Attachment
  BY DEF IInv, TypeOK
<1>0a. req[r].pc = "idle" => ~req[r].commit /\ req[r].config \in Stored
  BY DEF IInv
<1>1. ASSUME NEW dto \in Config, create(r, dto) PROVE IInv'
  BY <1>1, CreateKeeps
<1>2. ASSUME NEW dto \in Config, NEW commit \in BOOLEAN, update(r, dto, commit) PROVE IInv'
  <2> DEFINE new == [Idle(agent.config) EXCEPT !.pc = "write", !.op = "update", !.config = dto, !.commit = commit]
  <2>1. new \in RequestState /\ new.pc = "write" /\ new.op = "update"
    BY ZenonT(40), <1>0, GivenIsTyped DEF Stored, Idle, AgentRow, RequestState, Label, Op, Status, NoVersion
  <2>2. Begin(r, new) /\ Found /\ UNCHANGED tables
    BY <1>2 DEF update
  <2> HIDE DEF new
  <2>3. QED
    BY <2>1, <2>2, Begun DEF Found
<1>3. ASSUME NEW v \in DOMAIN versions, deployVersion(r, v) PROVE IInv'
  <2> DEFINE new == [req[r] EXCEPT !.pc = "version", !.op = "deploy", !.version = v, !.kept = agent.config]
  <2>1. v \in Nat
    BY FS_CardinalityType DEF IInv, TypeOK, RowsAreOfAgent
  <2>2. new \in RequestState /\ new.pc = "version" /\ new.op = "deploy" /\ new.version = v /\ new.commit = req[r].commit /\ new.config = req[r].config
    BY <1>0, <2>1 DEF RequestState, AgentRow, Label, Op
  <2>3. Begin(r, new) /\ Found /\ UNCHANGED tables /\ ~req[r].commit /\ req[r].config \in Stored
    BY <1>3, <1>0a DEF deployVersion, Begin
  <2> HIDE DEF new
  <2>4. QED
    BY <2>2, <2>3, Begun DEF Found
<1>4. ASSUME NEW v \in DOMAIN versions, rollback(r, v) PROVE IInv'
  <2> DEFINE new == [req[r] EXCEPT !.pc = "target", !.op = "rollback", !.target = v]
  <2>1. v \in Nat
    BY FS_CardinalityType DEF IInv, TypeOK, RowsAreOfAgent
  <2>2. new \in RequestState /\ new.pc = "target" /\ new.op = "rollback" /\ new.commit = req[r].commit /\ new.config = req[r].config
    BY <1>0, <2>1 DEF RequestState, Label, Op
  <2>3. Begin(r, new) /\ Found /\ UNCHANGED tables /\ ~req[r].commit /\ req[r].config \in Stored
    BY <1>4, <1>0a DEF rollback, Begin
  <2> HIDE DEF new
  <2>4. QED
    BY <2>2, <2>3, Begun DEF Found
<1>5. ASSUME createVersion(r) PROVE IInv'
  <2> DEFINE new == [req[r] EXCEPT !.pc = "last", !.op = "createVersion"]
  <2>1. new \in RequestState /\ new.pc = "last" /\ new.op = "createVersion" /\ new.commit = req[r].commit /\ new.config = req[r].config
    BY <1>0 DEF RequestState, Label, Op
  <2>2. Begin(r, new) /\ Found /\ UNCHANGED tables /\ ~req[r].commit /\ req[r].config \in Stored
    BY <1>5, <1>0a DEF createVersion, Begin
  <2> HIDE DEF new
  <2>3. QED
    BY <2>1, <2>2, Begun DEF Found
<1>6. ASSUME NEW op \in Op, NEW s \in Status, Transition(r, op, s), Exists,
             \/ op = "undeploy" /\ s = "DRAFT"
             \/ op = "pause" /\ s = "PAUSED"
             \/ op = "resume" /\ s = "ACTIVE" /\ agent.deployed # NoVersion
             \/ op = "archive" /\ s = "ARCHIVED"
             \/ op = "restore" /\ s = "DRAFT",
             op # "restore" => ~agent.deleted
      PROVE  IInv'
  <2> DEFINE new == [req[r] EXCEPT !.pc = "write", !.op = op, !.status = s]
  <2>1. new \in RequestState /\ new.pc = "write" /\ new.op = op /\ new.status = s /\ new.commit = req[r].commit /\ new.config = req[r].config
    BY <1>0 DEF RequestState, Label
  <2>2. Begin(r, new) /\ UNCHANGED tables /\ ~req[r].commit /\ req[r].config \in Stored
    BY <1>6, <1>0a DEF Transition, Begin
  <2> HIDE DEF new
  <2>3. CallsOfOps(new)
    BY <1>6, <2>1, <2>2
  <2>4. QED
    BY <1>6, <2>1, <2>2, <2>3, Begun
<1>7. ASSUME undeploy(r) \/ pause(r) \/ resume(r) \/ archive(r) \/ restore(r) PROVE IInv'
  BY <1>6, <1>7 DEF undeploy, pause, resume, archive, restore, Found, Op, Status
<1>8. ASSUME hardDelete(r) PROVE IInv'
  <2> DEFINE new == [req[r] EXCEPT !.pc = "delete", !.op = "hardDelete"]
  <2>1. new \in RequestState /\ new.pc = "delete" /\ new.op = "hardDelete" /\ new.commit = req[r].commit /\ new.config = req[r].config
    BY <1>0 DEF RequestState, Label, Op
  <2>2. Begin(r, new) /\ Exists /\ UNCHANGED tables /\ ~req[r].commit /\ req[r].config \in Stored
    BY <1>8, <1>0a DEF hardDelete, Begin
  <2> HIDE DEF new
  <2>3. QED
    BY <2>1, <2>2, Begun
<1>9. ASSUME duplicate(r) PROVE IInv'
  <2> DEFINE new == [req[r] EXCEPT !.pc = "copy", !.op = "duplicate", !.config = agent.config, !.things = attached]
  <2>1. new \in RequestState /\ new.pc = "copy" /\ new.op = "duplicate" /\ new.commit = req[r].commit /\ new.config \in Stored
    BY <1>0 DEF Stored, RequestState, AgentRow, Label, Op
  <2>2. Begin(r, new) /\ Found /\ UNCHANGED tables /\ ~req[r].commit
    BY <1>9, <1>0a DEF duplicate, Begin
  <2> HIDE DEF new
  <2>3. QED
    BY <2>1, <2>2, Begun DEF Found
<1>10. ASSUME NEW x \in Attachment, NEW label \in {"lookUp", "detach"}, NEW op \in {"attach", "detach"},
              label = "lookUp" <=> op = "attach", Attaches(r, x, label, op)
       PROVE  IInv'
  <2> DEFINE new == [req[r] EXCEPT !.pc = label, !.op = op, !.things = {x}]
  <2>1. new \in RequestState /\ new.pc = label /\ new.op = op /\ new.commit = req[r].commit /\ new.config = req[r].config
    BY <1>0 DEF RequestState, Label, Op
  <2>2. Begin(r, new) /\ Found /\ UNCHANGED tables /\ ~req[r].commit /\ req[r].config \in Stored
    BY <1>10, <1>0a DEF Attaches, Begin
  <2> HIDE DEF new
  <2>3. QED
    BY <1>10, <2>1, <2>2, Begun DEF Found
<1>11. ASSUME attachTool(r) \/ attachKnowledge(r) \/ detachTool(r) \/ detachKnowledge(r) PROVE IInv'
  BY <1>10, <1>11 DEF attachTool, attachKnowledge, detachTool, detachKnowledge, Attachment
<1>12. ASSUME cloneFromTemplate(r) PROVE IInv'
  BY <1>1, <1>12, ConfigAssumption DEF cloneFromTemplate
<1>13. QED
  BY <1>1, <1>2, <1>3, <1>4, <1>5, <1>7, <1>8, <1>9, <1>11, <1>12 DEF Begins

-----------------------------------------------------------------------------
(* Calls that only read, or fail.                                          *)

LEMMA FailureKeeps ==
  ASSUME IInv, NEW r \in Request, InProgress(r), Goto(r, "failed"), UNCHANGED <<tables, overlapped>>, dbErrors' \in Nat
  PROVE  IInv'
<1> DEFINE new == [req[r] EXCEPT !.pc = "failed"]
<1>1. new \in RequestState /\ new.pc = "failed" /\ new.op = req[r].op /\ new.status = req[r].status
      /\ new.commit = req[r].commit /\ new.config = req[r].config
  BY ZenonT(40), Moved DEF IInv, Label
<1>2. Step(r, new)
  BY DEF Goto
<1> HIDE DEF new
<1>3. req'[r] = new
  BY <1>1, <1>2, Stepped DEF IInv
<1>4. CallsOfOps(new)
  BY <1>1 DEF IInv, CallsOfOps
<1>5. CopyIsDue(r)' /\ ~InProgress(r)'
  BY <1>1, <1>3 DEF CopyIsDue, InProgress
<1>6. ~Owns(new)
  BY <1>1 DEF Owns
<1>7. QED
  BY <1>1, <1>2, <1>4, <1>5, <1>6, OthersRest, TablesKept

(* A call that reads: what the request holds of it is so.                  *)
LEMMA ReadingKeeps ==
  ASSUME IInv, NEW r \in Request, NEW new \in RequestState, Step(r, new), Quiet,
         InProgress(r), new.op = req[r].op, new.commit = req[r].commit, new.status = req[r].status,
         new.version = req[r].version, new.target = req[r].target,
         \/ req[r].pc = "last" /\ new.pc = "snapshot" /\ new.config = req[r].config
            /\ new.last = LastVersion
         \/ req[r].pc = "snapshot" /\ new.pc = "insert" /\ new.config = req[r].config
            /\ new.last = req[r].last
         \/ req[r].pc = "target" /\ new.pc = "last" /\ req[r].target \in DOMAIN versions
            /\ new.config = versions[req[r].target]
         \/ req[r].pc = "refind" /\ new.pc = "version" /\ new.config = req[r].config
         \/ req[r].pc = "version" /\ new.pc = "deploy" /\ Deployable(req[r].version)
            /\ new.config = versions[req[r].version]
         \/ req[r].pc = "lookUp" /\ new.pc = "attach" /\ new.config = req[r].config
  PROVE  IInv'
<1>1. req'[r] = new
  BY Stepped DEF IInv
<1>2. agent' = agent /\ versions' = versions /\ overlapped' = overlapped /\ dbErrors' \in Nat /\ UNCHANGED tables
  BY DEF IInv, TypeOK, Quiet, tables
<1>3. CallsOfOps(req[r]) /\ OwnVersionIsKept(r)
  BY DEF IInv
<1>4. CallsOfOps(new)
  BY <1>3 DEF CallsOfOps, Deployable, IInv, TypeOK
<1>5. CopyIsDue(r)'
  BY <1>1 DEF CopyIsDue
<1>6. Exists /\ Owns(new) =>
           /\ Owns(req[r]) /\ new.version = req[r].version
           /\ new.pc # "override" => versions[new.version] = new.config
  BY <1>3 DEF CallsOfOps, OwnVersionIsKept, Owns
<1>7. Exists /\ new.pc \in {"version", "deploy"} => new.version \in DOMAIN versions
  BY <1>3 DEF CallsOfOps, OwnVersionIsKept, Owns
<1>7a. Exists /\ new.pc \in {"snapshot", "insert"} => new.last \in DOMAIN versions \cup {0}
  BY <1>3, LastIsTheNumber DEF CallsOfOps, OwnVersionIsKept, IInv, RowsAreOfAgent
<1>8. ASSUME ~overlapped PROVE StillSo(r)'
  <2>1. StillSo(r)
    BY <1>8 DEF IInv, Alone
  <2>2. Exists /\ Exists'
    BY <1>2, <2>1 DEF StillSo, Exists
  <2>3. new.op \notin {"restore", "hardDelete"} => ~agent.deleted
    BY <2>1 DEF StillSo
  <2>4. new.op = "resume" => agent.deployed # NoVersion
    BY <2>1 DEF StillSo
  <2>5. new.pc = "deploy" => Deployable(new.version) /\ versions[new.version] = new.config
    BY DEF Deployable
  <2>6. new.op = "rollback" /\ new.pc # "target" =>
          /\ new.target \in DOMAIN versions /\ versions[new.target] = new.config
          /\ new.pc \in {"override", "refind", "version", "deploy"} => new.version # new.target
    <3>1. CASE req[r].pc = "version"
      BY <2>1, <2>2, <1>3, <3>1 DEF StillSo, OwnVersionIsKept, Owns
    <3>2. CASE req[r].pc # "version"
      BY <2>1, <1>3, <3>2 DEF StillSo, CallsOfOps
    <3>3. QED
      BY <3>1, <3>2
  <2>7. QED
    BY <1>1, <1>2, <2>2, <2>3, <2>4, <2>5, <2>6 DEF StillSo, Deployable
<1>9. QED
  BY <1>2, <1>4, <1>5, <1>6, <1>7, <1>7a, <1>8, OthersRest, TablesKept DEF InProgress

LEMMA ReadsKeep ==
  ASSUME IInv, NEW r \in Request,
         ReadLast(r) \/ ReadAgent(r) \/ ReadTarget(r) \/ FindAgain(r) \/ ReadVersion(r)
  PROVE  IInv'
<1>0. req[r] \in RequestState /\ agent.config \in Stored
  BY DEF IInv, TypeOK, AgentRow
<1>0a. \A v \in DOMAIN versions : versions[v] \in Stored
  BY DEF IInv, TypeOK
<1>1. ASSUME ReadLast(r) PROVE IInv'
  <2> DEFINE new == [req[r] EXCEPT !.pc = "snapshot", !.last = LastVersion]
  <2>1. LastVersion \in Nat
    BY LastIsTheNumber DEF IInv
  <2>2. new \in RequestState /\ new.pc = "snapshot" /\ new.op = req[r].op /\ new.commit = req[r].commit
        /\ new.status = req[r].status /\ new.version = req[r].version /\ new.target = req[r].target
        /\ new.config = req[r].config /\ new.last = LastVersion
    BY <1>0, <2>1 DEF RequestState, Label
  <2>3. Step(r, new) /\ req[r].pc = "last" /\ Quiet
    BY <1>1 DEF ReadLast
  <2> HIDE DEF new
  <2>4. QED
    BY <2>2, <2>3, ReadingKeeps DEF InProgress
<1>2. ASSUME ReadAgent(r) PROVE IInv'
  <2> DEFINE new == [req[r] EXCEPT !.pc = "insert", !.kept = agent.config]
  <2>1. new \in RequestState /\ new.pc = "insert" /\ new.op = req[r].op /\ new.commit = req[r].commit
        /\ new.status = req[r].status /\ new.version = req[r].version /\ new.target = req[r].target
        /\ new.config = req[r].config /\ new.last = req[r].last
    BY <1>0 DEF RequestState, Label
  <2>2. Step(r, new) /\ req[r].pc = "snapshot" /\ Quiet
    BY <1>2 DEF ReadAgent
  <2> HIDE DEF new
  <2>3. QED
    BY <2>1, <2>2, ReadingKeeps DEF InProgress
<1>3. ASSUME ReadTarget(r) PROVE IInv'
  <2> DEFINE c == versions[req[r].target]
             new == [req[r] EXCEPT !.pc = "last", !.config = c]
  <2>1. Step(r, new) /\ req[r].pc = "target" /\ req[r].target \in DOMAIN versions /\ Quiet
    BY <1>3 DEF ReadTarget
  <2>2. c \in Stored
    BY <1>0a, <2>1
  <2> HIDE DEF c
  <2>3. new \in RequestState /\ new.pc = "last" /\ new.op = req[r].op /\ new.commit = req[r].commit
        /\ new.status = req[r].status /\ new.version = req[r].version /\ new.target = req[r].target
        /\ new.config = c
    BY <1>0, <2>2 DEF Stored, RequestState, Label
  <2> HIDE DEF new
  <2>4. QED
    BY <2>1, <2>3, ReadingKeeps DEF InProgress, c
<1>4. ASSUME FindAgain(r) PROVE IInv'
  <2> DEFINE new == [req[r] EXCEPT !.pc = "version", !.kept = agent.config]
  <2>1. new \in RequestState /\ new.pc = "version" /\ new.op = req[r].op /\ new.commit = req[r].commit
        /\ new.status = req[r].status /\ new.version = req[r].version /\ new.target = req[r].target
        /\ new.config = req[r].config
    BY <1>0 DEF RequestState, Label
  <2>2. Step(r, new) /\ req[r].pc = "refind" /\ Quiet
    BY <1>4 DEF FindAgain
  <2> HIDE DEF new
  <2>3. QED
    BY <2>1, <2>2, ReadingKeeps DEF InProgress
<1>5. ASSUME ReadVersion(r) PROVE IInv'
  <2> DEFINE c == versions[req[r].version]
             new == [req[r] EXCEPT !.pc = "deploy", !.config = c]
  <2>1. Step(r, new) /\ req[r].pc = "version" /\ Deployable(req[r].version) /\ Quiet
    BY <1>5 DEF ReadVersion
  <2>2. c \in Stored
    BY <1>0a, <2>1 DEF Deployable
  <2> HIDE DEF c
  <2>3. new \in RequestState /\ new.pc = "deploy" /\ new.op = req[r].op /\ new.commit = req[r].commit
        /\ new.status = req[r].status /\ new.version = req[r].version /\ new.target = req[r].target
        /\ new.config = c
    BY <1>0, <2>2 DEF Stored, RequestState, Label
  <2> HIDE DEF new
  <2>4. QED
    BY <2>1, <2>3, ReadingKeeps DEF InProgress, c
<1>6. QED
  BY <1>1, <1>2, <1>3, <1>4, <1>5

LEMMA LookUpKeeps ==
  ASSUME IInv, NEW r \in Request, LookUp(r)
  PROVE  IInv'
<1>1. req[r].pc = "lookUp" /\ InProgress(r) /\ Quiet
  BY DEF LookUp, InProgress
<1>2. CASE Goto(r, "failed")
  BY <1>1, <1>2, FailureKeeps DEF Quiet, IInv, TypeOK
<1>3. CASE Goto(r, "attach")
  <2> DEFINE new == [req[r] EXCEPT !.pc = "attach"]
  <2>1. new \in RequestState /\ new.pc = "attach" /\ new.op = req[r].op /\ new.commit = req[r].commit
        /\ new.status = req[r].status /\ new.version = req[r].version /\ new.target = req[r].target
        /\ new.config = req[r].config
    BY DEF IInv, TypeOK, RequestState, Label
  <2>2. Step(r, new)
    BY <1>3 DEF Goto
  <2> HIDE DEF new
  <2>3. QED
    BY <1>1, <2>1, <2>2, ReadingKeeps
<1>4. QED
  BY <1>2, <1>3 DEF LookUp

LEMMA RefuseKeeps ==
  ASSUME IInv, NEW r \in Request, Refuse(r) \/ DbError(r)
  PROVE  IInv'
<1>1. CASE Refuse(r)
  <2>1. InProgress(r)
    BY <1>1 DEF Refuse, Refused, InProgress
  <2>2. QED
    BY <1>1, <2>1, FailureKeeps DEF Refuse, Quiet, IInv, TypeOK
<1>2. CASE DbError(r)
  BY <1>2, FailureKeeps DEF DbError, IInv, TypeOK
<1>3. QED
  BY <1>1, <1>2

-----------------------------------------------------------------------------
(* Calls that write the agent.                                             *)

(* versions and attached are left alone, and the agent goes on.            *)
LEMMA AgentWritten ==
  ASSUME IInv, NEW r \in Request, NEW label \in {"last", "over"}, Goto(r, label),
         UNCHANGED <<versions, attached, copies, dbErrors, overlapped>>,
         agent' \in AgentRow, agent'.row = agent.row, agent'.deployed \in DOMAIN versions \cup {NoVersion},
         req[r].pc \in {"write", "deploy"}, StatusAgrees',
         label = "last" <=> req[r].commit,
         req[r].commit => agent'.deleted = agent.deleted /\ Exists
  PROVE  IInv'
<1> DEFINE new == [req[r] EXCEPT !.pc = label]
<1>1. /\ new \in RequestState /\ new.pc = label /\ new.op = req[r].op /\ new.commit = req[r].commit
      /\ new.version = req[r].version /\ new.config = req[r].config /\ new.status = req[r].status
  BY DEF IInv, TypeOK, RequestState, Label
<1>2. Step(r, new)
  BY DEF Goto
<1> HIDE DEF new
<1>3. req'[r] = new
  BY <1>1, <1>2, Stepped DEF IInv
<1>4. CallsOfOps(req[r]) /\ OwnVersionIsKept(r) /\ InProgress(r)
  BY DEF IInv, InProgress
<1>5. CallsOfOps(new) /\ CopyIsDue(r)'
  BY <1>1, <1>3, <1>4 DEF CallsOfOps, CopyIsDue
<1>6. Exists' = Exists /\ RowsAreOfAgent'
  BY DEF IInv, RowsAreOfAgent, Exists
<1>7. Owns(new) => Owns(req[r]) /\ req[r].pc = "deploy" /\ new.version = req[r].version
  BY <1>1, <1>4 DEF Owns, CallsOfOps
<1>8. OwnVersionIsKept(r)'
  BY <1>1, <1>3, <1>4, <1>6, <1>7 DEF OwnVersionIsKept
<1>9. ~overlapped /\ InProgress(r)' => StillSo(r)'
  <2> SUFFICES ASSUME ~overlapped, label = "last" PROVE StillSo(r)'
    BY <1>1, <1>3 DEF InProgress
  <2>1. StillSo(r) /\ req[r].op = "update"
    BY <1>4 DEF IInv, Alone, CallsOfOps
  <2>2. QED
    BY <1>1, <1>3, <1>6, <2>1 DEF StillSo
<1>10. QED
  BY <1>1, <1>2, <1>5, <1>6, <1>7, <1>8, <1>9, <1>4, OthersRest, Assemble DEF IInv, TypeOK, AgentRow

LEMMA WriteAgentKeeps ==
  ASSUME IInv, NEW r \in Request, WriteAgent(r)
  PROVE  IInv'
<1> DEFINE q == req[r]
           label == IF q.commit THEN "last" ELSE "over"
           config == IF q.op = "update" THEN Merged(q.config, agent.config) ELSE agent.config
<1>1. q \in RequestState /\ agent \in AgentRow /\ agent.deployed \in DOMAIN versions \cup {NoVersion}
  BY DEF IInv, TypeOK
<1>2. /\ q.pc = "write" /\ Exists /\ Goto(r, label)
      /\ UNCHANGED <<versions, attached, copies, dbErrors, overlapped>> /\ agent' = Written(q)
  BY DEF WriteAgent
<1>3. config \in Stored
  BY <1>1, MergedIsTyped DEF Stored, RequestState, AgentRow
<1>4. /\ agent' \in AgentRow /\ agent'.row = agent.row
      /\ agent'.status = (IF q.op = "update" THEN agent.status ELSE q.status)
      /\ agent'.deleted = (IF q.op = "archive" THEN TRUE ELSE IF q.op = "restore" THEN FALSE ELSE agent.deleted)
      /\ agent'.deployed = (IF q.op \in {"undeploy", "archive"} THEN NoVersion ELSE agent.deployed)
  <2>1. agent' = [agent EXCEPT
                    !.config = config,
                    !.status = IF q.op = "update" THEN @ ELSE q.status,
                    !.deleted = IF q.op = "archive" THEN TRUE ELSE IF q.op = "restore" THEN FALSE ELSE @,
                    !.deployed = IF q.op \in {"undeploy", "archive"} THEN NoVersion ELSE @]
    BY <1>2 DEF Written
  <2> HIDE DEF config
  <2>2. QED
    BY <1>1, <1>3, <2>1 DEF AgentRow, RequestState, NoVersion
<1>5. CallsOfOps(q)
  BY DEF IInv
<1> HIDE DEF config
<1>6. StatusAgrees'
  <2> SUFFICES ASSUME ~overlapped
               PROVE  /\ agent'.status = "ARCHIVED" <=> agent'.deleted
                      /\ agent'.status = "ACTIVE" => agent'.deployed # NoVersion
                      /\ agent'.deleted => agent'.deployed = NoVersion
                      /\ agent'.deployed # NoVersion => Deployable(agent'.deployed)
    BY <1>2 DEF StatusAgrees, Deployable
  <2>1. StillSo(r)
    BY <1>2 DEF IInv, Alone, InProgress
  <2>2. /\ agent.status = "ARCHIVED" <=> agent.deleted
        /\ agent.status = "ACTIVE" => agent.deployed # NoVersion
        /\ agent.deleted => agent.deployed = NoVersion
        /\ agent.deployed # NoVersion => Deployable(agent.deployed)
    BY <1>2 DEF IInv, StatusAgrees
  <2>3. q.op \in {"update", "undeploy", "pause", "resume", "archive", "restore"}
    BY <1>2, <1>5 DEF CallsOfOps
  <2>4. q.op # "restore" => ~agent.deleted
    BY <2>1, <2>3 DEF StillSo
  <2>5. q.op = "resume" => agent.deployed # NoVersion
    BY <2>1 DEF StillSo
  <2>6. QED
    BY <1>4, <1>5, <2>2, <2>3, <2>4, <2>5 DEF CallsOfOps
<1>7. q.commit => q.op = "update"
  BY <1>5 DEF CallsOfOps
<1>8. QED
  BY <1>1, <1>2, <1>4, <1>6, <1>7, AgentWritten DEF RequestState

LEMMA DeployKeeps ==
  ASSUME IInv, NEW r \in Request, Deploy(r)
  PROVE  IInv'
<1> DEFINE q == req[r]
           config == Merged(q.config, q.kept)
<1>1. q \in RequestState /\ agent \in AgentRow
  BY DEF IInv, TypeOK
<1>2. /\ q.pc = "deploy" /\ Exists /\ Goto(r, "over")
      /\ UNCHANGED <<versions, attached, copies, dbErrors, overlapped>>
      /\ agent' = [agent EXCEPT !.status = "ACTIVE", !.deployed = q.version, !.config = config]
  BY DEF Deploy
<1>3. config \in Stored
  BY <1>1, MergedIsTyped DEF RequestState
<1> HIDE DEF config
<1>4. /\ agent' \in AgentRow /\ agent'.row = agent.row /\ agent'.status = "ACTIVE"
      /\ agent'.deployed = q.version /\ agent'.deleted = agent.deleted
  BY <1>1, <1>2, <1>3 DEF AgentRow, RequestState, Status
<1>5. CallsOfOps(q) /\ q.version \in DOMAIN versions
  BY <1>2 DEF IInv, OwnVersionIsKept
<1>6. ~q.commit /\ q.op \in {"deploy", "rollback"}
  BY <1>2, <1>5 DEF CallsOfOps
<1>7. StatusAgrees'
  <2> SUFFICES ASSUME ~overlapped
               PROVE  ~agent.deleted /\ q.version # NoVersion /\ Deployable(q.version)
    BY <1>2, <1>4 DEF StatusAgrees, Deployable, NoVersion
  <2>1. StillSo(r)
    BY <1>2 DEF IInv, Alone, InProgress
  <2>2. q.version # NoVersion
    BY <1>5, FS_CardinalityType DEF IInv, TypeOK, RowsAreOfAgent, NoVersion
  <2>3. QED
    BY <1>2, <1>6, <2>1, <2>2 DEF StillSo
<1>8. QED
  BY <1>1, <1>2, <1>4, <1>5, <1>6, <1>7, AgentWritten DEF RequestState

-----------------------------------------------------------------------------
(* Calls that write versions.                                              *)

(* A request that inserts a version answers for it.                        *)
LEMMA InsertKeeps ==
  ASSUME IInv, NEW r \in Request, NEW new \in RequestState, Step(r, new), NEW v \in Nat, NEW c \in Stored,
         v >= 1, v - 1 = 0 \/ v - 1 \in DOMAIN versions, MayInsert(v), Insert(v, c),
         UNCHANGED <<agent, attached, copies, dbErrors, overlapped>>, InProgress(r),
         new.op = req[r].op, new.op # "duplicate", new.commit = req[r].commit, new.status = req[r].status,
         new.version = v, CallsOfOps(new), ~Owns(req[r]),
         \/ new.pc = "over" /\ new.config = c
         \/ /\ req[r].pc = "insert" /\ new.pc = "override" /\ new.op = "rollback"
            /\ new.config = req[r].config /\ new.target = req[r].target
  PROVE  IInv'
<1>1. req'[r] = new
  BY Stepped DEF IInv
<1>2. Exists /\ v \notin DOMAIN versions
  BY DEF MayInsert
<1>3. v - 1 <= LastVersion
  BY LastIsTheNumber DEF IInv, RowsAreOfAgent
<1>4. /\ DOMAIN versions' = DOMAIN versions \cup {v} /\ IsFiniteSet(DOMAIN versions')
      /\ versions' \in [DOMAIN versions' -> Stored]
      /\ versions'[v] = c
      /\ \A w \in DOMAIN versions : versions'[w] = versions[w]
      /\ RowsAreOfAgent'
  BY <1>2, <1>3, InsertIsNext DEF IInv
<1>5. Exists' = Exists /\ agent' = agent /\ overlapped' = overlapped /\ copies' = copies
  BY DEF Exists
<1>6. StatusAgrees'
  <2> SUFFICES ASSUME Exists, ~overlapped, agent.deployed # NoVersion PROVE Deployable(agent.deployed)'
    BY <1>5 DEF IInv, StatusAgrees
  <2>1. Deployable(agent.deployed)
    BY DEF IInv, StatusAgrees
  <2>2. QED
    BY <1>4, <1>5, <2>1 DEF Deployable
<1>7. OwnVersionIsKept(r)'
  BY <1>1, <1>4 DEF OwnVersionIsKept
<1>8. CopyIsDue(r)'
  BY <1>1 DEF CopyIsDue
<1>9. ASSUME ~overlapped', InProgress(r)' PROVE StillSo(r)'
  <2>1. StillSo(r)
    BY <1>5, <1>9 DEF IInv, Alone
  <2>2. req[r].pc = "insert" /\ new.pc = "override" /\ new.op = "rollback"
        /\ new.config = req[r].config /\ new.target = req[r].target
    BY <1>1, <1>9 DEF InProgress
  <2>3. agent.deployed # v
    BY <1>2 DEF IInv, TypeOK, NoVersion
  <2>4. new.target \in DOMAIN versions /\ versions[new.target] = new.config
    BY <2>1, <2>2 DEF StillSo
  <2>5. new.target # v /\ new.target \in DOMAIN versions' /\ versions'[new.target] = new.config
    BY <1>2, <1>4, <2>4
  <2>6. QED
    BY <1>1, <1>5, <2>1, <2>2, <2>3, <2>5 DEF StillSo
<1>10. agent'.deployed \in DOMAIN versions' \cup {NoVersion}
  BY <1>4, <1>5 DEF IInv, TypeOK
<1>11. /\ agent'.row # "none" /\ overlapped' \in BOOLEAN
       /\ ~overlapped' => ~overlapped /\ \A q \in Request \ {r} : ~InProgress(q)
  BY <1>5, OthersRest
<1>12. new.pc # "idle"
  OBVIOUS
<1>13. DOMAIN versions \subseteq DOMAIN versions'
  BY <1>4
<1>14. agent' \in AgentRow /\ attached' \subseteq Attachment /\ copies' \in [Request -> Copy] /\ dbErrors' \in Nat
  BY <1>5 DEF IInv, TypeOK
<1>15. QED
  BY <1>2, <1>4, <1>5, <1>6, <1>7, <1>8, <1>9, <1>10, <1>11, <1>12, <1>13, <1>14, Assemble

LEMMA InsertsKeep ==
  ASSUME IInv, NEW r \in Request, InsertFirst(r) \/ InsertVersion(r)
  PROVE  IInv'
<1>1. req[r] \in RequestState /\ CallsOfOps(req[r]) /\ OwnVersionIsKept(r)
  BY DEF IInv, TypeOK
<1>2. ASSUME InsertFirst(r) PROVE IInv'
  <2> DEFINE new == [req[r] EXCEPT !.pc = "over", !.version = 1]
  <2>1. /\ new \in RequestState /\ new.pc = "over" /\ new.version = 1 /\ new.op = req[r].op
        /\ new.commit = req[r].commit /\ new.status = req[r].status /\ new.config = req[r].config
    BY <1>1 DEF RequestState, Label
  <2>2. /\ req[r].pc = "first" /\ MayInsert(1) /\ Insert(1, req[r].config) /\ Step(r, new)
        /\ UNCHANGED <<agent, attached, copies, dbErrors, overlapped>>
    BY <1>2 DEF InsertFirst
  <2> HIDE DEF new
  <2>3. req[r].op = "create" /\ CallsOfOps(new)
    BY <1>1, <2>1, <2>2 DEF CallsOfOps
  <2>4. ~Owns(req[r]) /\ InProgress(r)
    BY <2>2, <2>3 DEF Owns, InProgress
  <2>5. req[r].config \in Stored
    BY <1>1, <2>3 DEF CallsOfOps
  <2>6. QED
    BY <2>1, <2>2, <2>3, <2>4, <2>5, InsertKeeps
<1>3. ASSUME InsertVersion(r) PROVE IInv'
  <2> DEFINE v == req[r].last + 1
             new == Inserted(req[r])
  <2>1. /\ req[r].pc = "insert" /\ MayInsert(v) /\ Insert(v, req[r].kept) /\ Step(r, new)
        /\ UNCHANGED <<agent, attached, copies, dbErrors, overlapped>>
    BY <1>3 DEF InsertVersion
  <2>2. v \in Nat /\ v >= 1 /\ v - 1 = req[r].last /\ req[r].kept \in Stored
    BY <1>1 DEF RequestState
  <2> HIDE DEF v
  <2>3. /\ new \in RequestState /\ new.version = v /\ new.op = req[r].op
        /\ new.commit = req[r].commit /\ new.status = req[r].status /\ new.target = req[r].target
        /\ IF req[r].op = "rollback" THEN new.pc = "override" /\ new.config = req[r].config
                                     ELSE new.pc = "over" /\ new.config = req[r].kept
    <3>1. CASE req[r].op = "rollback"
      BY <1>1, <2>2, <3>1 DEF Inserted, RequestState, Label, v
    <3>2. CASE req[r].op # "rollback"
      BY <1>1, <2>2, <3>2 DEF Stored, Inserted, RequestState, Label, v
    <3>3. QED
      BY <3>1, <3>2
  <2> HIDE DEF new
  <2>4. req[r].op \in {"createVersion", "rollback", "update"} /\ CallsOfOps(new)
    BY <1>1, <2>1, <2>2, <2>3 DEF CallsOfOps
  <2>5. ~Owns(req[r]) /\ InProgress(r)
    BY <2>1 DEF Owns, InProgress
  <2>6. v - 1 = 0 \/ v - 1 \in DOMAIN versions
    BY <1>1, <2>1, <2>2 DEF OwnVersionIsKept, MayInsert
  <2>7. QED
    BY <2>1, <2>2, <2>3, <2>4, <2>5, <2>6, InsertKeeps
<1>4. QED
  BY <1>2, <1>3

LEMMA OverrideKeeps ==
  ASSUME IInv, NEW r \in Request, Override(r)
  PROVE  IInv'
<1> DEFINE new == [req[r] EXCEPT !.pc = "refind"]
<1>1. /\ new \in RequestState /\ new.pc = "refind" /\ new.op = req[r].op /\ new.commit = req[r].commit
      /\ new.version = req[r].version /\ new.config = req[r].config /\ new.status = req[r].status
      /\ new.target = req[r].target
  BY DEF IInv, TypeOK, RequestState, Label
<1>2. /\ req[r].pc = "override" /\ req[r].version \in DOMAIN versions /\ Step(r, new)
      /\ versions' = [versions EXCEPT ![req[r].version] = req[r].config]
      /\ UNCHANGED <<agent, attached, copies, dbErrors, overlapped>>
  BY DEF Override, Goto
<1> HIDE DEF new
<1>3. req'[r] = new /\ CallsOfOps(req[r]) /\ OwnVersionIsKept(r)
  BY <1>1, <1>2, Stepped DEF IInv
<1>4. req[r].op = "rollback" /\ Owns(req[r]) /\ CallsOfOps(new) /\ InProgress(r) /\ InProgress(r)'
  BY <1>1, <1>2, <1>3 DEF CallsOfOps, Owns, InProgress
<1>4a. req[r].config \in Stored
  BY <1>3, <1>4 DEF CallsOfOps
<1>5. /\ DOMAIN versions' = DOMAIN versions /\ versions' \in [DOMAIN versions' -> Stored]
      /\ versions'[req[r].version] = req[r].config
      /\ \A v \in DOMAIN versions : v # req[r].version => versions'[v] = versions[v]
  BY <1>2, <1>4a DEF IInv, TypeOK
<1>6. Exists' = Exists /\ RowsAreOfAgent' /\ agent' = agent /\ copies' = copies /\ overlapped' = overlapped
  BY <1>2, <1>5 DEF IInv, RowsAreOfAgent, Exists
<1>7. ~overlapped => StillSo(r)
  BY <1>4 DEF IInv, Alone
<1>8. StatusAgrees'
  <2> SUFFICES ASSUME Exists, ~overlapped, agent.deployed # NoVersion PROVE Deployable(agent.deployed)'
    BY <1>6 DEF IInv, StatusAgrees
  <2>1. agent.deployed # req[r].version /\ Deployable(agent.deployed)
    BY <1>2, <1>7 DEF StillSo, IInv, StatusAgrees
  <2>2. QED
    BY <1>5, <1>6, <2>1 DEF Deployable
<1>9. OwnVersionIsKept(r)' /\ CopyIsDue(r)'
  BY <1>1, <1>2, <1>3, <1>5, <1>6 DEF OwnVersionIsKept, CopyIsDue
<1>10. ~overlapped' => StillSo(r)'
  <2> SUFFICES ASSUME ~overlapped PROVE StillSo(r)'
    BY <1>6
  <2>1. /\ req[r].target \in DOMAIN versions /\ versions[req[r].target] = req[r].config
        /\ req[r].version # req[r].target /\ Exists /\ ~agent.deleted
    BY <1>2, <1>4, <1>7 DEF StillSo
  <2>2. QED
    BY <1>1, <1>3, <1>4, <1>5, <1>6, <2>1 DEF StillSo
<1>11. /\ agent'.row # "none" /\ overlapped' \in BOOLEAN
       /\ ~overlapped' => ~overlapped /\ \A q \in Request \ {r} : ~InProgress(q)
  BY <1>4, <1>6, OthersRest
<1>12. /\ agent' \in AgentRow /\ agent'.deployed \in DOMAIN versions' \cup {NoVersion} /\ IsFiniteSet(DOMAIN versions')
       /\ attached' \subseteq Attachment /\ copies' \in [Request -> Copy] /\ dbErrors' \in Nat
  BY <1>2, <1>5, <1>6 DEF IInv, TypeOK
<1>13. QED
  BY <1>1, <1>2, <1>4, <1>5, <1>6, <1>8, <1>9, <1>10, <1>11, <1>12, Assemble

(* With the agent goes all that a request could answer for.                *)
LEMMA DeleteKeeps ==
  ASSUME IInv, NEW r \in Request, Delete(r)
  PROVE  IInv'
<1> DEFINE new == [req[r] EXCEPT !.pc = "over"]
<1>1. /\ new \in RequestState /\ new.pc = "over" /\ new.op = req[r].op /\ new.commit = req[r].commit
      /\ new.status = req[r].status /\ new.config = req[r].config
  BY DEF IInv, TypeOK, RequestState, Label
<1>2. /\ req[r].pc = "delete" /\ Step(r, new)
      /\ agent' = [agent EXCEPT !.row = "gone", !.deployed = NoVersion]
      /\ versions' = [v \in {} |-> agent.config] /\ attached' = {}
      /\ UNCHANGED <<copies, dbErrors, overlapped>>
  BY DEF Delete, Goto
<1> HIDE DEF new
<1>3. req'[r] = new /\ CallsOfOps(req[r])
  BY <1>1, <1>2, Stepped DEF IInv
<1>4. req[r].op = "hardDelete" /\ CallsOfOps(new) /\ InProgress(r) /\ ~InProgress(r)'
  BY <1>1, <1>2, <1>3 DEF CallsOfOps, InProgress
<1>5. agent' \in AgentRow /\ agent'.row = "gone" /\ agent'.deployed = NoVersion /\ ~Exists'
  BY <1>2 DEF IInv, TypeOK, AgentRow, NoVersion, Exists
<1>6. DOMAIN versions' = {} /\ versions' \in [DOMAIN versions' -> Stored]
      /\ Cardinality(DOMAIN versions') = 0 /\ IsFiniteSet(DOMAIN versions')
  BY <1>2, FS_EmptySet
<1>7. RowsAreOfAgent' /\ StatusAgrees'
  <2>1. DOMAIN versions' = 1..Cardinality(DOMAIN versions')
    BY <1>6
  <2>2. QED
    BY <1>2, <1>5, <1>6, <2>1 DEF RowsAreOfAgent, StatusAgrees
<1>8. OwnVersionIsKept(r)' /\ CopyIsDue(r)'
  BY <1>1, <1>3, <1>4, <1>5 DEF OwnVersionIsKept, CopyIsDue
<1>9. /\ overlapped' \in BOOLEAN
      /\ ~overlapped' => ~overlapped /\ \A q \in Request \ {r} : ~InProgress(q)
  BY <1>2, <1>4, OthersRest
<1>10. copies' = copies /\ attached' \subseteq Attachment /\ copies' \in [Request -> Copy] /\ dbErrors' \in Nat
  BY <1>2 DEF IInv, TypeOK
<1>11. agent'.deployed \in DOMAIN versions' \cup {NoVersion} /\ agent'.row # "none"
  BY <1>5
<1>12. QED
  BY <1>1, <1>2, <1>4, <1>5, <1>6, <1>7, <1>8, <1>9, <1>10, <1>11, Assemble

-----------------------------------------------------------------------------
(* Calls that write what is attached, or the copy.                         *)

(* The agent and its versions are left alone.                              *)
LEMMA SidesWritten ==
  ASSUME IInv, NEW r \in Request, NEW label \in {"copyTools", "copyKnowledge", "copyVersion", "over"}, Goto(r, label),
         UNCHANGED <<agent, versions, dbErrors, overlapped>>,
         req[r].pc \in {"attach", "detach", "copy", "copyTools", "copyKnowledge", "copyVersion"},
         label # "over" => req[r].op = "duplicate",
         attached' \subseteq Attachment, ~Exists => attached' = {},
         copies' \in [Request -> Copy], \A q \in Request \ {r} : copies'[q] = copies[q],
         CopyIsDue(r)'
  PROVE  IInv'
<1> DEFINE new == [req[r] EXCEPT !.pc = label]
<1>1. /\ new \in RequestState /\ new.pc = label /\ new.op = req[r].op /\ new.commit = req[r].commit
      /\ new.status = req[r].status /\ new.config = req[r].config
  BY DEF IInv, TypeOK, RequestState, Label
<1>2. Step(r, new)
  BY DEF Goto
<1> HIDE DEF new
<1>3. req'[r] = new /\ CallsOfOps(req[r]) /\ InProgress(r)
  BY <1>1, <1>2, Stepped DEF IInv, InProgress
<1>4. CallsOfOps(new) /\ ~Owns(new)
  BY <1>1, <1>3 DEF CallsOfOps, Owns
<1>5. Exists' = Exists /\ RowsAreOfAgent' /\ StatusAgrees'
  BY DEF IInv, RowsAreOfAgent, StatusAgrees, Exists, Deployable
<1>6. OwnVersionIsKept(r)'
  BY <1>1, <1>3, <1>4 DEF OwnVersionIsKept
<1>7. ASSUME ~overlapped, InProgress(r)' PROVE StillSo(r)'
  <2>1. StillSo(r)
    BY <1>3, <1>7 DEF IInv, Alone
  <2>2. new.op = "duplicate"
    BY <1>1, <1>3, <1>7 DEF InProgress
  <2>3. QED
    BY <1>1, <1>3, <1>5, <2>1, <2>2 DEF StillSo
<1>8. /\ agent'.row # "none" /\ overlapped' \in BOOLEAN
      /\ ~overlapped' => ~overlapped /\ \A q \in Request \ {r} : ~InProgress(q)
  BY <1>3, OthersRest
<1>9. /\ agent' \in AgentRow /\ agent'.deployed \in DOMAIN versions' \cup {NoVersion}
      /\ versions' \in [DOMAIN versions' -> Stored] /\ IsFiniteSet(DOMAIN versions') /\ dbErrors' \in Nat
  BY DEF IInv, TypeOK
<1>10. QED
  BY <1>1, <1>2, <1>4, <1>5, <1>6, <1>7, <1>8, <1>9, Assemble

LEMMA AttachmentsKeep ==
  ASSUME IInv, NEW r \in Request, Attach(r) \/ Detach(r)
  PROVE  IInv'
<1>1. /\ req[r].pc \in {"attach", "detach"} /\ Goto(r, "over")
      /\ UNCHANGED <<agent, versions, copies, dbErrors, overlapped>>
      /\ (attached' = attached \cup req[r].things /\ Exists) \/ attached' = attached \ req[r].things
  BY DEF Attach, Detach
<1>2. req[r] \in RequestState /\ attached \subseteq Attachment /\ copies \in [Request -> Copy] /\ CallsOfOps(req[r])
  BY DEF IInv, TypeOK
<1>3. attached' \subseteq Attachment
  BY <1>1, <1>2 DEF RequestState
<1>4. ~Exists => attached' = {}
  BY <1>1 DEF IInv, RowsAreOfAgent
<1>5. CopyIsDue(r)'
  <2>1. req'[r].pc = "over" /\ req'[r].op = req[r].op
    BY <1>1, <1>2 DEF Goto, Step, IInv, TypeOK, RequestState
  <2>2. req[r].op # "duplicate"
    BY <1>1, <1>2 DEF CallsOfOps
  <2>3. QED
    BY <2>1, <2>2 DEF CopyIsDue
<1>6. QED
  BY <1>1, <1>2, <1>3, <1>4, <1>5, SidesWritten

LEMMA CopyingKeeps ==
  ASSUME IInv, NEW r \in Request, CopyAgent(r) \/ CopyTools(r) \/ CopyKnowledge(r) \/ CopyVersion(r)
  PROVE  IInv'
<1> DEFINE q == req[r]
<1>1. q \in RequestState /\ copies \in [Request -> Copy] /\ copies[r] \in Copy /\ CallsOfOps(q) /\ CopyIsDue(r)
      /\ attached \subseteq Attachment /\ (~Exists => attached = {})
  BY DEF IInv, TypeOK, RowsAreOfAgent
<1>2. q.things \subseteq Attachment /\ q.config \in Configuration
  BY <1>1 DEF RequestState
<1>3. ASSUME NEW label \in {"copy", "copyTools", "copyKnowledge", "copyVersion"},
             NEW next \in {"copyTools", "copyKnowledge", "copyVersion", "over"},
             NEW copy \in Copy, Copies(r, label, copy, next), copy.row, copy.config = q.config,
             next = "copyTools" => copy.attached = {} /\ ~copy.version,
             next = "copyKnowledge" => copy.attached = q.things \cap Tool /\ ~copy.version,
             next = "copyVersion" => copy.attached = q.things /\ ~copy.version,
             next = "over" => copy.attached = q.things /\ copy.version
      PROVE  IInv'
  <2>1. /\ q.pc = label /\ Goto(r, next) /\ UNCHANGED <<agent, versions, attached, dbErrors, overlapped>>
        /\ copies' = [copies EXCEPT ![r] = copy]
    BY <1>3 DEF Copies
  <2>2. copies' \in [Request -> Copy] /\ copies'[r] = copy
        /\ \A p \in Request \ {r} : copies'[p] = copies[p]
    BY <1>1, <2>1
  <2>3. q.op = "duplicate"
    BY <1>1, <2>1 DEF CallsOfOps
  <2>4. req'[r].pc = next /\ req'[r].config = q.config /\ req'[r].things = q.things
    BY <1>1, <2>1 DEF Goto, Step, IInv, TypeOK, RequestState
  <2>5. copy.version \in BOOLEAN
    BY DEF Copy
  <2>6. CopyIsDue(r)'
    BY <1>3, <2>2, <2>4, <2>5 DEF CopyIsDue, CopyHas
  <2>7. QED
    BY <1>1, <2>1, <2>2, <2>3, <2>6, SidesWritten
<1>4. CASE CopyAgent(r)
  <2> DEFINE copy == [NoCopy(q.config) EXCEPT !.row = TRUE]
  <2>1. copy \in Copy /\ copy.row /\ copy.config = q.config /\ copy.attached = {} /\ ~copy.version
    BY <1>2 DEF NoCopy, Copy
  <2>2. Copies(r, "copy", copy, "copyTools")
    BY <1>4 DEF CopyAgent
  <2> HIDE DEF copy
  <2>3. QED
    BY <1>3, <2>1, <2>2
<1>5. CASE CopyTools(r)
  <2> DEFINE copy == [copies[r] EXCEPT !.attached = @ \cup (q.things \cap Tool)]
  <2>1. CopyHas(r, {}, FALSE)
    BY <1>1, <1>5 DEF CopyTools, Copies, CopyIsDue
  <2>2. copy \in Copy /\ copy.row /\ copy.config = q.config /\ copy.attached = q.things \cap Tool /\ ~copy.version
    BY <1>1, <1>2, <2>1 DEF CopyHas, Copy
  <2>3. Copies(r, "copyTools", copy, "copyKnowledge")
    BY <1>5 DEF CopyTools
  <2> HIDE DEF copy
  <2>4. QED
    BY <1>3, <2>2, <2>3
<1>6. CASE CopyKnowledge(r)
  <2> DEFINE copy == [copies[r] EXCEPT !.attached = @ \cup (q.things \cap KnowledgeBase)]
  <2>1. CopyHas(r, q.things \cap Tool, FALSE)
    BY <1>1, <1>6 DEF CopyKnowledge, Copies, CopyIsDue
  <2>2. (q.things \cap Tool) \cup (q.things \cap KnowledgeBase) = q.things
    BY <1>2 DEF Attachment
  <2>3. copy \in Copy /\ copy.row /\ copy.config = q.config /\ copy.attached = q.things /\ ~copy.version
    BY <1>1, <1>2, <2>1, <2>2 DEF CopyHas, Copy
  <2>4. Copies(r, "copyKnowledge", copy, "copyVersion")
    BY <1>6 DEF CopyKnowledge
  <2> HIDE DEF copy
  <2>5. QED
    BY <1>3, <2>3, <2>4
<1>7. CASE CopyVersion(r)
  <2> DEFINE copy == [copies[r] EXCEPT !.version = TRUE]
  <2>1. CopyHas(r, q.things, FALSE)
    BY <1>1, <1>7 DEF CopyVersion, Copies, CopyIsDue
  <2>2. copy \in Copy /\ copy.row /\ copy.config = q.config /\ copy.attached = q.things /\ copy.version
    BY <1>1, <1>2, <2>1 DEF CopyHas, Copy
  <2>3. Copies(r, "copyVersion", copy, "over")
    BY <1>7 DEF CopyVersion
  <2> HIDE DEF copy
  <2>4. QED
    BY <1>3, <2>2, <2>3
<1>8. QED
  BY <1>4, <1>5, <1>6, <1>7

-----------------------------------------------------------------------------
(* The invariant.                                                          *)

LEMMA InitHolds == Init => IInv
<1> SUFFICES ASSUME Init PROVE IInv
  OBVIOUS
<1>1. PICK dto \in Config, created \in BOOLEAN :
        /\ agent = [Nobody(Defaulted(dto)) EXCEPT !.row = IF created THEN "present" ELSE "none"]
        /\ versions = [v \in IF created THEN {1} ELSE {} |-> Defaulted(dto)]
        /\ req = [r \in Request |-> Idle(Defaulted(dto))]
        /\ copies = [r \in Request |-> NoCopy(Defaulted(dto))]
  BY DEF Init
<1> DEFINE c == Defaulted(dto)
           row == IF created THEN "present" ELSE "none"
           numbers == IF created THEN {1} ELSE {}
<1>2. c \in Stored
  BY GivenIsTyped
<1>3. row \in {"present", "none"} /\ IsFiniteSet(numbers) /\ numbers = 1..Cardinality(numbers)
      /\ (row = "none" => numbers = {})
  <2>1. CASE created
    <3>1. Cardinality({1}) = 1 /\ IsFiniteSet({1})
      BY FS_Singleton
    <3>2. QED
      BY <2>1, <3>1
  <2>2. CASE ~created
    <3>1. IsFiniteSet({}) /\ Cardinality({}) = 0
      BY FS_EmptySet
    <3>2. QED
      BY <2>2, <3>1
  <2>3. QED
    BY <2>1, <2>2
<1>4. /\ agent = [Nobody(c) EXCEPT !.row = row] /\ versions = [v \in numbers |-> c]
      /\ req = [r \in Request |-> Idle(c)] /\ copies = [r \in Request |-> NoCopy(c)]
      /\ attached = {} /\ dbErrors = 0 /\ overlapped = FALSE
  BY <1>1 DEF Init
<1> HIDE DEF c, row, numbers
<1>5. /\ agent \in AgentRow /\ agent.row = row /\ agent.deployed = NoVersion /\ agent.status = "DRAFT"
      /\ ~agent.deleted
  BY <1>2, <1>3, <1>4 DEF Nobody, AgentRow, Status, NoVersion
<1>6. /\ req \in [Request -> RequestState] /\ copies \in [Request -> Copy]
      /\ \A r \in Request : req[r].pc = "idle" /\ req[r].op = "none" /\ ~req[r].commit /\ req[r].config \in Stored
  BY <1>2, <1>4, IdleIsTyped DEF Stored, Idle, NoCopy, Copy
<1>7. DOMAIN versions = numbers /\ versions \in [DOMAIN versions -> Stored]
  BY <1>2, <1>4
<1>8. TypeOK /\ RowsAreOfAgent /\ StatusAgrees /\ NothingBefore
  BY <1>3, <1>4, <1>5, <1>6, <1>7 DEF TypeOK, RowsAreOfAgent, StatusAgrees, NothingBefore, Exists
<1>9. OwnVersionsDiffer /\ Alone
  BY <1>6 DEF OwnVersionsDiffer, Owns, Alone, InProgress
<1>10. \A r \in Request : CallsOfOps(req[r]) /\ OwnVersionIsKept(r) /\ CopyIsDue(r)
  BY <1>6 DEF CallsOfOps, OwnVersionIsKept, CopyIsDue, Owns
<1>11. QED
  BY <1>8, <1>9, <1>10 DEF IInv

LEMMA NextKeeps == IInv /\ [Next]_vars => IInv'
<1> SUFFICES ASSUME IInv, [Next]_vars PROVE IInv'
  OBVIOUS
<1>1. CASE UNCHANGED vars
  BY ZenonT(40), <1>1 DEF vars, tables, IInv, TypeOK, RowsAreOfAgent, StatusAgrees, NothingBefore, OwnVersionsDiffer, Alone,
              StillSo, InProgress, OwnVersionIsKept, CopyIsDue, CopyHas, Exists, Deployable
<1>2. ASSUME NEW r \in Request, Begins(r) PROVE IInv'
  BY <1>2, BeginsKeep
<1>3. ASSUME NEW r \in Request, Continues(r) PROVE IInv'
  BY <1>3, WriteAgentKeeps, InsertsKeep, ReadsKeep, OverrideKeeps, DeployKeeps, DeleteKeeps, LookUpKeeps,
     AttachmentsKeep, CopyingKeeps, RefuseKeeps DEF Continues
<1>4. QED
  BY <1>1, <1>2, <1>3 DEF Next

LEMMA Inductive == Spec => []IInv
<1>1. QED
  BY InitHolds, NextKeeps, PTL DEF Spec

(* AgentsInv: the types of the rows; no version and no attachment is of an *)
(* agent that is gone; and as long as requests do not overlap, status,     *)
(* deletedAt and the pinned version agree (AgentsService, all operations). *)
THEOREM RowsAgree == Spec => []AgentsInv
<1>1. IInv => AgentsInv
  BY DEF IInv, AgentsInv
<1>2. QED
  BY <1>1, Inductive, PTL

(* CommittedKept: a version that a request was told it created keeps its   *)
(* configuration, for any number of requests that overlap in any way, and  *)
(* an answered duplicate is whole (createVersionInternal, rollback,        *)
(* duplicate).                                                             *)
THEOREM VersionsAreKept == Spec => []CommittedKept
<1>1. IInv => CommittedKept
  BY DEF IInv, CommittedKept, OwnVersionIsKept, Owns, CopyIsDue
<1>2. QED
  BY <1>1, Inductive, PTL

-----------------------------------------------------------------------------
(* The step that ends a rollback.                                          *)

LEMMA OneMoves ==
  ASSUME IInv, NEW q \in Request, Begins(q) \/ Continues(q)
  PROVE  \A r \in Request \ {q} : req'[r] = req[r]
<1>1. ASSUME NEW fields, Step(q, fields) PROVE \A r \in Request \ {q} : req'[r] = req[r]
  BY <1>1 DEF Step, IInv, TypeOK
<1>2. CASE Begins(q)
  BY <1>1, <1>2 DEF Begins, create, update, deployVersion, rollback, createVersion, Transition, undeploy, pause,
     resume, archive, restore, hardDelete, duplicate, cloneFromTemplate, Attaches, attachTool, attachKnowledge,
     detachTool, detachKnowledge, Begin
<1>3. CASE Continues(q)
  BY <1>1, <1>3 DEF Continues, WriteAgent, InsertFirst, ReadLast, ReadAgent, InsertVersion, ReadTarget, Override,
     FindAgain, ReadVersion, Deploy, Delete, LookUp, Attach, Detach, Copies, CopyAgent, CopyTools, CopyKnowledge,
     CopyVersion, Refuse, DbError, Goto
<1>4. QED
  BY <1>2, <1>3

LEMMA DeployEndsIt ==
  ASSUME IInv, NEW r \in Request, req[r].pc = "deploy", req'[r].pc = "over", Begins(r) \/ Continues(r)
  PROVE  Deploy(r)
<1>1. ~Begins(r)
  BY DEF Begins, create, update, deployVersion, rollback, createVersion, Transition, undeploy, pause,
     resume, archive, restore, hardDelete, duplicate, cloneFromTemplate, Attaches, attachTool, attachKnowledge,
     detachTool, detachKnowledge, Begin
<1>2. ~Goto(r, "failed")
  BY DEF Goto, Step, IInv, TypeOK, RequestState
<1>3. Continues(r)
  BY <1>1
<1>4. QED
  BY <1>2, <1>3 DEF Continues, WriteAgent, InsertFirst, ReadLast, ReadAgent, InsertVersion, ReadTarget, Override,
     FindAgain, ReadVersion, Delete, LookUp, Attach, Detach, Copies, CopyAgent, CopyTools, CopyKnowledge,
     CopyVersion, Refuse, DbError

(* RollbackRestores: a rollback that succeeds with nothing else going on   *)
(* has pinned a new version equal to its target, and the agent has its     *)
(* instructions (AgentsService.rollback).                                  *)
THEOREM RollbackIsExact == Spec => RollbackRestores
<1> DEFINE Restores ==
      \A r \in Request :
        /\ req[r].op = "rollback" /\ req[r].pc = "deploy" /\ req'[r].pc = "over" /\ ~overlapped
        => /\ agent'.deployed = req[r].version /\ req[r].version # req[r].target
           /\ versions[req[r].version] = versions[req[r].target]
           /\ agent'.config.systemInstructions = versions[req[r].target].systemInstructions
<1>1. IInv /\ [Next]_vars => [Restores]_vars
  <2> SUFFICES ASSUME IInv, Next, NEW r \in Request,
                      req[r].op = "rollback", req[r].pc = "deploy", req'[r].pc = "over", ~overlapped
               PROVE  /\ agent'.deployed = req[r].version /\ req[r].version # req[r].target
                      /\ versions[req[r].version] = versions[req[r].target]
                      /\ agent'.config.systemInstructions = versions[req[r].target].systemInstructions
    BY DEF vars
  <2>1. PICK q \in Request : Begins(q) \/ Continues(q)
    BY DEF Next
  <2>2. q = r
    BY <2>1, OneMoves
  <2>3. Deploy(r)
    BY <2>1, <2>2, DeployEndsIt
  <2>4. StillSo(r)
    BY DEF IInv, Alone, InProgress
  <2>5. /\ versions[req[r].version] = req[r].config /\ versions[req[r].target] = req[r].config
        /\ req[r].version # req[r].target
    BY <2>4 DEF StillSo
  <2>6. agent'.deployed = req[r].version /\ agent'.config = Merged(req[r].config, req[r].kept)
    BY <2>3 DEF Deploy, IInv, TypeOK, AgentRow
  <2>7. req[r].config.systemInstructions # Missing
    BY DEF IInv, CallsOfOps, Stored
  <2>8. QED
    BY <2>5, <2>6, <2>7 DEF Merged
<1>2. QED
  BY <1>1, Inductive, PTL DEF Spec, RollbackRestores

=============================================================================
