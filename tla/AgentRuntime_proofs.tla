------------------------ MODULE AgentRuntime_proofs ------------------------
(***************************************************************************)
(* Proofs about AgentRuntime with Quota and ToolExecutor: the cache and    *)
(* the refusals follow the usage rows, HIGH risk calls are held, rows of   *)
(* executions are truthful, and an answered run is whole.  And about       *)
(* ChatTurns with ProviderStreams: a stream is put together as it was cut  *)
(* up, every call of a turn has its result in its place, and so a provider *)
(* refuses a turn only for what it loaded.                                 *)
(***************************************************************************)
EXTENDS AgentRuntime, ChatTurns, FiniteSetTheorems, WellFoundedInduction, TLAPS

-----------------------------------------------------------------------------
(* The quota.                                                              *)

(* A row adds its tokens and takes none away.                              *)
LEMMA TokensGrow ==
  ASSUME IsFiniteSet(Tokens), NEW u, u.tokens \in Nat, usage' = usage \cup {u}
  PROVE  IsFiniteSet(Tokens') /\ Used \in Nat /\ Used' \in Nat /\ Used <= Used'
<1>1. Tokens' = Tokens \cup TokensOf(u)
  BY DEF Tokens
<1>2. IsFiniteSet(TokensOf(u))
  <2>1. IsFiniteSet({u}) /\ IsFiniteSet(1..u.tokens)
    <3>1. 1 \in Int /\ u.tokens \in Int
      OBVIOUS
    <3>2. QED
      BY <3>1, FS_Singleton, FS_Interval
  <2>2. QED
    BY <2>1, FS_Product DEF TokensOf
<1>3. IsFiniteSet(Tokens')
  BY <1>1, <1>2, FS_Union
<1>4. Tokens \in SUBSET Tokens'
  BY <1>1
<1>5. QED
  BY <1>3, <1>4, FS_Subset, FS_CardinalityType DEF Used

LEMMA UsedIsNat == ASSUME IsFiniteSet(Tokens) PROVE Used \in Nat
  BY FS_CardinalityType DEF Used

LEMMA ExceedsMore ==
  ASSUME NEW a \in Nat, NEW b \in Nat, a <= b, Exceeds(a)
  PROVE  Exceeds(b)
  BY QuotaAssumption DEF Exceeds

LEMMA CheckMoved ==
  ASSUME QuotaTypeOK, NEW r \in Run, NEW label \in CheckLabel, CheckGoto(r, label)
  PROVE  /\ check' \in [Run -> [pc : CheckLabel, used : Nat]]
         /\ check'[r].pc = label /\ check'[r].used = check[r].used
         /\ \A q \in Run \ {r} : check'[q] = check[q]
  BY DEF QuotaTypeOK, CheckGoto

LEMMA CheckDecided ==
  ASSUME QuotaTypeOK, NEW r \in Run, NEW used \in Nat, Decide(r, used)
  PROVE  /\ check' \in [Run -> [pc : CheckLabel, used : Nat]]
         /\ check'[r].pc \in {"allowed", "refused"}
         /\ check'[r].pc = "refused" => Exceeds(used)
         /\ \A q \in Run \ {r} : check'[q] = check[q]
  BY DEF QuotaTypeOK, Decide, CheckLabel

(* A step of one run that writes neither rows nor the cache.               *)
LEMMA QuotaQuiet ==
  ASSUME QuotaTypeOK, QuotaInv, NEW r \in Run, UNCHANGED <<usage, cache, overtaken>>,
         \A q \in Run \ {r} : check'[q] = check[q],
         check[r].pc \in {"invalidate", "notInvalidated"} =>
           check'[r].pc \in {"invalidate", "notInvalidated"},
         check'[r].pc = "fill" => check'[r].used = Used,
         check'[r].pc = "refused" => Exceeds(Used)
  PROVE  QuotaInv'
<1>1. Tokens' = Tokens /\ Used' = Used /\ Used \in Nat
  BY UsedIsNat DEF Tokens, Used, QuotaInv, SumsAreBehind
<1>2. CacheFollowsRows'
  BY <1>1 DEF QuotaInv, CacheFollowsRows
<1>3. SumsFollowRows'
  BY <1>1 DEF QuotaInv, SumsFollowRows, CheckAt
<1>4. SumsAreBehind'
  BY <1>1 DEF QuotaInv, SumsAreBehind, CheckAt
<1>5. RefusalsAreRight'
  BY <1>1 DEF QuotaInv, RefusalsAreRight, Exceeds
<1>6. QED
  BY <1>2, <1>3, <1>4, <1>5 DEF QuotaInv

LEMMA QuotaUnchanged ==
  ASSUME QuotaInv, UNCHANGED quotaVars
  PROVE  QuotaInv'
  BY DEF quotaVars, QuotaInv, CacheFollowsRows, SumsFollowRows, SumsAreBehind, RefusalsAreRight, CheckAt,
         Tokens, Used, Exceeds

LEMMA QuotaMoves ==
  ASSUME QuotaTypeOK, QuotaInv, NEW r \in Run,
         enforce(r) \/ Hit(r) \/ Miss(r) \/ Aggregate(r) \/ record(r) \/ RecordFails(r)
  PROVE  QuotaTypeOK' /\ QuotaInv'
<1>0. UNCHANGED <<usage, cache, overtaken>>
  BY DEF enforce, Hit, Miss, Aggregate, record, RecordFails
<1>1. CASE enforce(r) \/ Miss(r) \/ record(r) \/ RecordFails(r)
  <2>1. PICK label \in {"look", "sum", "insert", "notRecorded", "notInvalidated"} :
          /\ CheckGoto(r, label)
          /\ check[r].pc \in {"invalidate", "notInvalidated"} => label = "notInvalidated"
    BY <1>1 DEF enforce, Miss, record, RecordFails, CheckAt
  <2>2. label \in CheckLabel
    BY DEF CheckLabel
  <2>3. /\ check' \in [Run -> [pc : CheckLabel, used : Nat]] /\ check'[r].pc = label
        /\ \A q \in Run \ {r} : check'[q] = check[q]
    BY <2>1, <2>2, CheckMoved
  <2>4. QED
    BY <1>0, <2>1, <2>3, QuotaQuiet DEF QuotaTypeOK
<1>2. CASE Hit(r)
  <2>1. cache.set /\ CheckAt(r, "look") /\ Decide(r, cache.used) /\ cache.used \in Nat
    BY <1>2 DEF Hit, QuotaTypeOK
  <2>2. cache.used <= Used /\ Used \in Nat
    BY <2>1, UsedIsNat DEF QuotaInv, SumsAreBehind
  <2>3. /\ check' \in [Run -> [pc : CheckLabel, used : Nat]]
        /\ check'[r].pc \in {"allowed", "refused"}
        /\ check'[r].pc = "refused" => Exceeds(Used)
        /\ \A q \in Run \ {r} : check'[q] = check[q]
    BY <2>1, <2>2, CheckDecided, ExceedsMore
  <2>4. QED
    BY <1>0, <2>1, <2>3, QuotaQuiet DEF QuotaTypeOK, CheckAt
<1>3. CASE Aggregate(r)
  <2>1. Used \in Nat
    BY UsedIsNat DEF QuotaInv, SumsAreBehind
  <2>2. /\ check' \in [Run -> [pc : CheckLabel, used : Nat]]
        /\ check'[r].pc = "fill" /\ check'[r].used = Used /\ check[r].pc = "sum"
        /\ \A q \in Run \ {r} : check'[q] = check[q]
    BY <1>3, <2>1 DEF Aggregate, QuotaTypeOK, CheckLabel, CheckAt
  <2>3. QED
    BY <1>0, <2>2, QuotaQuiet DEF QuotaTypeOK
<1>4. QED
  BY <1>1, <1>2, <1>3

LEMMA FillStep ==
  ASSUME QuotaTypeOK, QuotaInv, NEW r \in Run, Fill(r)
  PROVE  QuotaTypeOK' /\ QuotaInv'
<1>1. /\ CheckAt(r, "fill") /\ check[r].used \in Nat
      /\ cache' = [set |-> TRUE, used |-> check[r].used, by |-> r]
      /\ Decide(r, check[r].used) /\ UNCHANGED <<usage, overtaken>>
  BY DEF Fill, QuotaTypeOK
<1>2. Tokens' = Tokens /\ Used' = Used /\ Used \in Nat
  BY <1>1, UsedIsNat DEF Tokens, Used, QuotaInv, SumsAreBehind
<1>3. (check[r].used = Used \/ r \in overtaken) /\ check[r].used <= Used
  BY <1>1 DEF QuotaInv, SumsFollowRows, SumsAreBehind
<1>4. /\ check' \in [Run -> [pc : CheckLabel, used : Nat]]
      /\ check'[r].pc \in {"allowed", "refused"}
      /\ check'[r].pc = "refused" => Exceeds(Used)
      /\ \A q \in Run \ {r} : check'[q] = check[q]
  BY <1>1, <1>2, <1>3, CheckDecided, ExceedsMore
<1>5. QuotaTypeOK'
  BY <1>1, <1>4 DEF QuotaTypeOK
<1>6. CacheFollowsRows'
  BY <1>1, <1>2, <1>3 DEF CacheFollowsRows
<1>7. SumsFollowRows' /\ SumsAreBehind' /\ RefusalsAreRight'
  BY <1>1, <1>2, <1>3, <1>4
     DEF QuotaInv, SumsFollowRows, SumsAreBehind, RefusalsAreRight, CheckAt, Exceeds
<1>8. QED
  BY <1>5, <1>6, <1>7 DEF QuotaInv

LEMMA CacheCleared ==
  ASSUME QuotaTypeOK, QuotaInv, NEW r \in Run, Expire \/ invalidate(r)
  PROVE  QuotaTypeOK' /\ QuotaInv'
<1>1. /\ cache' = [cache EXCEPT !.set = FALSE, !.used = 0] /\ UNCHANGED <<usage, overtaken>>
      /\ ~cache'.set
  BY DEF Expire, invalidate, QuotaTypeOK
<1>2. /\ check' \in [Run -> [pc : CheckLabel, used : Nat]]
      /\ \A q \in Run : check'[q].pc \in {"fill", "refused"} => check'[q] = check[q]
  <2>1. CASE Expire
    BY <2>1 DEF Expire, QuotaTypeOK
  <2>2. CASE invalidate(r)
    <3>1. "done" \in CheckLabel
      BY DEF CheckLabel
    <3>2. QED
      BY <2>2, <3>1, CheckMoved DEF invalidate
  <2>3. QED
    BY <2>1, <2>2
<1>3. Tokens' = Tokens /\ Used' = Used
  BY <1>1 DEF Tokens, Used
<1>4. QuotaTypeOK'
  BY <1>1, <1>2 DEF QuotaTypeOK
<1>5. CacheFollowsRows' /\ SumsFollowRows' /\ SumsAreBehind' /\ RefusalsAreRight'
  BY <1>1, <1>2, <1>3
     DEF QuotaInv, CacheFollowsRows, SumsFollowRows, SumsAreBehind, RefusalsAreRight, CheckAt, Exceeds
<1>6. QED
  BY <1>4, <1>5 DEF QuotaInv

LEMMA InsertStep ==
  ASSUME QuotaTypeOK, QuotaInv, NEW r \in Run, NEW tokens \in Nat \ {0}, InsertUsage(r, tokens)
  PROVE  QuotaTypeOK' /\ QuotaInv'
<1> DEFINE u == [by |-> r, tokens |-> tokens]
<1>1. /\ CheckAt(r, "insert") /\ usage' = usage \cup {u} /\ UNCHANGED cache
      /\ overtaken' = overtaken \cup {q \in Run : CheckAt(q, "fill")} /\ CheckGoto(r, "invalidate")
  BY DEF InsertUsage
<1>2. "invalidate" \in CheckLabel
  BY DEF CheckLabel
<1>3. /\ check' \in [Run -> [pc : CheckLabel, used : Nat]] /\ check'[r].pc = "invalidate"
      /\ \A q \in Run \ {r} : check'[q] = check[q]
  BY <1>1, <1>2, CheckMoved
<1>4. IsFiniteSet(Tokens') /\ Used \in Nat /\ Used' \in Nat /\ Used <= Used'
  <2>1. u.tokens \in Nat
    OBVIOUS
  <2> HIDE DEF u
  <2>2. QED
    BY <1>1, <2>1, TokensGrow DEF QuotaInv, SumsAreBehind
<1>5. QuotaTypeOK'
  BY <1>1, <1>3 DEF QuotaTypeOK
<1>6. CacheFollowsRows'
  BY <1>3 DEF CacheFollowsRows
<1>7. SumsFollowRows'
  BY <1>1, <1>3 DEF SumsFollowRows, CheckAt
<1>8. SumsAreBehind'
  <2>1. cache.used \in Nat /\ \A q \in Run : check[q].used \in Nat
    BY DEF QuotaTypeOK
  <2>2. QED
    BY <1>1, <1>3, <1>4, <2>1 DEF QuotaInv, SumsAreBehind, CheckAt
<1>9. RefusalsAreRight'
  <2> SUFFICES ASSUME NEW q \in Run, check'[q].pc = "refused" PROVE Exceeds(Used')
    BY DEF RefusalsAreRight, Exceeds
  <2>1. Exceeds(Used)
    BY <1>3 DEF QuotaInv, RefusalsAreRight
  <2>2. QED
    BY <2>1, <1>4, ExceedsMore
<1>10. QED
  BY <1>5, <1>6, <1>7, <1>8, <1>9 DEF QuotaInv

-----------------------------------------------------------------------------
(* The executor.                                                           *)

LEMMA ExecMoved ==
  ASSUME ToolTypeOK, NEW r \in Caller, NEW label \in ExecLabel, ExecGoto(r, label)
  PROVE  /\ exec' \in [Caller -> [pc : ExecLabel, id : Execution, requiresApproval : BOOLEAN]]
         /\ exec'[r].pc = label /\ exec'[r].id = exec[r].id
         /\ exec'[r].requiresApproval = exec[r].requiresApproval
         /\ \A q \in Caller \ {r} : exec'[q] = exec[q]
  BY DEF ToolTypeOK, ExecGoto

LEMMA ToolUnchanged ==
  ASSUME ToolTypeOK, ToolInv, UNCHANGED toolVars
  PROVE  ToolTypeOK' /\ ToolInv' /\ (RowsAreSingle => RowsAreSingle')
  BY DEF toolVars, ToolTypeOK, ToolInv, RowsAreSingle, HighRiskIsHeld, CompletedIsDone, RowsAreOfCalls,
         WritesAreDue, OneRowPerCall, RowsAreNew, NotYetARow, ExecAt

(* A run moves to a label at which nothing is due that was not before;     *)
(* tasks, rows and what handlers have done are as before.                  *)
LEMMA ExecQuiet ==
  ASSUME ToolTypeOK, ToolInv, NEW r \in Caller, NEW label \in ExecLabel, ExecGoto(r, label),
         UNCHANGED <<tasks, executions>>, effects \subseteq effects',
         effects' \subseteq Execution, handlers' \subseteq Execution,
         \A i \in handlers' \cup effects' : MayStart(i.call),
         label \notin {"resolve", "pendingRow", "pendingAudit"},
         label = "row" => exec[r].id \in effects'
  PROVE  /\ ToolTypeOK' /\ ToolInv'
         /\ (label \in {"fail", "task", "handle", "row", "failRow"} =>
               exec[r].pc \in {"resolve", "fail", "task", "pendingRow", "handle", "row", "failRow"})
            => (RowsAreSingle => RowsAreSingle')
<1>1. /\ exec' \in [Caller -> [pc : ExecLabel, id : Execution, requiresApproval : BOOLEAN]]
      /\ exec'[r].pc = label /\ exec'[r].id = exec[r].id
      /\ exec'[r].requiresApproval = exec[r].requiresApproval
      /\ \A q \in Caller \ {r} : exec'[q] = exec[q]
  BY ExecMoved
<1>2. ToolTypeOK'
  BY <1>1 DEF ToolTypeOK
<1>3. \A q \in Caller : exec'[q].id = exec[q].id /\ exec'[q].requiresApproval = exec[q].requiresApproval
  BY <1>1
<1>4. HighRiskIsHeld'
  BY <1>3 DEF ToolInv, HighRiskIsHeld
<1>5. CompletedIsDone'
  BY DEF ToolInv, CompletedIsDone
<1>6. RowsAreOfCalls'
  BY <1>3 DEF ToolInv, RowsAreOfCalls, ToolTypeOK, Execution
<1>7. WritesAreDue'
  BY <1>1, <1>3 DEF ToolInv, WritesAreDue, ExecAt
<1>8. ASSUME RowsAreSingle,
             label \in {"fail", "task", "handle", "row", "failRow"} =>
               exec[r].pc \in {"resolve", "fail", "task", "pendingRow", "handle", "row", "failRow"}
      PROVE  RowsAreSingle'
  BY <1>1, <1>3, <1>8 DEF RowsAreSingle, OneRowPerCall, RowsAreNew, NotYetARow
<1>9. QED
  BY <1>2, <1>4, <1>5, <1>6, <1>7, <1>8 DEF ToolInv

(* What Resolve lets a handler be started for is not HIGH risk.            *)
LEMMA ResolveStep ==
  ASSUME ToolTypeOK, ToolInv, NEW r \in Caller, Resolve(r)
  PROVE  ToolTypeOK' /\ ToolInv' /\ (RowsAreSingle => RowsAreSingle')
<1> DEFINE c == exec[r].id.call
<1>1. exec[r].id \in Execution /\ c \in Call /\ exec[r].pc = "resolve"
  BY DEF ToolTypeOK, Execution, Resolve, ExecAt
<1>2. PICK label \in {"threw", "fail", "task", "handle"} :
        /\ ExecGoto(r, label)
        /\ \/ UNCHANGED handlers
           \/ ~Refusal(c) /\ ~NeedsApproval(c) /\ handlers' = handlers \cup {exec[r].id}
  BY DEF Resolve
<1>3. ~Refusal(c) /\ ~NeedsApproval(c) => MayStart(c)
  BY DEF Refusal, NeedsApproval, Judged, Runs, MayStart
<1>4. UNCHANGED <<tasks, executions, effects>>
  BY DEF Resolve
<1>5. handlers' \subseteq Execution /\ effects' \subseteq Execution
  BY <1>1, <1>2, <1>4 DEF ToolTypeOK
<1>6. \A i \in handlers' \cup effects' : MayStart(i.call)
  BY <1>2, <1>3, <1>4 DEF ToolInv, HighRiskIsHeld
<1>7. label \in ExecLabel
  BY DEF ExecLabel
<1>8. QED
  BY <1>1, <1>2, <1>4, <1>5, <1>6, <1>7, ExecQuiet

(* The answer of a handler, or its timeout; the handler may be nobody's    *)
(* any more.                                                               *)
LEMMA SettleStep ==
  ASSUME ToolTypeOK, ToolInv, NEW r \in Caller, exec[r].pc = "handle",
         NEW label \in {"row", "audit", "failRow", "failAudit"}, ExecGoto(r, label),
         UNCHANGED <<tasks, executions>>, handlers' \subseteq handlers,
         effects \subseteq effects', effects' \subseteq effects \cup handlers,
         label = "row" => exec[r].id \in effects'
  PROVE  ToolTypeOK' /\ ToolInv' /\ (RowsAreSingle => RowsAreSingle')
<1>1. handlers' \subseteq Execution /\ effects' \subseteq Execution
  BY DEF ToolTypeOK
<1>2. \A i \in handlers' \cup effects' : MayStart(i.call)
  BY DEF ToolInv, HighRiskIsHeld
<1>3. label \in ExecLabel
  BY DEF ExecLabel
<1>4. QED
  BY <1>1, <1>2, <1>3, ExecQuiet

LEMMA HandlerSteps ==
  ASSUME ToolTypeOK, ToolInv, HandlerStep
  PROVE  ToolTypeOK' /\ ToolInv' /\ (RowsAreSingle => RowsAreSingle')
<1>1. PICK i \in handlers : HandlerAnswers(i) \/ HandlerThrows(i)
  BY DEF HandlerStep
<1>2. i \in Execution /\ i.by \in Caller
  BY DEF ToolTypeOK, Execution
<1>3. /\ handlers' \subseteq handlers /\ UNCHANGED <<tasks, executions>>
      /\ effects \subseteq effects' /\ effects' \subseteq effects \cup handlers
  BY <1>1 DEF HandlerAnswers, HandlerThrows
<1>4. CASE Awaited(i)
  <2>1. exec[i.by].pc = "handle" /\ exec[i.by].id = i
    BY <1>4 DEF Awaited, ExecAt
  <2>2. PICK label \in {"row", "audit", "failRow", "failAudit"} :
          ExecGoto(i.by, label) /\ (label = "row" => i \in effects')
    BY <1>1, <1>4 DEF HandlerAnswers, HandlerThrows
  <2>3. QED
    BY <1>2, <1>3, <2>1, <2>2, SettleStep
<1>5. CASE ~Awaited(i)
  <2>1. UNCHANGED exec
    BY <1>1, <1>5 DEF HandlerAnswers, HandlerThrows
  <2>2. ToolTypeOK'
    BY <1>3, <2>1 DEF ToolTypeOK
  <2>3. HighRiskIsHeld' /\ CompletedIsDone' /\ RowsAreOfCalls' /\ WritesAreDue'
    BY <1>3, <2>1
       DEF ToolInv, HighRiskIsHeld, CompletedIsDone, RowsAreOfCalls, WritesAreDue, ExecAt
  <2>4. RowsAreSingle => RowsAreSingle'
    BY <1>3, <2>1 DEF RowsAreSingle, OneRowPerCall, RowsAreNew, NotYetARow
  <2>5. QED
    BY <2>2, <2>3, <2>4 DEF ToolInv
<1>6. QED
  BY <1>4, <1>5

(* A row is written for the call that is under way.                        *)
LEMMA RowStep ==
  ASSUME ToolTypeOK, ToolInv, NEW r \in Caller, UNCHANGED <<tasks, handlers, effects>>,
         NEW status \in {"PENDING", "COMPLETED", "FAILED"}, recordExecutionRow(r, status),
         NEW label \in {"pendingAudit", "audit", "failAudit"}, ExecGoto(r, label),
         exec[r].pc \in {"pendingRow", "row", "failRow"},
         status = "PENDING" => exec[r].pc = "pendingRow",
         status = "COMPLETED" => exec[r].pc = "row",
         label = "pendingAudit" => status = "PENDING" /\ exec[r].pc = "pendingRow"
  PROVE  ToolTypeOK' /\ ToolInv' /\ (RowsAreSingle => RowsAreSingle')
<1> DEFINE row == [id |-> exec[r].id, status |-> status]
<1>1. /\ exec' \in [Caller -> [pc : ExecLabel, id : Execution, requiresApproval : BOOLEAN]]
      /\ exec'[r].pc = label /\ exec'[r].id = exec[r].id
      /\ exec'[r].requiresApproval = exec[r].requiresApproval
      /\ \A q \in Caller \ {r} : exec'[q] = exec[q]
  BY ExecMoved DEF ExecLabel
<1>2. /\ exec[r].id \in Execution /\ executions' = executions \cup {row}
      /\ exec[r].id.by = r /\ exec[r].id.n \in Nat
      /\ \A q \in Caller : exec[q].id.by = q
  BY DEF ToolTypeOK, recordExecutionRow, ToolInv, RowsAreOfCalls, Execution
<1>3. \A q \in Caller : exec'[q].id = exec[q].id /\ exec'[q].requiresApproval = exec[q].requiresApproval
  BY <1>1
<1>4. ToolTypeOK'
  BY <1>1, <1>2 DEF ToolTypeOK
<1>5. exec[r].pc = "pendingRow" => exec[r].id \in tasks
  BY DEF ToolInv, WritesAreDue
<1>6. exec[r].pc = "row" => exec[r].id \in effects
  BY DEF ToolInv, WritesAreDue, ExecAt
<1>7. HighRiskIsHeld'
  BY <1>2, <1>3, <1>5 DEF ToolInv, HighRiskIsHeld
<1>8. CompletedIsDone'
  BY <1>2, <1>6 DEF ToolInv, CompletedIsDone
<1>9. RowsAreOfCalls'
  <2>1. \A e \in executions : e.id.n <= exec[e.id.by].id.n /\ e.id.by \in Caller
    BY DEF ToolInv, RowsAreOfCalls, ToolTypeOK, Execution
  <2>2. \A e \in executions' : e.id.n <= exec[e.id.by].id.n /\ e.id.by \in Caller
    BY <1>2, <2>1
  <2>3. QED
    BY <1>2, <1>3, <2>2 DEF RowsAreOfCalls
<1>10. WritesAreDue'
  BY <1>1, <1>2, <1>3, <1>5 DEF ToolInv, WritesAreDue, ExecAt
<1>11. ASSUME RowsAreSingle PROVE RowsAreSingle'
  <2>1. \A e \in executions : e.id # exec[r].id
    BY <1>11 DEF RowsAreSingle, RowsAreNew, NotYetARow
  <2>2. OneRowPerCall'
    BY <1>11, <1>2, <2>1 DEF RowsAreSingle, OneRowPerCall
  <2>3. \A q \in Caller \ {r} : exec[q].id # exec[r].id
    BY <1>2
  <2>4. RowsAreNew'
    BY <1>11, <1>1, <1>2, <2>3 DEF RowsAreSingle, RowsAreNew, NotYetARow
  <2>5. QED
    BY <2>2, <2>4 DEF RowsAreSingle
<1>12. QED
  BY <1>4, <1>7, <1>8, <1>9, <1>10, <1>11 DEF ToolInv

LEMMA TaskStep ==
  ASSUME ToolTypeOK, ToolInv, NEW r \in Caller, createApprovalTask(r)
  PROVE  ToolTypeOK' /\ ToolInv' /\ (RowsAreSingle => RowsAreSingle')
<1>1. /\ exec' \in [Caller -> [pc : ExecLabel, id : Execution, requiresApproval : BOOLEAN]]
      /\ exec'[r].pc = "pendingRow" /\ exec'[r].id = exec[r].id
      /\ exec'[r].requiresApproval = exec[r].requiresApproval
      /\ \A q \in Caller \ {r} : exec'[q] = exec[q]
  BY ExecMoved DEF createApprovalTask, ExecLabel
<1>2. /\ tasks' = tasks \cup {exec[r].id} /\ UNCHANGED <<executions, handlers, effects>>
      /\ exec[r].pc = "task" /\ exec[r].id \in Execution
  BY DEF createApprovalTask, ExecAt, ToolTypeOK
<1>3. \A q \in Caller : exec'[q].id = exec[q].id /\ exec'[q].requiresApproval = exec[q].requiresApproval
  BY <1>1
<1>4. ToolTypeOK'
  BY <1>1, <1>2 DEF ToolTypeOK
<1>5. HighRiskIsHeld' /\ CompletedIsDone'
  BY <1>2, <1>3 DEF ToolInv, HighRiskIsHeld, CompletedIsDone
<1>6. RowsAreOfCalls'
  BY <1>2, <1>3 DEF ToolInv, RowsAreOfCalls, ToolTypeOK, Execution
<1>7. WritesAreDue'
  BY <1>1, <1>2, <1>3 DEF ToolInv, WritesAreDue, ExecAt
<1>8. RowsAreSingle => RowsAreSingle'
  BY <1>1, <1>2, <1>3 DEF RowsAreSingle, OneRowPerCall, RowsAreNew, NotYetARow
<1>9. QED
  BY <1>4, <1>5, <1>6, <1>7, <1>8 DEF ToolInv

(* The model is told that the call waits.                                  *)
LEMMA ToldStep ==
  ASSUME ToolTypeOK, ToolInv, NEW r \in Caller, PendingAudit(r)
  PROVE  ToolTypeOK' /\ ToolInv' /\ (RowsAreSingle => RowsAreSingle')
<1>1. /\ exec' \in [Caller -> [pc : ExecLabel, id : Execution, requiresApproval : BOOLEAN]]
      /\ exec'[r].pc = "answered" /\ exec'[r].id = exec[r].id
      /\ \A q \in Caller \ {r} : exec'[q] = exec[q]
  BY DEF PendingAudit, ToolTypeOK, ExecLabel
<1>2. UNCHANGED <<tasks, executions, handlers, effects>>
  BY DEF PendingAudit
<1>3. exec[r].id \in tasks /\ [id |-> exec[r].id, status |-> "PENDING"] \in executions
  BY DEF PendingAudit, ToolInv, WritesAreDue, ExecAt
<1>4. \A q \in Caller : exec'[q].id = exec[q].id
  BY <1>1
<1>5. ToolTypeOK'
  BY <1>1, <1>2 DEF ToolTypeOK
<1>6. HighRiskIsHeld'
  <2>1. ASSUME NEW q \in Caller, exec'[q].requiresApproval
        PROVE  exec'[q].id \in tasks' /\ [id |-> exec'[q].id, status |-> "PENDING"] \in executions'
    <3>1. CASE q = r
      BY <3>1, <1>1, <1>2, <1>3
    <3>2. CASE q # r
      BY <3>2, <2>1, <1>1, <1>2 DEF ToolInv, HighRiskIsHeld
    <3>3. QED
      BY <3>1, <3>2
  <2>2. QED
    BY <1>2, <2>1 DEF ToolInv, HighRiskIsHeld
<1>7. CompletedIsDone'
  BY <1>2 DEF ToolInv, CompletedIsDone
<1>8. RowsAreOfCalls'
  BY <1>2, <1>4 DEF ToolInv, RowsAreOfCalls, ToolTypeOK, Execution
<1>9. WritesAreDue'
  BY <1>1, <1>2 DEF ToolInv, WritesAreDue, ExecAt
<1>10. RowsAreSingle => RowsAreSingle'
  BY <1>1, <1>2, <1>4 DEF RowsAreSingle, OneRowPerCall, RowsAreNew, NotYetARow
<1>11. QED
  BY <1>5, <1>6, <1>7, <1>8, <1>9, <1>10 DEF ToolInv

(* A call ends, without a row that was not there.                          *)
LEMMA EndStep ==
  ASSUME ToolTypeOK, ToolInv, NEW r \in Caller, NEW label \in {"answered", "threw", "failRow", "failAudit"},
         ExecGoto(r, label), UNCHANGED <<tasks, executions, handlers, effects>>
  PROVE  ToolTypeOK' /\ ToolInv' /\ (label # "failRow" => (RowsAreSingle => RowsAreSingle'))
<1>1. handlers' \subseteq Execution /\ effects' \subseteq Execution
  BY DEF ToolTypeOK
<1>2. \A i \in handlers' \cup effects' : MayStart(i.call)
  BY DEF ToolInv, HighRiskIsHeld
<1>3. label \in ExecLabel
  BY DEF ExecLabel
<1>4. QED
  BY <1>1, <1>2, <1>3, ExecQuiet

LEMMA ExecSteps ==
  ASSUME ToolTypeOK, ToolInv, NEW r \in Caller, ExecStep(r)
  PROVE  ToolTypeOK' /\ ToolInv' /\ (RowsAreSingle => RowsAreSingle')
<1>1. CASE Resolve(r)
  BY <1>1, ResolveStep
<1>2. CASE recordFailure(r) \/ Audit(r)
  BY <1>2, EndStep DEF recordFailure, Audit
<1>3. CASE createApprovalTask(r)
  BY <1>3, TaskStep
<1>4. CASE PendingRow(r)
  BY <1>4, RowStep DEF PendingRow, ExecAt
<1>5. CASE PendingAudit(r)
  BY <1>5, ToldStep
<1>6. CASE Timeout(r)
  <2>1. PICK label \in {"failRow", "failAudit"} : ExecGoto(r, label)
    BY <1>6 DEF Timeout
  <2>2. QED
    BY <1>6, <2>1, SettleStep DEF Timeout, ExecAt
<1>7. CASE CompletedRow(r)
  BY <1>7, RowStep DEF CompletedRow, ExecAt
<1>8. CASE FailedRow(r)
  BY <1>8, RowStep DEF FailedRow, ExecAt
<1>9. QED
  BY <1>1, <1>2, <1>3, <1>4, <1>5, <1>6, <1>7, <1>8 DEF ExecStep

LEMMA RejectStep ==
  ASSUME ToolTypeOK, ToolInv, NEW r \in Caller, ExecRejects(r)
  PROVE  ToolTypeOK' /\ ToolInv'
<1>1. PICK label \in {"failRow", "failAudit", "threw"} : ExecGoto(r, label)
  BY DEF ExecRejects
<1>2. QED
  BY <1>1, EndStep DEF ExecRejects

(* A call has a number of its own.                                         *)
LEMMA ExecuteStep ==
  ASSUME ToolTypeOK, ToolInv, NEW r \in Caller, NEW c \in Call, execute(r, c)
  PROVE  ToolTypeOK' /\ ToolInv' /\ (RowsAreSingle => RowsAreSingle')
<1> DEFINE id == [by |-> r, n |-> exec[r].id.n + 1, call |-> c]
<1>1. exec[r].id.n \in Nat /\ id \in Execution
  BY DEF ToolTypeOK, Execution
<1>2. /\ exec' \in [Caller -> [pc : ExecLabel, id : Execution, requiresApproval : BOOLEAN]]
      /\ exec'[r] = [pc |-> "resolve", id |-> id, requiresApproval |-> FALSE]
      /\ \A q \in Caller \ {r} : exec'[q] = exec[q]
  BY <1>1 DEF execute, ToolTypeOK, ExecLabel
<1>3. UNCHANGED <<tasks, executions, handlers, effects>>
  BY DEF execute
<1>4. ToolTypeOK'
  BY <1>2, <1>3 DEF ToolTypeOK
<1>5. ~exec'[r].requiresApproval /\ exec'[r].id.by = r /\ exec'[r].id.n = exec[r].id.n + 1
  BY <1>2
<1>6. HighRiskIsHeld'
  BY <1>2, <1>3, <1>5 DEF ToolInv, HighRiskIsHeld
<1>7. CompletedIsDone'
  BY <1>3 DEF ToolInv, CompletedIsDone
<1>8. \A e \in executions : /\ e.id.n \in Nat /\ e.id.by \in Caller
                            /\ e.id.n <= exec[e.id.by].id.n
  BY DEF ToolTypeOK, Execution, ToolInv, RowsAreOfCalls
<1>9. RowsAreOfCalls'
  <2>1. \A e \in executions : e.id.n <= exec'[e.id.by].id.n
    BY <1>1, <1>2, <1>5, <1>8
  <2>2. \A q \in Caller : exec'[q].id.by = q
    BY <1>2, <1>5 DEF ToolInv, RowsAreOfCalls
  <2>3. QED
    BY <1>3, <2>1, <2>2 DEF RowsAreOfCalls
<1>10. WritesAreDue'
  BY <1>2, <1>3 DEF ToolInv, WritesAreDue, ExecAt
<1>11. RowsAreSingle => RowsAreSingle'
  <2>1. \A e \in executions : e.id # exec'[r].id
    BY <1>1, <1>5, <1>8
  <2>2. QED
    BY <1>2, <1>3, <2>1 DEF RowsAreSingle, OneRowPerCall, RowsAreNew, NotYetARow
<1>12. QED
  BY <1>4, <1>6, <1>7, <1>9, <1>10, <1>11 DEF ToolInv

-----------------------------------------------------------------------------
(* The run.                                                                *)

Roles == {"USER", "ASSISTANT"}

(* A message saved is one more row of its run and role, after all others.  *)
LEMMA Saved ==
  ASSUME messages \in Seq(Message), NEW r \in Run, NEW role \in Roles, Save(r, role)
  PROVE  /\ messages' \in Seq(Message) /\ Len(messages) \in Nat
         /\ Len(messages) + 1 \in DOMAIN messages'
         /\ RowsOf(r, role)' = RowsOf(r, role) \cup {Len(messages) + 1}
         /\ \A q \in Run, k \in Roles : q # r \/ k # role => RowsOf(q, k)' = RowsOf(q, k)
         /\ \A q \in Run, k \in Roles : \A i \in RowsOf(q, k) : i \in Nat /\ i < Len(messages) + 1
<1> DEFINE m == [role |-> role, by |-> r]
<1>1. m \in Message /\ messages' = Append(messages, m)
  BY DEF Save, Message, Roles
<1>2. /\ messages' \in Seq(Message) /\ Len(messages) \in Nat /\ Len(messages') = Len(messages) + 1
      /\ \A i \in 1..Len(messages) : messages'[i] = messages[i]
      /\ messages'[Len(messages) + 1] = m
      /\ DOMAIN messages = 1..Len(messages) /\ DOMAIN messages' = 1..(Len(messages) + 1)
  <2> HIDE DEF m
  <2>1. QED
    BY <1>1
<1>3. RowsOf(r, role)' = RowsOf(r, role) \cup {Len(messages) + 1}
  BY <1>2 DEF RowsOf
<1>4. ASSUME NEW q \in Run, NEW k \in Roles, q # r \/ k # role
      PROVE  RowsOf(q, k)' = RowsOf(q, k)
  <2>1. [role |-> k, by |-> q] # m
    BY <1>4
  <2>2. QED
    BY <1>2, <2>1 DEF RowsOf
<1>5. \A q \in Run, k \in Roles : \A i \in RowsOf(q, k) : i \in Nat /\ i < Len(messages) + 1
  BY <1>2 DEF RowsOf
<1>6. QED
  BY <1>2, <1>3, <1>4, <1>5

(* A step of one run leaves the others where they are.                     *)
LEMMA Assemble ==
  ASSUME IInv, NEW r \in Run, run' \in [Run -> RunState],
         \A q \in Run \ {r} : run'[q] = run[q] /\ check'[q] = check[q],
         messages' \in Seq(Message),
         \A q \in Run \ {r}, k \in Roles : RowsOf(q, k)' = RowsOf(q, k),
         \A q \in Run \ {r}, k \in Roles : \A i \in RowsOf(q, k) : i \in DOMAIN messages',
         faults' \in Nat, faults <= faults',
         usage \subseteq usage', \A u \in usage' \ usage : u.by = r,
         QuotaTypeOK', QuotaInv', ToolTypeOK', ToolInv',
         faults' = 0 => (RowsAreSingle => RowsAreSingle'),
         Progress(r)'
  PROVE  IInv'
<1>1. TypeOK' /\ faults \in Nat
  BY DEF IInv, TypeOK
<1>2. ASSUME NEW q \in Run, q # r PROVE Progress(q)'
  <2>1. /\ run'[q] = run[q] /\ check'[q] = check[q] /\ Progress(q)
        /\ RowsOf(q, "USER")' = RowsOf(q, "USER") /\ RowsOf(q, "ASSISTANT")' = RowsOf(q, "ASSISTANT")
    BY <1>2 DEF IInv, ProgressInv, Roles
  <2>2. QuotaKeepsPace(q)'
    BY <1>1, <2>1 DEF Progress, QuotaKeepsPace
  <2>3. NothingEarly(q)'
    BY <1>1, <1>2, <2>1 DEF Progress, NothingEarly, Answered, At
  <2>4. MessagesInOrder(q)'
    <3>1. \A i \in RowsOf(q, "ASSISTANT") : i \in DOMAIN messages'
      BY <1>2 DEF Roles
    <3>2. QED
      BY <2>1, <3>1 DEF Progress, MessagesInOrder, Answered
  <2>5. UsageIsWhole(q)'
    BY <1>1, <2>1 DEF Progress, UsageIsWhole
  <2>6. QED
    BY <2>2, <2>3, <2>4, <2>5 DEF Progress
<1>3. ProgressInv'
  BY <1>2 DEF ProgressInv
<1>4. faults' = 0 => RowsAreSingle'
  BY <1>1 DEF IInv
<1>5. QED
  BY <1>1, <1>3, <1>4 DEF IInv

(* A step of the run alone, which saves no message.                        *)
LEMMA AloneStep ==
  ASSUME IInv, NEW r \in Run, NEW new \in RunState, Step(r, new), UNCHANGED messages, Alone, Progress(r)'
  PROVE  IInv'
<1>1. /\ run' \in [Run -> RunState] /\ \A q \in Run \ {r} : run'[q] = run[q] /\ check'[q] = check[q]
      /\ messages' \in Seq(Message) /\ faults' \in Nat /\ faults <= faults' /\ usage' = usage
  BY DEF IInv, TypeOK, Step, Alone, quotaVars
<1>2. \A q \in Run, k \in Roles : RowsOf(q, k)' = RowsOf(q, k) /\ \A i \in RowsOf(q, k) : i \in DOMAIN messages'
  BY DEF RowsOf
<1>3. QuotaTypeOK' /\ QuotaInv'
  BY QuotaUnchanged DEF IInv, TypeOK, Alone, QuotaTypeOK, quotaVars
<1>4. ToolTypeOK' /\ ToolInv' /\ (RowsAreSingle => RowsAreSingle')
  BY ToolUnchanged DEF IInv, TypeOK, Alone
<1>5. QED
  BY <1>1, <1>2, <1>3, <1>4, Assemble

(* One that saves a message of the run.                                    *)
LEMMA SaveStep ==
  ASSUME IInv, NEW r \in Run, NEW new \in RunState, Step(r, new), NEW role \in Roles, Save(r, role), Alone,
         Progress(r)'
  PROVE  IInv'
<1>1. /\ run' \in [Run -> RunState] /\ \A q \in Run \ {r} : run'[q] = run[q] /\ check'[q] = check[q]
      /\ faults' \in Nat /\ faults <= faults' /\ usage' = usage /\ messages \in Seq(Message)
  BY DEF IInv, TypeOK, Step, Alone, quotaVars
<1>2. /\ messages' \in Seq(Message)
      /\ \A q \in Run \ {r}, k \in Roles : RowsOf(q, k)' = RowsOf(q, k)
  BY <1>1, Saved
<1>3. \A q \in Run \ {r}, k \in Roles : \A i \in RowsOf(q, k) : i \in DOMAIN messages'
  BY <1>2 DEF RowsOf
<1>4. QuotaTypeOK' /\ QuotaInv'
  BY QuotaUnchanged DEF IInv, TypeOK, Alone, QuotaTypeOK, quotaVars
<1>5. ToolTypeOK' /\ ToolInv' /\ (RowsAreSingle => RowsAreSingle')
  BY ToolUnchanged DEF IInv, TypeOK, Alone
<1>6. QED
  BY <1>1, <1>2, <1>3, <1>4, <1>5, Assemble

(* What a step of the run alone has to show for itself.                    *)
LEMMA AloneMoves ==
  ASSUME IInv, NEW r \in Run, NEW new \in RunState, Step(r, new), UNCHANGED messages, Alone
  PROVE  /\ run'[r] = new /\ check'[r] = check[r] /\ faults' = faults /\ faults \in Nat /\ usage' = usage
         /\ \A k \in Roles : RowsOf(r, k)' = RowsOf(r, k)
         /\ DOMAIN messages' = DOMAIN messages
         /\ run[r] \in RunState
         /\ QuotaKeepsPace(r) /\ NothingEarly(r) /\ MessagesInOrder(r) /\ UsageIsWhole(r)
<1>1. run[r] \in RunState /\ faults \in Nat
  BY DEF IInv, TypeOK
<1>2. Progress(r)
  BY DEF IInv, ProgressInv
<1>3. run'[r] = new
  BY DEF IInv, TypeOK, Step
<1>4. \A k \in Roles : RowsOf(r, k)' = RowsOf(r, k)
  BY DEF RowsOf
<1>5. QED
  BY <1>1, <1>2, <1>3, <1>4 DEF Alone, quotaVars, Progress

LEMMA BeginStep ==
  ASSUME IInv, NEW r \in Run, NEW via \in Route[r], begin(r, via)
  PROVE  IInv'
<1> DEFINE new == [run[r] EXCEPT !.via = via, !.pc = IF via = "conversation" THEN "send" ELSE "load"]
<1>1. run[r] \in RunState /\ run[r].pc = "idle" /\ via \in Via
  BY RuntimeAssumption DEF IInv, TypeOK, begin, At
<1>2. /\ new \in RunState /\ new.pc \in {"send", "load"}
      /\ new.tokens = run[r].tokens
  BY <1>1 DEF RunState, RunLabel
<1>3. Step(r, new) /\ UNCHANGED messages /\ Alone
  BY DEF begin
<1> HIDE DEF new
<1>4. /\ run'[r] = new /\ check'[r] = check[r] /\ faults' = faults /\ faults \in Nat /\ usage' = usage
      /\ RowsOf(r, "USER")' = RowsOf(r, "USER") /\ RowsOf(r, "ASSISTANT")' = RowsOf(r, "ASSISTANT")
      /\ DOMAIN messages' = DOMAIN messages
      /\ QuotaKeepsPace(r) /\ NothingEarly(r) /\ MessagesInOrder(r) /\ UsageIsWhole(r)
  BY <1>2, <1>3, AloneMoves DEF Roles
<1>5. QuotaKeepsPace(r)'
  BY <1>1, <1>2, <1>4 DEF QuotaKeepsPace, At
<1>6. NothingEarly(r)'
  BY <1>1, <1>2, <1>4 DEF QuotaKeepsPace, NothingEarly, Answered, At
<1>7. MessagesInOrder(r)'
  BY <1>1, <1>2, <1>4 DEF MessagesInOrder, Answered, At
<1>8. UsageIsWhole(r)'
  BY <1>1, <1>2, <1>4 DEF QuotaKeepsPace, UsageIsWhole, At
<1>9. QED
  BY <1>2, <1>3, <1>5, <1>6, <1>7, <1>8, AloneStep DEF Progress

(* The run moves to another label, no message is saved.                    *)
LEMMA GotoStep ==
  ASSUME IInv, NEW r \in Run, NEW label \in RunLabel, Goto(r, label), UNCHANGED messages, Alone,
         \/ At(r, "load") /\ label = "refused"
         \/ At(r, "quota") /\ check[r].pc = "allowed" /\ label = "user"
         \/ At(r, "quota") /\ check[r].pc = "refused" /\ label = "refused"
         \/ At(r, "user") /\ run[r].via = "test" /\ label = "model"
         \/ At(r, "user") /\ run[r].via = "workflow" /\ label = "rejected"
         \/ At(r, "model") /\ label = "assistant"
         \/ At(r, "tool") /\ run[r].calls # <<>> /\ label = "tools"
         \/ At(r, "tool") /\ label \in {"assistant", "rejected"}
         \/ At(r, "assistant") /\ run[r].via = "test" /\ label = "finish"
         \/ At(r, "usage") /\ run[r].tokens = 0 /\ label = "finish"
         \/ /\ At(r, "recording") /\ check[r].pc \in {"done", "notRecorded", "notInvalidated"}
            /\ label = "finish"
         \/ At(r, "finish") /\ label = "over"
  PROVE  IInv'
<1> DEFINE new == [run[r] EXCEPT !.pc = label]
<1>1. run[r] \in RunState
  BY DEF IInv, TypeOK
<1>2. /\ new \in RunState /\ new.pc = label /\ new.via = run[r].via
      /\ new.tokens = run[r].tokens /\ new.calls = run[r].calls
  BY <1>1 DEF RunState
<1>3. Step(r, new)
  BY DEF Goto
<1> HIDE DEF new
<1>4. /\ run'[r] = new /\ check'[r] = check[r] /\ faults' = faults /\ faults \in Nat /\ usage' = usage
      /\ RowsOf(r, "USER")' = RowsOf(r, "USER") /\ RowsOf(r, "ASSISTANT")' = RowsOf(r, "ASSISTANT")
      /\ DOMAIN messages' = DOMAIN messages
      /\ QuotaKeepsPace(r) /\ NothingEarly(r) /\ MessagesInOrder(r) /\ UsageIsWhole(r)
  BY <1>2, <1>3, AloneMoves DEF Roles
<1>5. QuotaKeepsPace(r)'
  BY <1>2, <1>4 DEF QuotaKeepsPace, At
<1>6. NothingEarly(r)'
  BY <1>2, <1>4 DEF QuotaKeepsPace, NothingEarly, Answered, At
<1>7. MessagesInOrder(r)'
  BY <1>2, <1>4 DEF MessagesInOrder, Answered, At
<1>8. UsageIsWhole(r)'
  BY <1>2, <1>4 DEF QuotaKeepsPace, UsageIsWhole, At
<1>9. QED
  BY <1>2, <1>3, <1>5, <1>6, <1>7, <1>8, AloneStep DEF Progress

(* A message is saved: of the user on the way to the model, or the answer. *)
LEMMA SavingStep ==
  ASSUME IInv, NEW r \in Run, NEW label \in RunLabel, Goto(r, label), NEW role \in Roles, Save(r, role), Alone,
         \/ At(r, "send") /\ role = "USER" /\ label = "load"
         \/ At(r, "user") /\ run[r].via # "test" /\ role = "USER" /\ label = "model"
         \/ At(r, "assistant") /\ run[r].via # "test" /\ role = "ASSISTANT" /\ label = "usage"
  PROVE  IInv'
<1> DEFINE new == [run[r] EXCEPT !.pc = label]
           last == Len(messages) + 1
<1>1. run[r] \in RunState /\ faults \in Nat /\ messages \in Seq(Message) /\ Progress(r)
  BY DEF IInv, TypeOK, ProgressInv
<1>2. /\ new \in RunState /\ new.pc = label /\ new.via = run[r].via
      /\ new.tokens = run[r].tokens /\ new.calls = run[r].calls
  BY <1>1 DEF RunState
<1>3. Step(r, new)
  BY DEF Goto
<1> HIDE DEF new
<1>4. /\ run'[r] = new /\ check'[r] = check[r] /\ faults' = faults /\ usage' = usage
      /\ QuotaKeepsPace(r) /\ NothingEarly(r) /\ MessagesInOrder(r) /\ UsageIsWhole(r)
  BY <1>1, <1>3 DEF Step, Alone, quotaVars, Progress, IInv, TypeOK
<1>5. /\ last \in DOMAIN messages'
      /\ RowsOf(r, role)' = RowsOf(r, role) \cup {last}
      /\ \A k \in Roles : k # role => RowsOf(r, k)' = RowsOf(r, k)
      /\ \A k \in Roles : \A i \in RowsOf(r, k) : i \in Nat /\ i < last
  BY <1>1, Saved
<1> HIDE DEF last
<1>6. QuotaKeepsPace(r)'
  BY <1>2, <1>4 DEF QuotaKeepsPace, At
<1>7. NothingEarly(r)'
  BY <1>2, <1>4, <1>5 DEF QuotaKeepsPace, NothingEarly, Answered, At, Roles
<1>8. MessagesInOrder(r)'
  <2>1. CASE role = "USER"
    BY <2>1, <1>2, <1>4, <1>5 DEF MessagesInOrder, Answered, At, Roles
  <2>2. CASE role = "ASSISTANT"
    <3>1. RowsOf(r, "ASSISTANT") = {} /\ RowsOf(r, "USER") # {} /\ label = "usage"
      BY <2>2, <1>4 DEF NothingEarly, MessagesInOrder, Answered, At
    <3>2. RowsOf(r, "ASSISTANT")' = {last} /\ RowsOf(r, "USER")' = RowsOf(r, "USER")
      BY <2>2, <3>1, <1>5 DEF Roles
    <3>3. QED
      BY <3>1, <3>2, <1>5 DEF MessagesInOrder, Roles
  <2>3. QED
    BY <2>1, <2>2 DEF Roles
<1>9. UsageIsWhole(r)'
  BY <1>2, <1>4 DEF QuotaKeepsPace, UsageIsWhole, At
<1>10. QED
  BY <1>2, <1>3, <1>6, <1>7, <1>8, <1>9, SaveStep DEF Progress

(* An answer of the model, or the next iteration of the loop.              *)
LEMMA LoopStep ==
  ASSUME IInv, NEW r \in Run, NEW new \in RunState, Step(r, new), UNCHANGED messages, Alone,
         new.via = run[r].via,
         \/ At(r, "model") /\ new.pc = "assistant"
         \/ At(r, "model") /\ new.pc = "tools" /\ new.calls # <<>>
         \/ At(r, "tool") /\ new.pc = "model"
  PROVE  IInv'
<1>1. /\ run'[r] = new /\ check'[r] = check[r] /\ faults' = faults /\ faults \in Nat /\ usage' = usage
      /\ RowsOf(r, "USER")' = RowsOf(r, "USER") /\ RowsOf(r, "ASSISTANT")' = RowsOf(r, "ASSISTANT")
      /\ DOMAIN messages' = DOMAIN messages
      /\ QuotaKeepsPace(r) /\ NothingEarly(r) /\ MessagesInOrder(r) /\ UsageIsWhole(r)
  BY AloneMoves DEF Roles
<1>2. QuotaKeepsPace(r)'
  BY <1>1 DEF QuotaKeepsPace, At
<1>3. NothingEarly(r)'
  BY <1>1 DEF QuotaKeepsPace, NothingEarly, Answered, At
<1>4. MessagesInOrder(r)'
  BY <1>1 DEF MessagesInOrder, Answered, At
<1>5. UsageIsWhole(r)'
  BY <1>1 DEF QuotaKeepsPace, UsageIsWhole, At
<1>6. QED
  BY <1>2, <1>3, <1>4, <1>5, AloneStep DEF Progress

LEMMA NewIteration ==
  ASSUME NEW s \in RunState, NEW i \in 0..(MaxIterations - 1)
  PROVE  LET n == [s EXCEPT !.pc = "model", !.iteration = i] IN
         n \in RunState /\ n.via = s.via /\ n.pc = "model"
  BY DEF RunState, RunLabel

LEMMA ModelStep ==
  ASSUME IInv, NEW r \in Run, Model(r)
  PROVE  IInv'
<1>1. run[r] \in RunState
  BY DEF IInv, TypeOK
<1>2. CASE Goto(r, "assistant")
  BY <1>2, GotoStep DEF Model, RunLabel
<1>3. CASE ~Goto(r, "assistant")
  <2>1. PICK a \in Response[r][run[r].iteration] :
          Step(r, [run[r] EXCEPT !.pc = IF a.calls = <<>> THEN "assistant" ELSE "tools",
                                 !.calls = a.calls, !.tokens = @ + a.tokens])
    BY <1>3 DEF Model
  <2>2. a \in [calls : Seq(Call), tokens : Nat]
    BY <1>1, RuntimeAssumption DEF RunState
  <2> DEFINE l == IF a.calls = <<>> THEN "assistant" ELSE "tools"
             t == run[r].tokens + a.tokens
             new == [run[r] EXCEPT !.pc = l, !.calls = a.calls, !.tokens = t]
  <2>3. /\ new \in RunState /\ new.via = run[r].via
        /\ new.pc = "assistant" \/ (new.pc = "tools" /\ new.calls # <<>>)
    <3>1. a.calls \in Seq(Call) /\ t \in Nat
      BY <1>1, <2>2 DEF RunState
    <3>2. l \in {"assistant", "tools"} /\ (l = "tools" => a.calls # <<>>)
      OBVIOUS
    <3> HIDE DEF l, t
    <3>3. /\ new \in RunState /\ new.via = run[r].via /\ new.pc = l /\ new.calls = a.calls
      BY <1>1, <3>1, <3>2 DEF RunState, RunLabel
    <3>4. QED
      BY <3>2, <3>3
  <2>4. At(r, "model") /\ UNCHANGED messages /\ Alone /\ Step(r, new)
    BY <2>1 DEF Model
  <2> HIDE DEF new
  <2>5. QED
    BY <2>3, <2>4, LoopStep
<1>4. QED
  BY <1>2, <1>3

LEMMA ToolAnsweredStep ==
  ASSUME IInv, NEW r \in Run, ToolAnswered(r)
  PROVE  IInv'
<1>1. run[r] \in RunState /\ MaxIterations \in Nat
  BY RuntimeAssumption DEF IInv, TypeOK
<1>2. CASE run[r].calls # <<>> /\ Goto(r, "tools")
  BY <1>2, GotoStep DEF ToolAnswered, RunLabel
<1>3. CASE Goto(r, "assistant")
  BY <1>3, GotoStep DEF ToolAnswered, RunLabel
<1>4. CASE /\ run[r].iteration + 1 < MaxIterations
           /\ Step(r, [run[r] EXCEPT !.pc = "model", !.iteration = @ + 1])
  <2> DEFINE new == [run[r] EXCEPT !.pc = "model", !.iteration = @ + 1]
  <2>1. new \in RunState /\ new.via = run[r].via /\ new.pc = "model"
    <3>1. run[r].iteration + 1 \in 0..(MaxIterations - 1)
      BY <1>1, <1>4 DEF RunState
    <3>2. QED
      BY <1>1, <3>1, NewIteration
  <2>2. At(r, "tool") /\ UNCHANGED messages /\ Alone /\ Step(r, new)
    BY <1>4 DEF ToolAnswered
  <2> HIDE DEF new
  <2>3. QED
    BY <2>1, <2>2, LoopStep
<1>5. QED
  BY <1>2, <1>3, <1>4 DEF ToolAnswered

(* Steps of the run that are steps of the quota as well.                   *)

(* Where enforce and record may go; a row is added only by the insert.     *)
LEMMA QuotaSteps ==
  ASSUME IInv, NEW r \in Run, QuotaStep(r)
  PROVE  /\ QuotaTypeOK' /\ QuotaInv' /\ usage' = usage
         /\ \A q \in Run \ {r} : check'[q] = check[q]
         /\ \/ /\ check[r].pc \in {"look", "sum", "fill"}
               /\ check'[r].pc \in {"sum", "fill", "allowed", "refused"}
            \/ check[r].pc = "invalidate" /\ check'[r].pc = "done"
<1>1. QuotaTypeOK /\ QuotaInv
  BY DEF IInv, TypeOK
<1>2. QuotaTypeOK' /\ QuotaInv'
  BY <1>1, QuotaMoves, FillStep, CacheCleared DEF QuotaStep
<1>3. CASE Miss(r) \/ Aggregate(r) \/ invalidate(r)
  BY <1>1, <1>2, <1>3 DEF Miss, Aggregate, invalidate, CheckAt, CheckGoto, QuotaTypeOK
<1>4. CASE Hit(r) \/ Fill(r)
  <2>1. PICK used \in Nat : Decide(r, used)
    BY <1>1, <1>4 DEF Hit, Fill, QuotaTypeOK
  <2>2. /\ check'[r].pc \in {"allowed", "refused"} /\ \A q \in Run \ {r} : check'[q] = check[q]
    BY <1>1, <2>1, CheckDecided
  <2>3. QED
    BY <1>2, <1>4, <2>2 DEF Hit, Fill, CheckAt
<1>5. QED
  BY <1>3, <1>4 DEF QuotaStep

(* A step of the run with its quota, which saves no message.               *)
LEMMA WithQuota ==
  ASSUME IInv, NEW r \in Run, run' \in [Run -> RunState],
         \A q \in Run \ {r} : run'[q] = run[q] /\ check'[q] = check[q],
         UNCHANGED <<messages, toolVars>>, faults' \in Nat, faults <= faults',
         usage \subseteq usage', \A u \in usage' \ usage : u.by = r,
         QuotaTypeOK', QuotaInv', Progress(r)'
  PROVE  IInv'
<1>1. messages' \in Seq(Message)
  BY DEF IInv, TypeOK
<1>2. \A q \in Run, k \in Roles : RowsOf(q, k)' = RowsOf(q, k) /\ \A i \in RowsOf(q, k) : i \in DOMAIN messages'
  BY DEF RowsOf
<1>3. ToolTypeOK' /\ ToolInv' /\ (RowsAreSingle => RowsAreSingle')
  BY ToolUnchanged DEF IInv, TypeOK
<1>4. QED
  BY <1>1, <1>2, <1>3, Assemble

(* What is known of the run that moves.                                    *)
LEMMA Known ==
  ASSUME IInv, NEW r \in Run, UNCHANGED messages
  PROVE  /\ run[r] \in RunState /\ faults \in Nat
         /\ RowsOf(r, "USER")' = RowsOf(r, "USER") /\ RowsOf(r, "ASSISTANT")' = RowsOf(r, "ASSISTANT")
         /\ DOMAIN messages' = DOMAIN messages
         /\ QuotaKeepsPace(r) /\ NothingEarly(r) /\ MessagesInOrder(r) /\ UsageIsWhole(r)
  BY DEF IInv, TypeOK, ProgressInv, Progress, RowsOf

LEMMA Went ==
  ASSUME IInv, NEW r \in Run, NEW label \in RunLabel, Goto(r, label)
  PROVE  /\ run' \in [Run -> RunState]
         /\ run'[r].pc = label /\ run'[r].via = run[r].via /\ run'[r].tokens = run[r].tokens
         /\ run'[r].calls = run[r].calls
         /\ \A q \in Run \ {r} : run'[q] = run[q]
<1>1. run \in [Run -> RunState] /\ run[r] \in RunState
  BY DEF IInv, TypeOK
<1> DEFINE new == [run[r] EXCEPT !.pc = label]
<1>2. /\ new \in RunState /\ new.pc = label /\ new.via = run[r].via /\ new.tokens = run[r].tokens
      /\ new.calls = run[r].calls
  BY <1>1 DEF RunState
<1>3. run' = [run EXCEPT ![r] = new]
  BY DEF Goto, Step
<1> HIDE DEF new
<1>4. QED
  BY <1>1, <1>2, <1>3

LEMMA LoadStep ==
  ASSUME IInv, NEW r \in Run, Load(r)
  PROVE  IInv'
<1>1. /\ At(r, "load") /\ Goto(r, "quota") /\ enforce(r) /\ UNCHANGED <<messages, faults, toolVars>>
  BY DEF Load
<1>2. /\ run' \in [Run -> RunState]
      /\ run'[r].pc = "quota" /\ run'[r].via = run[r].via /\ run'[r].tokens = run[r].tokens
      /\ \A q \in Run \ {r} : run'[q] = run[q]
  BY <1>1, Went DEF RunLabel
<1>3. QuotaTypeOK' /\ QuotaInv'
  BY <1>1, QuotaMoves DEF IInv, TypeOK
<1>4. /\ check'[r].pc = "look" /\ usage' = usage /\ \A q \in Run \ {r} : check'[q] = check[q]
  BY <1>1, CheckMoved DEF IInv, TypeOK, enforce, CheckLabel
<1>5. QuotaKeepsPace(r)'
  BY <1>1, <1>2, <1>4, Known DEF QuotaKeepsPace, At
<1>6. NothingEarly(r)'
  BY <1>1, <1>2, <1>4, Known DEF QuotaKeepsPace, NothingEarly, Answered, At
<1>7. MessagesInOrder(r)'
  BY <1>1, <1>2, <1>4, Known DEF MessagesInOrder, Answered, At
<1>8. UsageIsWhole(r)'
  BY <1>1, <1>2, <1>4, Known DEF UsageIsWhole, At
<1>9. faults' \in Nat /\ faults <= faults'
  BY <1>1, Known
<1>10. QED
  BY <1>1, <1>2, <1>3, <1>4, <1>5, <1>6, <1>7, <1>8, <1>9, WithQuota DEF Progress

LEMMA CheckStep ==
  ASSUME IInv, NEW r \in Run, Check(r)
  PROVE  IInv'
<1>1. At(r, "quota") /\ QuotaStep(r) /\ run' = run /\ UNCHANGED <<messages, faults, toolVars>>
  BY DEF Check, ownVars
<1>2. /\ QuotaTypeOK' /\ QuotaInv' /\ usage' = usage
      /\ \A q \in Run \ {r} : check'[q] = check[q]
      /\ check'[r].pc \in {"sum", "fill", "allowed", "refused"}
  BY <1>1, QuotaSteps, Known DEF QuotaKeepsPace, At
<1>3. QuotaKeepsPace(r)'
  BY <1>1, <1>2, Known DEF QuotaKeepsPace, At
<1>4. NothingEarly(r)'
  BY <1>1, <1>2, Known DEF QuotaKeepsPace, NothingEarly, Answered, At
<1>5. MessagesInOrder(r)'
  BY <1>1, Known DEF MessagesInOrder, Answered, At
<1>6. UsageIsWhole(r)'
  BY <1>1, <1>2, Known DEF UsageIsWhole, At
<1>7. run' \in [Run -> RunState] /\ faults' \in Nat /\ faults <= faults'
  BY <1>1 DEF IInv, TypeOK
<1>8. QED
  BY <1>1, <1>2, <1>3, <1>4, <1>5, <1>6, <1>7, WithQuota DEF Progress

LEMMA RecordStep ==
  ASSUME IInv, NEW r \in Run, RecordUsage(r)
  PROVE  IInv'
<1>1. CASE run[r].tokens = 0 /\ Goto(r, "finish") /\ UNCHANGED quotaVars
  BY <1>1, GotoStep DEF RecordUsage, RunLabel, Alone
<1>2. CASE run[r].tokens > 0 /\ Goto(r, "recording") /\ record(r)
  <2>1. At(r, "usage") /\ UNCHANGED <<messages, faults, toolVars>>
    BY DEF RecordUsage
  <2>2. /\ run' \in [Run -> RunState]
        /\ run'[r].pc = "recording" /\ run'[r].via = run[r].via /\ run'[r].tokens = run[r].tokens
        /\ \A q \in Run \ {r} : run'[q] = run[q]
    BY <1>2, Went DEF RunLabel
  <2>3. QuotaTypeOK' /\ QuotaInv'
    BY <1>2, QuotaMoves DEF IInv, TypeOK
  <2>4. /\ check'[r].pc = "insert" /\ usage' = usage /\ \A q \in Run \ {r} : check'[q] = check[q]
    BY <1>2, CheckMoved DEF IInv, TypeOK, record, CheckLabel
  <2>5. QuotaKeepsPace(r)'
    BY <2>1, <2>2, <2>4, Known DEF QuotaKeepsPace, At
  <2>6. NothingEarly(r)'
    BY <2>1, <2>2, <2>4, Known DEF QuotaKeepsPace, NothingEarly, Answered, At
  <2>7. MessagesInOrder(r)'
    BY <2>1, <2>2, <2>4, Known DEF MessagesInOrder, Answered, At
  <2>8. UsageIsWhole(r)'
    BY <1>2, <2>1, <2>2, <2>4, Known DEF UsageIsWhole, At
  <2>9. faults' \in Nat /\ faults <= faults'
    BY <2>1, Known
  <2>10. QED
    BY <2>1, <2>2, <2>3, <2>4, <2>5, <2>6, <2>7, <2>8, <2>9, WithQuota DEF Progress
<1>3. QED
  BY <1>1, <1>2 DEF RecordUsage

(* The row of the run is inserted, or its cached status invalidated.       *)
LEMMA WriteUsageStep ==
  ASSUME IInv, NEW r \in Run, WriteUsage(r)
  PROVE  IInv'
<1>1. At(r, "recording") /\ run' = run /\ UNCHANGED <<messages, faults, toolVars>>
  BY DEF WriteUsage, ownVars
<1>2. run[r].tokens \in Nat \ {0} /\ run' \in [Run -> RunState] /\ faults' \in Nat /\ faults <= faults'
  <2>1. run[r].tokens \in Nat /\ run[r].tokens > 0
    BY <1>1, Known DEF UsageIsWhole, At, RunState
  <2>2. run' \in [Run -> RunState] /\ faults' \in Nat /\ faults <= faults'
    BY <1>1 DEF IInv, TypeOK
  <2>3. QED
    BY <2>1, <2>2
<1>3. CASE InsertUsage(r, run[r].tokens)
  <2> DEFINE u == [by |-> r, tokens |-> run[r].tokens]
  <2>1. QuotaTypeOK' /\ QuotaInv'
    BY <1>2, <1>3, InsertStep DEF IInv, TypeOK
  <2>2. usage' = usage \cup {u} /\ u.by = r /\ check[r].pc = "insert"
    BY <1>3 DEF InsertUsage, CheckAt
  <2>3. check'[r].pc = "invalidate" /\ \A q \in Run \ {r} : check'[q] = check[q]
    BY <1>3, CheckMoved DEF IInv, TypeOK, InsertUsage, CheckLabel
  <2>4. QuotaKeepsPace(r)'
    BY <1>1, <2>3, Known DEF QuotaKeepsPace, At
  <2>5. NothingEarly(r)'
    BY <1>1, <2>2, <2>3, Known DEF NothingEarly, Answered, At
  <2>6. MessagesInOrder(r)'
    BY <1>1, Known DEF MessagesInOrder, Answered, At
  <2>7. UsageIsWhole(r)'
    BY <1>1, <2>2, <2>3, Known DEF UsageIsWhole, At
  <2>8. usage \subseteq usage' /\ \A v \in usage' \ usage : v.by = r
    BY <2>2
  <2>9. QED
    BY <1>1, <1>2, <2>1, <2>3, <2>4, <2>5, <2>6, <2>7, <2>8, WithQuota DEF Progress
<1>4. CASE QuotaStep(r)
  <2>1. /\ QuotaTypeOK' /\ QuotaInv' /\ usage' = usage
        /\ \A q \in Run \ {r} : check'[q] = check[q]
        /\ check[r].pc = "invalidate" /\ check'[r].pc = "done"
    BY <1>1, <1>4, QuotaSteps, Known DEF QuotaKeepsPace, At
  <2>2. QuotaKeepsPace(r)'
    BY <1>1, <2>1, Known DEF QuotaKeepsPace, At
  <2>3. NothingEarly(r)'
    BY <1>1, <2>1, Known DEF NothingEarly, Answered, At
  <2>4. MessagesInOrder(r)'
    BY <1>1, Known DEF MessagesInOrder, Answered, At
  <2>5. UsageIsWhole(r)'
    BY <1>1, <2>1, Known DEF UsageIsWhole, At
  <2>6. QED
    BY <1>1, <1>2, <2>1, <2>2, <2>3, <2>4, <2>5, WithQuota DEF Progress
<1>5. QED
  BY <1>3, <1>4 DEF WriteUsage

LEMMA ExpireStep ==
  ASSUME IInv, Expire, UNCHANGED <<ownVars, toolVars>>
  PROVE  IInv'
<1>1. PICK r \in Run : TRUE
  BY QuotaAssumption
<1>2. /\ run' = run /\ check' = check /\ usage' = usage /\ UNCHANGED <<messages, faults, toolVars>>
  BY DEF Expire, ownVars
<1>3. QuotaTypeOK' /\ QuotaInv'
  BY CacheCleared, <1>1 DEF IInv, TypeOK
<1>4. QuotaKeepsPace(r)' /\ NothingEarly(r)' /\ UsageIsWhole(r)'
  BY <1>2, Known DEF QuotaKeepsPace, NothingEarly, UsageIsWhole, Answered, At
<1>5. MessagesInOrder(r)'
  BY <1>2, Known DEF MessagesInOrder, Answered
<1>6. run' \in [Run -> RunState] /\ faults' \in Nat /\ faults <= faults'
  BY <1>2 DEF IInv, TypeOK
<1>7. QED
  BY <1>1, <1>2, <1>3, <1>4, <1>5, <1>6, WithQuota DEF Progress

(* Steps of the run that are steps of the executor as well.                *)

LEMMA WithTools ==
  ASSUME IInv, NEW r \in Run, run' \in [Run -> RunState],
         \A q \in Run \ {r} : run'[q] = run[q],
         UNCHANGED <<messages, quotaVars>>, faults' \in Nat, faults <= faults',
         ToolTypeOK', ToolInv', faults' = 0 => (RowsAreSingle => RowsAreSingle'), Progress(r)'
  PROVE  IInv'
<1>1. /\ messages' \in Seq(Message) /\ usage' = usage
      /\ \A q \in Run \ {r} : run'[q] = run[q] /\ check'[q] = check[q]
  BY DEF IInv, TypeOK, quotaVars
<1>2. \A q \in Run, k \in Roles : RowsOf(q, k)' = RowsOf(q, k) /\ \A i \in RowsOf(q, k) : i \in DOMAIN messages'
  BY DEF RowsOf
<1>3. QuotaTypeOK' /\ QuotaInv'
  BY QuotaUnchanged DEF IInv, TypeOK, QuotaTypeOK, quotaVars
<1>4. QED
  BY <1>1, <1>2, <1>3, Assemble

(* The run itself stays where it is.                                       *)
LEMMA Stays ==
  ASSUME IInv, NEW r \in Run, UNCHANGED <<run, messages, quotaVars>>, faults' \in Nat, faults <= faults'
  PROVE  Progress(r)' /\ run' \in [Run -> RunState] /\ \A q \in Run \ {r} : run'[q] = run[q]
<1>1. check' = check /\ usage' = usage
  BY DEF quotaVars
<1>2. QuotaKeepsPace(r)' /\ NothingEarly(r)' /\ UsageIsWhole(r)'
  BY <1>1, Known DEF QuotaKeepsPace, NothingEarly, UsageIsWhole, Answered, At
<1>3. MessagesInOrder(r)'
  BY <1>1, Known DEF MessagesInOrder, Answered
<1>4. QED
  BY <1>2, <1>3 DEF Progress, IInv, TypeOK

LEMMA ExecutorStep ==
  ASSUME IInv, NEW r \in Run, Execute(r)
  PROVE  IInv'
<1>1. ExecStep(r) /\ UNCHANGED <<run, messages, quotaVars>> /\ faults' = faults
  BY DEF Execute, ownVars
<1>2. r \in Caller /\ faults' \in Nat /\ faults <= faults'
  BY <1>1, RuntimeAssumption DEF IInv, TypeOK
<1>3. ToolTypeOK' /\ ToolInv' /\ (RowsAreSingle => RowsAreSingle')
  BY <1>1, <1>2, ExecSteps DEF IInv, TypeOK
<1>4. QED
  BY <1>1, <1>2, <1>3, Stays, WithTools

LEMMA HandlersStep ==
  ASSUME IInv, HandlerStep, UNCHANGED <<ownVars, quotaVars>>
  PROVE  IInv'
<1>1. PICK r \in Run : TRUE
  BY QuotaAssumption
<1>2. UNCHANGED <<run, messages, quotaVars>> /\ faults' = faults /\ faults' \in Nat /\ faults <= faults'
  BY DEF ownVars, IInv, TypeOK
<1>3. ToolTypeOK' /\ ToolInv' /\ (RowsAreSingle => RowsAreSingle')
  BY HandlerSteps DEF IInv, TypeOK
<1>4. QED
  BY <1>1, <1>2, <1>3, Stays, WithTools

(* The next call of the answer.                                            *)
LEMMA CallToolStep ==
  ASSUME IInv, NEW r \in Run, CallTool(r)
  PROVE  IInv'
<1> DEFINE new == [run[r] EXCEPT !.pc = "tool", !.calls = Tail(@)]
<1>1. /\ At(r, "tools") /\ execute(r, Head(run[r].calls)) /\ Step(r, new)
      /\ UNCHANGED <<messages, faults, quotaVars>>
  BY DEF CallTool
<1>2. run[r] \in RunState /\ run[r].calls # <<>> /\ run[r].calls \in Seq(Call)
  BY <1>1, Known DEF UsageIsWhole, At, RunState
<1>3. Head(run[r].calls) \in Call /\ Tail(run[r].calls) \in Seq(Call)
  BY <1>2
<1>4. /\ new \in RunState /\ new.pc = "tool" /\ new.via = run[r].via /\ new.tokens = run[r].tokens
  BY <1>2, <1>3 DEF RunState, RunLabel
<1> HIDE DEF new
<1>5. run' \in [Run -> RunState] /\ run'[r] = new /\ \A q \in Run \ {r} : run'[q] = run[q]
  BY <1>1, <1>4 DEF IInv, TypeOK, Step
<1>6. ToolTypeOK' /\ ToolInv' /\ (RowsAreSingle => RowsAreSingle')
  BY <1>1, <1>3, ExecuteStep, RuntimeAssumption DEF IInv, TypeOK
<1>7. faults' = faults /\ faults' \in Nat /\ faults <= faults' /\ check' = check /\ usage' = usage
  BY <1>1 DEF IInv, TypeOK, quotaVars
<1>8. QuotaKeepsPace(r)'
  BY <1>1, <1>4, <1>5, <1>7, Known DEF QuotaKeepsPace, At
<1>9. NothingEarly(r)'
  BY <1>1, <1>4, <1>5, <1>7, Known DEF NothingEarly, Answered, At
<1>10. MessagesInOrder(r)'
  BY <1>1, <1>4, <1>5, <1>7, Known DEF MessagesInOrder, Answered, At
<1>11. UsageIsWhole(r)'
  BY <1>1, <1>4, <1>5, <1>7, Known DEF QuotaKeepsPace, UsageIsWhole, At
<1>12. QED
  BY <1>1, <1>5, <1>6, <1>7, <1>8, <1>9, <1>10, <1>11, WithTools DEF Progress

LEMMA FaultStep ==
  ASSUME IInv, NEW r \in Run, Fault(r)
  PROVE  IInv'
<1>1. faults \in Nat /\ faults' = faults + 1 /\ faults' # 0 /\ UNCHANGED messages
  BY DEF Fault, IInv, TypeOK
<1>2. CASE /\ \/ run[r].pc \in {"send", "load", "user", "finish"}
              \/ At(r, "assistant") /\ run[r].via # "test"
              \/ At(r, "quota") /\ Checking(r)
           /\ Goto(r, "rejected") /\ UNCHANGED <<quotaVars, toolVars>>
  <2>1. /\ run' \in [Run -> RunState]
        /\ run'[r].pc = "rejected" /\ run'[r].via = run[r].via /\ run'[r].tokens = run[r].tokens
        /\ \A q \in Run \ {r} : run'[q] = run[q]
    BY <1>2, Went DEF RunLabel
  <2>2. check' = check /\ usage' = usage /\ QuotaTypeOK' /\ QuotaInv'
    BY <1>2, QuotaUnchanged DEF quotaVars, IInv, TypeOK, QuotaTypeOK
  <2>3. QuotaKeepsPace(r)'
    BY <1>1, <1>2, <2>1, <2>2, Known DEF QuotaKeepsPace, At
  <2>4. NothingEarly(r)'
    BY <1>1, <1>2, <2>1, <2>2, Known DEF NothingEarly, Answered, At
  <2>5. MessagesInOrder(r)'
    BY <1>1, <2>1, <2>2, Known DEF MessagesInOrder, Answered
  <2>6. UsageIsWhole(r)'
    BY <1>1, <1>2, <2>1, <2>2, Known DEF UsageIsWhole, At
  <2>7. UNCHANGED <<messages, toolVars>>
    BY <1>1, <1>2
  <2>8. QED
    BY <1>1, <2>1, <2>2, <2>3, <2>4, <2>5, <2>6, <2>7, WithQuota DEF Progress
<1>3. CASE At(r, "recording") /\ Recording(r) /\ RecordFails(r) /\ UNCHANGED <<run, toolVars>>
  <2>1. QuotaTypeOK' /\ QuotaInv'
    BY <1>3, QuotaMoves DEF IInv, TypeOK
  <2>2. PICK label \in {"notRecorded", "notInvalidated"} :
          /\ CheckGoto(r, label)
          /\ label = "notRecorded" => check[r].pc = "insert"
          /\ label = "notInvalidated" => check[r].pc = "invalidate"
    BY <1>3 DEF RecordFails, CheckAt
  <2>3. check'[r].pc = label /\ \A q \in Run \ {r} : check'[q] = check[q]
    BY <2>2, CheckMoved DEF IInv, TypeOK, CheckLabel
  <2>4. usage' = usage
    BY <1>3 DEF RecordFails
  <2>5. QuotaKeepsPace(r)'
    BY <1>1, <1>3, <2>3, Known DEF QuotaKeepsPace, At
  <2>6. NothingEarly(r)'
    BY <1>1, <1>3, <2>2, <2>3, <2>4, Known DEF NothingEarly, Answered, At
  <2>7. MessagesInOrder(r)'
    BY <1>1, <1>3, Known DEF MessagesInOrder, Answered
  <2>8. UsageIsWhole(r)'
    BY <1>1, <1>3, <2>3, <2>4, Known DEF UsageIsWhole, At
  <2>9. run' \in [Run -> RunState] /\ \A q \in Run \ {r} : run'[q] = run[q]
    BY <1>3 DEF IInv, TypeOK
  <2>10. QED
    BY <1>1, <1>3, <2>1, <2>3, <2>4, <2>5, <2>6, <2>7, <2>8, <2>9, WithQuota DEF Progress
<1>4. CASE At(r, "tool") /\ ExecRejects(r) /\ UNCHANGED <<run, quotaVars>>
  <2>1. ToolTypeOK' /\ ToolInv'
    BY <1>4, RejectStep, RuntimeAssumption DEF IInv, TypeOK
  <2>2. QED
    BY <1>1, <1>4, <2>1, Stays, WithTools
<1>5. QED
  BY <1>2, <1>3, <1>4 DEF Fault

-----------------------------------------------------------------------------
(* Init and Next.                                                          *)

LEMMA InitInv == Init => IInv
<1> SUFFICES ASSUME Init PROVE IInv
  OBVIOUS
<1>1. \A r \in Run : /\ run[r] = [pc |-> "idle", via |-> "chat", iteration |-> 0, calls |-> <<>>, tokens |-> 0]
                     /\ check[r] = [pc |-> "none", used |-> 0]
  BY DEF Init, QuotaInit
<1>2. messages = <<>> /\ faults = 0 /\ usage = {} /\ tasks = {} /\ executions = {} /\ handlers = {}
      /\ effects = {} /\ overtaken = {} /\ cache.set = FALSE
  BY DEF Init, QuotaInit, ToolInit
<1>3. [pc |-> "idle", via |-> "chat", iteration |-> 0, calls |-> <<>>, tokens |-> 0] \in RunState
  BY RuntimeAssumption DEF RunState, RunLabel, Via
<1>4. run \in [Run -> RunState]
  BY <1>3 DEF Init
<1>5. QuotaTypeOK
  <2>1. (CHOOSE r \in Run : TRUE) \in Run
    BY QuotaAssumption
  <2>2. QED
    BY <2>1 DEF Init, QuotaInit, QuotaTypeOK, CheckLabel
<1>6. ToolTypeOK
  <2>1. (CHOOSE c \in Call : TRUE) \in Call
    BY CallAssumption
  <2>2. \A r \in Caller : [by |-> r, n |-> 0, call |-> CHOOSE c \in Call : TRUE] \in Execution
    BY <2>1 DEF Execution
  <2>3. QED
    BY <2>2 DEF Init, ToolInit, ToolTypeOK, ExecLabel
<1>7. TypeOK
  BY <1>2, <1>4, <1>5, <1>6 DEF TypeOK
<1>8. Tokens = {}
  BY <1>2 DEF Tokens
<1>9. QuotaInv
  <2>1. IsFiniteSet(Tokens)
    BY <1>8, FS_EmptySet
  <2>2. CacheFollowsRows
    BY <1>2 DEF CacheFollowsRows
  <2>3. SumsFollowRows /\ RefusalsAreRight
    BY <1>1 DEF SumsFollowRows, RefusalsAreRight, CheckAt
  <2>4. SumsAreBehind
    BY <1>1, <1>2, <2>1 DEF SumsAreBehind, CheckAt
  <2>5. QED
    BY <2>2, <2>3, <2>4 DEF QuotaInv
<1>10. \A r \in Caller : /\ exec[r].pc = "idle" /\ exec[r].id.by = r
                         /\ ~exec[r].requiresApproval
  BY DEF Init, ToolInit
<1>11. ToolInv
  BY <1>2, <1>10
     DEF ToolInv, HighRiskIsHeld, CompletedIsDone, RowsAreOfCalls, WritesAreDue, ExecAt
<1>12. RowsAreSingle
  BY <1>2, <1>10 DEF RowsAreSingle, OneRowPerCall, RowsAreNew
<1>13. \A r \in Run : RowsOf(r, "ASSISTANT") = {}
  BY <1>2 DEF RowsOf
<1>14. \A r \in Run : Progress(r)
  BY <1>1, <1>2, <1>13
     DEF Progress, QuotaKeepsPace, NothingEarly, MessagesInOrder, UsageIsWhole, Answered, At
<1>15. QED
  BY <1>7, <1>9, <1>11, <1>12, <1>14 DEF IInv, ProgressInv

LEMMA RunSteps ==
  ASSUME IInv, NEW r \in Run, RunStep(r)
  PROVE  IInv'
<1>1. CASE Send(r)
  BY <1>1, SavingStep DEF Send, RunLabel, Roles
<1>2. CASE Load(r) \/ Check(r)
  BY <1>2, LoadStep, CheckStep
<1>3. CASE NoAgent(r)
  BY <1>3, GotoStep DEF NoAgent, RunLabel
<1>4. CASE Enforced(r)
  BY <1>4, GotoStep DEF Enforced, RunLabel
<1>5. CASE SaveUser(r)
  <2>1. CASE run[r].via \in {"conversation", "chat"} /\ Goto(r, "model") /\ Save(r, "USER")
    BY <1>5, <2>1, SavingStep DEF SaveUser, RunLabel, Roles
  <2>2. CASE UNCHANGED messages
    BY <1>5, <2>2, GotoStep DEF SaveUser, RunLabel, Save
  <2>3. QED
    BY <1>5, <2>1, <2>2 DEF SaveUser
<1>6. CASE Model(r) \/ ToolAnswered(r)
  BY <1>6, ModelStep, ToolAnsweredStep
<1>7. CASE CallTool(r) \/ Execute(r)
  BY <1>7, CallToolStep, ExecutorStep
<1>8. CASE ToolThrew(r)
  BY <1>8, GotoStep DEF ToolThrew, RunLabel
<1>9. CASE SaveAssistant(r)
  <2>1. CASE run[r].via = "test" /\ Goto(r, "finish") /\ UNCHANGED messages
    BY <1>9, <2>1, GotoStep DEF SaveAssistant, RunLabel
  <2>2. CASE run[r].via # "test" /\ Goto(r, "usage") /\ Save(r, "ASSISTANT")
    BY <1>9, <2>2, SavingStep DEF SaveAssistant, RunLabel, Roles
  <2>3. QED
    BY <1>9, <2>1, <2>2 DEF SaveAssistant
<1>10. CASE RecordUsage(r) \/ WriteUsage(r)
  BY <1>10, RecordStep, WriteUsageStep
<1>11. CASE Recorded(r)
  BY <1>11, GotoStep DEF Recorded, RunLabel
<1>12. CASE Finish(r)
  BY <1>12, GotoStep DEF Finish, RunLabel
<1>13. QED
  BY <1>1, <1>2, <1>3, <1>4, <1>5, <1>6, <1>7, <1>8, <1>9, <1>10, <1>11, <1>12 DEF RunStep

LEMMA NextInv == IInv /\ [Next]_vars => IInv'
<1> SUFFICES ASSUME IInv, [Next]_vars PROVE IInv'
  OBVIOUS
<1>1. ASSUME NEW r \in Run, NEW via \in Route[r], begin(r, via) PROVE IInv'
  BY <1>1, BeginStep
<1>2. ASSUME NEW r \in Run, RunStep(r) PROVE IInv'
  BY <1>2, RunSteps
<1>3. ASSUME NEW r \in Run, Fault(r) PROVE IInv'
  BY <1>3, FaultStep
<1>4. CASE HandlerStep /\ UNCHANGED <<ownVars, quotaVars>>
  BY <1>4, HandlersStep
<1>5. CASE Expire /\ UNCHANGED <<ownVars, toolVars>>
  BY <1>5, ExpireStep
<1>6. CASE UNCHANGED vars
  <2>1. UNCHANGED <<run, messages, faults, quotaVars, toolVars>>
    BY <1>6 DEF vars
  <2>2. PICK r \in Run : TRUE
    BY QuotaAssumption
  <2>3. ToolTypeOK' /\ ToolInv' /\ (RowsAreSingle => RowsAreSingle')
    BY <2>1, ToolUnchanged DEF IInv, TypeOK
  <2>4. faults' \in Nat /\ faults <= faults'
    BY <2>1 DEF IInv, TypeOK
  <2>5. QED
    BY <2>1, <2>2, <2>3, <2>4, Stays, WithTools
<1>7. QED
  BY <1>1, <1>2, <1>3, <1>4, <1>5, <1>6 DEF Next

LEMMA Inductive == Spec => []IInv
  BY InitInv, NextInv, PTL DEF Spec

-----------------------------------------------------------------------------
(* The theorems.                                                           *)

(* What enforce answers from the cache is what the rows say, or it is known*)
(* why not: for any number of runs, any limit and any interleaving.        *)
THEOREM CacheCorrect == Spec => []CacheFollowsRows
<1>1. IInv => CacheFollowsRows
  BY DEF IInv, QuotaInv
<1>2. QED
  BY <1>1, Inductive, PTL

(* enforce never refuses a run the rows would admit.                       *)
THEOREM RefusalsCorrect == Spec => []RefusalsAreRight
<1>1. IInv => RefusalsAreRight
  BY DEF IInv, QuotaInv
<1>2. QED
  BY <1>1, Inductive, PTL

(* ToolExecutor starts no call that it judges HIGH, and a HIGH tool only   *)
(* under the slug of another row, whatever the tools and the answers of    *)
(* the model; what it reports as waiting has its task and its row.         *)
THEOREM HighRiskHeld == Spec => []HighRiskIsHeld
<1>1. IInv => HighRiskIsHeld
  BY DEF IInv, ToolInv
<1>2. QED
  BY <1>1, Inductive, PTL

(* The rows of tool_executions say what the handlers did, and once.        *)
THEOREM ToolRowsCorrect == Spec => []ToolRowsAreTruthful
<1>1. IInv => ToolRowsAreTruthful
  BY DEF IInv, ToolInv, ToolRowsAreTruthful, RowsAreTruthful, RowsAreSingle
<1>2. QED
  BY <1>1, Inductive, PTL

(* An answered run of AgentRuntimeService has its messages, in order, and  *)
(* its usage, with the type invariant.                                     *)
THEOREM AnswersAreWhole == Spec => []RuntimeInv
<1>1. ASSUME IInv PROVE AnsweredIsWhole
  <2> SUFFICES ASSUME NEW r \in Run
               PROVE  /\ run[r].pc = "over" /\ run[r].via # "test" =>
                           /\ RowsOf(r, "USER") # {} /\ Cardinality(RowsOf(r, "ASSISTANT")) = 1
                           /\ \A i \in RowsOf(r, "USER"), j \in RowsOf(r, "ASSISTANT") : i < j
                           /\ faults = 0 /\ run[r].tokens > 0 => [by |-> r, tokens |-> run[r].tokens] \in usage
                      /\ run[r].via = "test" \/ (faults = 0 /\ run[r].pc \in {"refused", "rejected"}) =>
                           RowsOf(r, "ASSISTANT") = {} /\ ~\E u \in usage : u.by = r
    BY DEF AnsweredIsWhole
  <2>1. QuotaKeepsPace(r) /\ NothingEarly(r) /\ MessagesInOrder(r) /\ UsageIsWhole(r)
    BY <1>1 DEF IInv, ProgressInv, Progress
  <2>2. ASSUME run[r].pc = "over", run[r].via # "test"
        PROVE  /\ RowsOf(r, "USER") # {} /\ Cardinality(RowsOf(r, "ASSISTANT")) = 1
               /\ \A i \in RowsOf(r, "USER"), j \in RowsOf(r, "ASSISTANT") : i < j
               /\ faults = 0 /\ run[r].tokens > 0 => [by |-> r, tokens |-> run[r].tokens] \in usage
    <3>1. RowsOf(r, "USER") # {}
      BY <2>1, <2>2 DEF MessagesInOrder, Answered
    <3>2. PICK j : RowsOf(r, "ASSISTANT") = {j} /\ \A i \in RowsOf(r, "USER") : i < j
      BY <2>1, <2>2 DEF MessagesInOrder, Answered
    <3>3. Cardinality(RowsOf(r, "ASSISTANT")) = 1
      BY <3>2, FS_Singleton
    <3>4. faults = 0 /\ run[r].tokens > 0 => [by |-> r, tokens |-> run[r].tokens] \in usage
      BY <2>1, <2>2 DEF UsageIsWhole
    <3>5. QED
      BY <3>1, <3>2, <3>3, <3>4
  <2>3. ASSUME run[r].via = "test" \/ (faults = 0 /\ run[r].pc \in {"refused", "rejected"})
        PROVE  RowsOf(r, "ASSISTANT") = {} /\ ~\E u \in usage : u.by = r
    BY <2>1, <2>3 DEF QuotaKeepsPace, NothingEarly, Answered, At
  <2>4. QED
    BY <2>2, <2>3
<1>2. IInv => RuntimeInv
  BY <1>1 DEF IInv, RuntimeInv
<1>3. QED
  BY <1>2, Inductive, PTL

-----------------------------------------------------------------------------
(* Induction over the naturals, and sequences of sequences.                *)

LEMMA Smallest ==
  ASSUME NEW T \in SUBSET Nat, T # {}
  PROVE  \E n \in T : \A m \in T : n <= m
<1> DEFINE R == OpToRel(<, Nat)
<1>1. \A x, y \in Nat : x < y <=> <<x, y>> \in R
  BY DEF OpToRel
<1>2. IsWellFoundedOn(R, Nat)
  BY NatLessThanWellFounded
<1> HIDE DEF R
<1>3. PICK n \in T : \A m \in T : ~(<<m, n>> \in R)
  BY <1>2, WFMin
<1>4. \A m \in T : ~(m < n)
  BY <1>1, <1>3
<1>5. QED
  BY <1>4

LEMMA Induct ==
  ASSUME NEW T, 0 \in T, \A n \in Nat : n \in T => n + 1 \in T
  PROVE  Nat \subseteq T
<1> SUFFICES ASSUME Nat \ T # {} PROVE FALSE
  OBVIOUS
<1>1. PICK n \in Nat \ T : \A m \in Nat \ T : n <= m
  BY Smallest
<1>2. n # 0 /\ n - 1 \in Nat /\ n - 1 \in T
  BY <1>1
<1>3. QED
  BY <1>2

(* f has the first i of the sequences ss one after the other.              *)
Joins(f, ss, n) == \A i \in 1..n : f[i] = IF i = 1 THEN ss[i] ELSE f[i - 1] \o ss[i]

LEMMA JoinsExist ==
  ASSUME NEW S, NEW n \in Nat, NEW ss \in [1..n -> Seq(S)]
  PROVE  \E f \in [1..n -> Seq(S)] : Joins(f, ss, n)
<1> DEFINE Joined(m) == \E f \in [1..m -> Seq(S)] : Joins(f, ss, m)
           T == {m \in Nat : m <= n => Joined(m)}
<1>1. Joined(0)
  <2>1. [i \in 1..0 |-> <<>>] \in [1..0 -> Seq(S)] /\ Joins([i \in 1..0 |-> <<>>], ss, 0)
    BY DEF Joins
  <2>2. QED
    BY <2>1
<1>2. ASSUME NEW m \in Nat, m + 1 <= n, Joined(m) PROVE Joined(m + 1)
  <2>1. PICK f \in [1..m -> Seq(S)] : Joins(f, ss, m)
    BY <1>2
  <2> DEFINE last == IF m = 0 THEN ss[1] ELSE f[m] \o ss[m + 1]
             g == [i \in 1..(m + 1) |-> IF i = m + 1 THEN last ELSE f[i]]
  <2>2. last \in Seq(S)
    <3>1. CASE m = 0
      BY <1>2, <3>1
    <3>2. CASE m # 0
      <4>1. f[m] \in Seq(S) /\ ss[m + 1] \in Seq(S)
        BY <1>2, <3>2
      <4>2. QED
        BY <3>2, <4>1
    <3>3. QED
      BY <3>1, <3>2
  <2>3. g \in [1..(m + 1) -> Seq(S)]
    <3> HIDE DEF last
    <3>1. QED
      BY <2>2
  <2>4. ASSUME NEW i \in 1..(m + 1) PROVE g[i] = IF i = 1 THEN ss[i] ELSE g[i - 1] \o ss[i]
    <3>1. CASE i = m + 1
      BY <3>1
    <3>2. CASE i # m + 1
      <4>1. i \in 1..m /\ g[i] = f[i] /\ (i # 1 => i - 1 \in 1..m /\ g[i - 1] = f[i - 1])
        BY <3>2
      <4>2. QED
        BY <2>1, <4>1 DEF Joins
    <3>3. QED
      BY <3>1, <3>2
  <2> HIDE DEF g
  <2>5. QED
    BY <2>3, <2>4 DEF Joins
<1> HIDE DEF Joined
<1>3. 0 \in T /\ \A m \in Nat : m \in T => m + 1 \in T
  BY <1>1, <1>2
<1> HIDE DEF T
<1>4. n \in T
  BY <1>3, Induct
<1>5. Joined(n)
  BY <1>4 DEF T
<1>6. QED
  BY <1>5 DEF Joined

LEMMA JoinsAgree ==
  ASSUME NEW n \in Nat, NEW k \in Nat, n <= k, NEW ss, NEW f, NEW g, Joins(f, ss, n), Joins(g, ss, k)
  PROVE  \A i \in 1..n : f[i] = g[i]
<1> DEFINE T == {m \in Nat : m + 1 <= n => f[m + 1] = g[m + 1]}
<1>1. 0 \in T
  BY DEF Joins
<1>2. ASSUME NEW m \in Nat, m \in T PROVE m + 1 \in T
  <2> SUFFICES ASSUME m + 2 <= n PROVE f[m + 2] = g[m + 2]
    OBVIOUS
  <2>1. f[m + 1] = g[m + 1]
    BY <1>2
  <2>2. m + 2 \in 1..n /\ m + 2 \in 1..k /\ m + 2 # 1 /\ (m + 2) - 1 = m + 1
    OBVIOUS
  <2>3. f[m + 2] = f[m + 1] \o ss[m + 2] /\ g[m + 2] = g[m + 1] \o ss[m + 2]
    BY <2>2 DEF Joins
  <2>4. QED
    BY <2>1, <2>2, <2>3
<1> HIDE DEF T
<1>3. Nat \subseteq T
  BY <1>1, <1>2, Induct
<1>4. ASSUME NEW i \in 1..n PROVE f[i] = g[i]
  <2>1. i - 1 \in T
    BY <1>3
  <2>2. QED
    BY <2>1 DEF T
<1>5. QED
  BY <1>4

LEMMA JoinedIs ==
  ASSUME NEW S, NEW n \in Nat \ {0}, NEW ss \in [1..n -> Seq(S)], NEW f \in [1..n -> Seq(S)],
         Joins(f, ss, n)
  PROVE  FlattenSeq(ss) = f[n]
<1>1. Len(ss) = n
  OBVIOUS
<1> DEFINE flatten == CHOOSE h : h = [i \in 1..n |-> IF i = 1 THEN ss[i] ELSE h[i - 1] \o ss[i]]
<1>2. FlattenSeq(ss) = flatten[n]
  BY <1>1 DEF FlattenSeq
<1>3. f = [i \in 1..n |-> IF i = 1 THEN ss[i] ELSE f[i - 1] \o ss[i]]
  BY DEF Joins
<1>4. flatten = [i \in 1..n |-> IF i = 1 THEN ss[i] ELSE flatten[i - 1] \o ss[i]]
  BY <1>3
<1> HIDE DEF flatten
<1>5. Joins(flatten, ss, n)
  BY <1>4 DEF Joins
<1>6. \A i \in 1..n : f[i] = flatten[i]
  <2>1. n \in Nat /\ n <= n
    OBVIOUS
  <2>2. QED
    BY <1>5, <2>1, JoinsAgree
<1>7. QED
  BY <1>2, <1>6

(* One sequence more is joined at the end.                                 *)
LEMMA JoinedTo ==
  ASSUME NEW S, NEW n \in Nat, NEW ss \in [1..(n + 1) -> Seq(S)]
  PROVE  FlattenSeq(ss) = FlattenSeq([i \in 1..n |-> ss[i]]) \o ss[n + 1]
<1> DEFINE tt == [i \in 1..n |-> ss[i]]
<1>1. PICK f \in [1..(n + 1) -> Seq(S)] : Joins(f, ss, n + 1)
  BY JoinsExist
<1>2. FlattenSeq(ss) = f[n + 1]
  <2>1. n + 1 \in Nat \ {0}
    OBVIOUS
  <2>2. QED
    BY <1>1, <2>1, JoinedIs
<1>3. CASE n = 0
  <2>1. tt = <<>> /\ Len(tt) = 0 /\ FlattenSeq(tt) = tt
    BY <1>3 DEF FlattenSeq
  <2>2. f[1] = ss[1] /\ ss[1] \in Seq(S)
    BY <1>1, <1>3 DEF Joins
  <2>3. QED
    BY <1>2, <1>3, <2>1, <2>2
<1>4. CASE n # 0
  <2> DEFINE g == [i \in 1..n |-> f[i]]
  <2>1. g \in [1..n -> Seq(S)] /\ tt \in [1..n -> Seq(S)] /\ g[n] = f[n]
    BY <1>4
  <2>2. \A i \in 1..n : g[i] = f[i] /\ tt[i] = ss[i] /\ i \in 1..(n + 1) /\ (i # 1 => i - 1 \in 1..n)
    OBVIOUS
  <2>3. Joins(g, tt, n)
    BY <1>1, <2>2 DEF Joins
  <2>4. FlattenSeq(tt) = f[n]
    <3> HIDE DEF g, tt
    <3>1. QED
      BY <1>4, <2>1, <2>3, JoinedIs
  <2>5. f[n + 1] = f[n] \o ss[n + 1]
    <3>1. n + 1 \in 1..(n + 1) /\ n + 1 # 1 /\ (n + 1) - 1 = n
      BY <1>4
    <3>2. f[n + 1] = f[(n + 1) - 1] \o ss[n + 1]
      BY <1>1, <3>1 DEF Joins
    <3>3. QED
      BY <3>1, <3>2
  <2>6. QED
    BY <1>2, <2>4, <2>5
<1>5. QED
  BY <1>3, <1>4

LEMMA JoinedIsSeq ==
  ASSUME NEW S, NEW n \in Nat, NEW ss \in [1..n -> Seq(S)]
  PROVE  FlattenSeq(ss) \in Seq(S)
<1>1. CASE n = 0
  <2>1. ss = <<>> /\ Len(ss) = 0
    BY <1>1
  <2>2. QED
    BY <2>1 DEF FlattenSeq
<1>2. CASE n # 0
  <2>1. PICK f \in [1..n -> Seq(S)] : Joins(f, ss, n)
    BY JoinsExist
  <2>2. FlattenSeq(ss) = f[n]
    BY <1>2, <2>1, JoinedIs
  <2>3. QED
    BY <1>2, <2>1, <2>2
<1>3. QED
  BY <1>1, <1>2

LEMMA NothingJoined ==
  ASSUME NEW n \in Nat, NEW ss, ss = [i \in 1..n |-> <<>>]
  PROVE  FlattenSeq(ss) = <<>>
<1> DEFINE T == {m \in Nat : FlattenSeq([i \in 1..m |-> <<>>]) = <<>>}
<1>1. 0 \in T
  <2>1. [i \in 1..0 |-> <<>>] = <<>> /\ Len(<<>>) = 0
    OBVIOUS
  <2>2. QED
    BY <2>1 DEF FlattenSeq
<1>2. ASSUME NEW m \in Nat, m \in T PROVE m + 1 \in T
  <2> DEFINE tt == [i \in 1..(m + 1) |-> <<>>]
  <2>1. tt \in [1..(m + 1) -> Seq({})] /\ tt[m + 1] = <<>> /\ [i \in 1..m |-> tt[i]] = [i \in 1..m |-> <<>>]
    OBVIOUS
  <2>2. FlattenSeq(tt) = FlattenSeq([i \in 1..m |-> tt[i]]) \o tt[m + 1]
    BY <2>1, JoinedTo
  <2>3. FlattenSeq([i \in 1..m |-> tt[i]]) = <<>>
    <3>1. FlattenSeq([i \in 1..m |-> <<>>]) = <<>>
      BY <1>2
    <3>2. QED
      BY <2>1, <3>1
  <2>4. FlattenSeq(tt) = <<>>
    <3> HIDE DEF tt
    <3>1. <<>> \o <<>> = <<>>
      OBVIOUS
    <3>2. FlattenSeq(tt) = <<>> \o <<>>
      BY <2>1, <2>2, <2>3
    <3>3. QED
      BY <3>1, <3>2
  <2>5. QED
    BY <2>4
<1> HIDE DEF T
<1>3. n \in T
  BY <1>1, <1>2, Induct
<1>4. QED
  BY <1>3 DEF T

(* The first k of the sequences ss, joined.                                *)
FirstOf(ss, k) == FlattenSeq([i \in 1..k |-> ss[i]])

LEMMA FirstGrows ==
  ASSUME NEW S, NEW n \in Nat, NEW ss \in [1..n -> Seq(S)], NEW k \in Nat, k <= n
  PROVE  /\ FirstOf(ss, k) \in Seq(S)
         /\ k < n => FirstOf(ss, k + 1) = FirstOf(ss, k) \o ss[k + 1]
         /\ k = 0 => FirstOf(ss, k) = <<>>
         /\ k = n => FirstOf(ss, k) = FlattenSeq(ss)
<1> DEFINE Up(m) == [i \in 1..m |-> ss[i]]
<1>1. \A m \in Nat : m <= n => Up(m) \in [1..m -> Seq(S)]
  OBVIOUS
<1>2. Up(k) \in [1..k -> Seq(S)]
  BY <1>1
<1>3. FirstOf(ss, k) \in Seq(S)
  <2>1. FlattenSeq(Up(k)) \in Seq(S)
    <3> HIDE DEF Up
    <3>1. QED
      BY <1>2, JoinedIsSeq
  <2>2. QED
    BY <2>1 DEF FirstOf
<1>4. ASSUME k < n PROVE FirstOf(ss, k + 1) = FirstOf(ss, k) \o ss[k + 1]
  <2>1. Up(k + 1) \in [1..(k + 1) -> Seq(S)] /\ Up(k + 1)[k + 1] = ss[k + 1]
    BY <1>1, <1>4
  <2>2. [i \in 1..k |-> Up(k + 1)[i]] = Up(k)
    OBVIOUS
  <2>3. FlattenSeq(Up(k + 1)) = FlattenSeq([i \in 1..k |-> Up(k + 1)[i]]) \o Up(k + 1)[k + 1]
    <3> HIDE DEF Up
    <3>1. QED
      BY <2>1, JoinedTo
  <2>4. FlattenSeq(Up(k + 1)) = FlattenSeq(Up(k)) \o ss[k + 1]
    <3> HIDE DEF Up
    <3>1. QED
      BY <2>1, <2>2, <2>3
  <2>5. QED
    BY <2>4 DEF FirstOf
<1>5. ASSUME k = 0 PROVE FirstOf(ss, k) = <<>>
  <2>1. Up(k) = <<>> /\ Len(Up(k)) = 0
    BY <1>5
  <2>2. QED
    BY <2>1 DEF FirstOf, FlattenSeq
<1>6. ASSUME k = n PROVE FirstOf(ss, k) = FlattenSeq(ss)
  <2>1. Up(k) = ss
    BY <1>6
  <2>2. QED
    BY <2>1 DEF FirstOf
<1>7. QED
  BY <1>3, <1>4, <1>5, <1>6

LEMMA FirstEnds ==
  ASSUME NEW S, NEW n \in Nat, NEW ss \in [1..n -> Seq(S)]
  PROVE  FirstOf(ss, 0) = <<>> /\ FirstOf(ss, n) = FlattenSeq(ss) /\ FlattenSeq(ss) \in Seq(S)
<1>1. 0 <= n /\ n <= n
  OBVIOUS
<1>2. FirstOf(ss, 0) = <<>>
  BY <1>1, FirstGrows
<1>3. FirstOf(ss, n) = FlattenSeq(ss)
  <2>1. [i \in 1..n |-> ss[i]] = ss
    OBVIOUS
  <2>2. QED
    BY <2>1 DEF FirstOf
<1>4. QED
  BY <1>2, <1>3, JoinedIsSeq

LEMMA FirstNext ==
  ASSUME NEW S, NEW n \in Nat, NEW ss \in [1..n -> Seq(S)], NEW k \in Nat, k < n
  PROVE  FirstOf(ss, k + 1) = FirstOf(ss, k) \o ss[k + 1] /\ ss[k + 1] \in Seq(S)
<1>1. k <= n /\ k + 1 \in 1..n
  OBVIOUS
<1>2. QED
  BY ZenonT(40), <1>1, FirstGrows

(* f has s after its first "at" elements.                                  *)
Holds(f, at, s) == at + Len(s) <= Len(f) /\ \A j \in 1..Len(s) : f[at + j] = s[j]

(* Where the elements of one of the sequences are when all are joined.     *)
LEMMA JoinedHas ==
  ASSUME NEW S, NEW n \in Nat, NEW ss \in [1..n -> Seq(S)], NEW b \in Nat, b < n
  PROVE  Holds(FlattenSeq(ss), Len(FirstOf(ss, b)), ss[b + 1])
<1> DEFINE at == Len(FirstOf(ss, b))
           s == ss[b + 1]
           Has(f) == at + Len(s) <= Len(f) /\ \A j \in 1..Len(s) : f[at + j] = s[j]
           T == {d \in Nat : b + 1 + d <= n => Has(FirstOf(ss, b + 1 + d))}
<1>1. s \in Seq(S) /\ FirstOf(ss, b) \in Seq(S) /\ at \in Nat /\ Len(s) \in Nat
  BY FirstGrows
<1>2. 0 \in T
  <2>1. FirstOf(ss, b + 1) = FirstOf(ss, b) \o s
    BY ZenonT(40), FirstNext
  <2>2. \A f, g \in Seq(S) : Len(f \o g) = Len(f) + Len(g) /\ \A j \in 1..Len(g) : (f \o g)[Len(f) + j] = g[j]
    OBVIOUS
  <2>3. Has(FirstOf(ss, b) \o s)
    <3> DEFINE f == FirstOf(ss, b)
               g == f \o s
    <3>1. Len(g) = at + Len(s) /\ \A j \in 1..Len(s) : g[at + j] = s[j]
      BY <1>1, <2>2
    <3> HIDE DEF g, at, s
    <3>2. Has(g)
      BY <1>1, <3>1
    <3>3. QED
      BY <3>2 DEF g
  <2>4. b + 1 + 0 = b + 1
    OBVIOUS
  <2>5. QED
    BY <2>1, <2>3, <2>4
<1>3. ASSUME NEW d \in Nat, d \in T PROVE d + 1 \in T
  <2> SUFFICES ASSUME b + 1 + (d + 1) <= n PROVE Has(FirstOf(ss, b + 1 + (d + 1)))
    OBVIOUS
  <2> DEFINE k == b + 1 + d
  <2>1. k \in Nat /\ k < n /\ b + 1 + (d + 1) = k + 1
    OBVIOUS
  <2>2. Has(FirstOf(ss, k))
    BY <1>3
  <2> HIDE DEF k
  <2>3. FirstOf(ss, k) \in Seq(S) /\ FirstOf(ss, k + 1) = FirstOf(ss, k) \o ss[k + 1] /\ ss[k + 1] \in Seq(S)
    <3>1. k <= n /\ k + 1 \in 1..n
      BY <2>1
    <3>2. FirstOf(ss, k) \in Seq(S)
      BY <2>1, <3>1, FirstGrows
    <3>3. FirstOf(ss, k + 1) = FirstOf(ss, k) \o ss[k + 1]
      BY ZenonT(40), <2>1, FirstNext
    <3>4. QED
      BY <3>1, <3>2, <3>3
  <2>4. \A f, g \in Seq(S) : Len(f \o g) = Len(f) + Len(g) /\ \A j \in 1..Len(f) : (f \o g)[j] = f[j]
    OBVIOUS
  <2>5. \A j \in 1..Len(s) : at + j \in 1..Len(FirstOf(ss, k))
    <3> DEFINE l == Len(FirstOf(ss, k))
               c == Len(s)
    <3>1. at \in Nat /\ c \in Nat /\ l \in Nat /\ at + c <= l
      BY <1>1, <2>2, <2>3
    <3> HIDE DEF l, c, at
    <3>2. \A j \in 1..c : at + j \in 1..l
      BY <3>1
    <3>3. QED
      BY <3>2 DEF l, c
  <2>6. Has(FirstOf(ss, k) \o ss[k + 1])
    <3> DEFINE f == FirstOf(ss, k)
               g == f \o ss[k + 1]
    <3>1. Len(g) = Len(f) + Len(ss[k + 1]) /\ \A j \in 1..Len(f) : g[j] = f[j]
      BY <2>3, <2>4
    <3>2. at + Len(s) <= Len(f) /\ (\A j \in 1..Len(s) : f[at + j] = s[j]) /\ Len(f) \in Nat /\ Len(ss[k + 1]) \in Nat
      BY <2>2, <2>3
    <3>3. \A j \in 1..Len(s) : at + j \in 1..Len(f)
      BY <2>5
    <3> HIDE DEF g, f, at, s
    <3>4. at + Len(s) <= Len(g)
      <4> DEFINE c == at + Len(s)
                 l == Len(f)
                 m == Len(ss[k + 1])
      <4>1. c <= l /\ l \in Nat /\ m \in Nat /\ c \in Nat /\ Len(g) = l + m
        BY <1>1, <3>1, <3>2
      <4> HIDE DEF c, l, m
      <4>2. c <= l + m
        BY <4>1
      <4>3. QED
        BY <4>1, <4>2 DEF c
    <3>5. ASSUME NEW j \in 1..Len(s) PROVE g[at + j] = s[j]
      <4> DEFINE i == at + j
      <4>1. i \in 1..Len(f) /\ f[i] = s[j]
        BY <3>2, <3>3
      <4> HIDE DEF i
      <4>2. g[i] = s[j]
        BY <3>1, <4>1
      <4>3. QED
        BY <4>2 DEF i
    <3>6. QED
      BY <3>4, <3>5 DEF f, g
  <2>7. QED
    BY <2>1, <2>3, <2>6
<1> HIDE DEF T
<1>4. n - b - 1 \in T
  <2>1. Nat \subseteq T
    BY <1>2, <1>3, Induct
  <2>2. n - b - 1 \in Nat
    OBVIOUS
  <2>3. QED
    BY <2>1, <2>2
<1>5. FirstOf(ss, n) = FlattenSeq(ss)
  BY FirstGrows
<1>6. b + 1 + (n - b - 1) = n
  OBVIOUS
<1>7. Has(FirstOf(ss, b + 1 + (n - b - 1)))
  BY <1>4, <1>6 DEF T
<1>8. QED
  BY <1>5, <1>6, <1>7 DEF Holds

-----------------------------------------------------------------------------
(* What the first blocks of an answer come to.                             *)

LEMMA CutIsSeq ==
  ASSUME NEW b \in Nat \ {0}, NEW n \in Nat
  PROVE  Cut(b, n) \in Seq(Fragment) /\ Len(Cut(b, n)) = n /\ Cut(b, n + 1) = Append(Cut(b, n), <<b, n + 1>>)
         /\ <<b, n + 1>> \in Fragment /\ Cut(b, 0) = <<>>
<1>1. Cut(b, n) \in Seq(Fragment) /\ Len(Cut(b, n)) = n
  BY DEF Cut, Fragment
<1>2. Cut(b, n + 1) = Append(Cut(b, n), <<b, n + 1>>)
  BY <1>1 DEF Cut
<1>3. <<b, n + 1>> \in Fragment
  BY DEF Fragment
<1>4. Cut(b, 0) = <<>>
  BY DEF Cut
<1>5. QED
  BY <1>1, <1>2, <1>3, <1>4

TextParts(a) == [b \in 1..Len(a) |-> IF a[b].kind = "text" THEN Fragments(a, b) ELSE <<>>]
CallParts(a) ==
  [b \in 1..Len(a) |-> IF a[b].kind = "call" THEN <<[id |-> b, arguments |-> Fragments(a, b)]>> ELSE <<>>]

CallMade == [id : Nat \ {0}, arguments : Seq(Fragment)]

LEMMA UpToIs ==
  ASSUME NEW a \in Seq(Block), NEW b \in 0..Len(a)
  PROVE  UpTo(a, b) \in Seq(Block) /\ Len(UpTo(a, b)) = b /\ (\A c \in 1..b : UpTo(a, b)[c] = a[c])
         /\ (b = Len(a) => UpTo(a, b) = a)
  BY DEF UpTo

LEMMA PartsAreTyped ==
  ASSUME NEW a \in Seq(Block)
  PROVE  TextParts(a) \in [1..Len(a) -> Seq(Fragment)] /\ CallParts(a) \in [1..Len(a) -> Seq(CallMade)]
<1>1. ASSUME NEW b \in 1..Len(a) PROVE Fragments(a, b) \in Seq(Fragment)
  <2>1. b \in Nat \ {0} /\ a[b] \in Block
    OBVIOUS
  <2>2. a[b].size \in Nat
    BY <2>1 DEF Block
  <2>3. QED
    BY <2>1, <2>2, CutIsSeq DEF Fragments
<1>2. TextParts(a) \in [1..Len(a) -> Seq(Fragment)]
  BY <1>1 DEF TextParts
<1>3. ASSUME NEW b \in 1..Len(a) PROVE <<[id |-> b, arguments |-> Fragments(a, b)]>> \in Seq(CallMade)
  <2>1. [id |-> b, arguments |-> Fragments(a, b)] \in CallMade
    BY <1>1 DEF CallMade
  <2>2. QED
    BY <2>1
<1>4. CallParts(a) \in [1..Len(a) -> Seq(CallMade)]
  BY <1>3 DEF CallParts
<1>5. QED
  BY <1>2, <1>4

LEMMA FirstBlocks ==
  ASSUME NEW a \in Seq(Block), NEW b \in 0..Len(a)
  PROVE  TextOf(UpTo(a, b)) = FirstOf(TextParts(a), b) /\ CallsOf(UpTo(a, b)) = FirstOf(CallParts(a), b)
<1>1. Len(UpTo(a, b)) = b /\ \A c \in 1..b : UpTo(a, b)[c] = a[c] /\ c \in 1..Len(a)
  BY UpToIs
<1>2. \A c \in 1..b : Fragments(UpTo(a, b), c) = Fragments(a, c)
  BY <1>1 DEF Fragments
<1>3. TextOf(UpTo(a, b)) = FlattenSeq([c \in 1..b |-> IF a[c].kind = "text" THEN Fragments(a, c) ELSE <<>>])
  <2>1. [c \in 1..Len(UpTo(a, b)) |-> IF UpTo(a, b)[c].kind = "text" THEN Fragments(UpTo(a, b), c) ELSE <<>>]
        = [c \in 1..b |-> IF a[c].kind = "text" THEN Fragments(a, c) ELSE <<>>]
    BY <1>1, <1>2
  <2>2. QED
    BY <2>1 DEF TextOf
<1>4. [c \in 1..b |-> IF a[c].kind = "text" THEN Fragments(a, c) ELSE <<>>] = [c \in 1..b |-> TextParts(a)[c]]
  BY <1>1 DEF TextParts
<1>5. CallsOf(UpTo(a, b))
      = FlattenSeq([c \in 1..b |-> IF a[c].kind = "call" THEN <<[id |-> c, arguments |-> Fragments(a, c)]>> ELSE <<>>])
  <2>1. [c \in 1..Len(UpTo(a, b)) |->
           IF UpTo(a, b)[c].kind = "call" THEN <<[id |-> c, arguments |-> Fragments(UpTo(a, b), c)]>> ELSE <<>>]
        = [c \in 1..b |-> IF a[c].kind = "call" THEN <<[id |-> c, arguments |-> Fragments(a, c)]>> ELSE <<>>]
    BY <1>1, <1>2
  <2>2. QED
    BY <2>1 DEF CallsOf
<1>6. [c \in 1..b |-> IF a[c].kind = "call" THEN <<[id |-> c, arguments |-> Fragments(a, c)]>> ELSE <<>>]
      = [c \in 1..b |-> CallParts(a)[c]]
  BY <1>1 DEF CallParts
<1>7. QED
  BY <1>3, <1>4, <1>5, <1>6 DEF FirstOf

LEMMA AnswerGrows ==
  ASSUME NEW a \in Seq(Block), NEW b \in 0..Len(a)
  PROVE  /\ TextOf(UpTo(a, b)) \in Seq(Fragment) /\ CallsOf(UpTo(a, b)) \in Seq(CallMade)
         /\ b = 0 => TextOf(UpTo(a, b)) = <<>> /\ CallsOf(UpTo(a, b)) = <<>>
         /\ b = Len(a) => TextOf(UpTo(a, b)) = TextOf(a) /\ CallsOf(UpTo(a, b)) = CallsOf(a)
         /\ b < Len(a) =>
              /\ TextOf(UpTo(a, b + 1)) = TextOf(UpTo(a, b)) \o TextParts(a)[b + 1]
              /\ CallsOf(UpTo(a, b + 1)) = CallsOf(UpTo(a, b)) \o CallParts(a)[b + 1]
<1>1. b \in Nat /\ Len(a) \in Nat /\ b <= Len(a)
  OBVIOUS
<1>2. TextOf(UpTo(a, b)) \in Seq(Fragment) /\ (b = 0 => TextOf(UpTo(a, b)) = <<>>)
  <2>1. TextParts(a) \in [1..Len(a) -> Seq(Fragment)]
    BY PartsAreTyped
  <2>2. FirstOf(TextParts(a), b) \in Seq(Fragment) /\ (b = 0 => FirstOf(TextParts(a), b) = <<>>)
    BY ZenonT(40), <1>1, <2>1, FirstGrows
  <2>3. QED
    BY <2>2, FirstBlocks
<1>3. CallsOf(UpTo(a, b)) \in Seq(CallMade) /\ (b = 0 => CallsOf(UpTo(a, b)) = <<>>)
  <2>1. CallParts(a) \in [1..Len(a) -> Seq(CallMade)]
    BY PartsAreTyped
  <2>2. FirstOf(CallParts(a), b) \in Seq(CallMade) /\ (b = 0 => FirstOf(CallParts(a), b) = <<>>)
    BY ZenonT(40), <1>1, <2>1, FirstGrows
  <2>3. QED
    BY <2>2, FirstBlocks
<1>4. b = Len(a) => TextOf(UpTo(a, b)) = TextOf(a) /\ CallsOf(UpTo(a, b)) = CallsOf(a)
  BY UpToIs
<1>5. ASSUME b < Len(a)
      PROVE  /\ TextOf(UpTo(a, b + 1)) = TextOf(UpTo(a, b)) \o TextParts(a)[b + 1]
             /\ CallsOf(UpTo(a, b + 1)) = CallsOf(UpTo(a, b)) \o CallParts(a)[b + 1]
  <2>1. b + 1 \in 0..Len(a)
    BY <1>1, <1>5
  <2>2. FirstOf(TextParts(a), b + 1) = FirstOf(TextParts(a), b) \o TextParts(a)[b + 1]
    BY ZenonT(40), <1>1, <1>5, PartsAreTyped, FirstGrows
  <2>3. FirstOf(CallParts(a), b + 1) = FirstOf(CallParts(a), b) \o CallParts(a)[b + 1]
    BY ZenonT(40), <1>1, <1>5, PartsAreTyped, FirstGrows
  <2>4. QED
    BY <2>1, <2>2, <2>3, FirstBlocks
<1>6. QED
  BY <1>2, <1>3, <1>4, <1>5

-----------------------------------------------------------------------------
(* Where in a stream which event is.                                       *)

EventKind ==
  {"content", "tool", "finish", "usage", "message_start", "content_block_start", "content_block_delta",
   "content_block_stop", "message_delta", "text", "functionCall"}
AnyEvent == [kind : EventKind, block : Nat, piece : Nat]
AnyProvider == {"openai", "anthropic", "gemini"}

LEMMA BlocksAre ==
  ASSUME NEW a \in Seq(Block), NEW b \in 1..Len(a)
  PROVE  b \in Nat \ {0} /\ a[b].size \in Nat /\ a[b].kind \in {"text", "call"}
<1>1. a[b] \in Block /\ b \in Nat \ {0}
  OBVIOUS
<1>2. QED
  BY <1>1 DEF Block

LEMMA EventIs ==
  ASSUME NEW kind \in EventKind, NEW b \in Nat, NEW j \in Nat
  PROVE  Event(kind, b, j) \in AnyEvent
  BY DEF Event, AnyEvent

LEMMA BlockEventsAre ==
  ASSUME NEW p \in AnyProvider, NEW a \in Seq(Block), NEW b \in 1..Len(a), NEW n, n = a[b].size,
         NEW e, e = BlockEvents(p, a, b)
  PROVE  /\ e \in Seq(AnyEvent)
         /\ p = "openai" /\ a[b].kind = "text" => Len(e) = n /\ \A j \in 1..n : e[j] = Event("content", b, j)
         /\ p = "openai" /\ a[b].kind = "call" => Len(e) = n + 1 /\ \A j \in 1..(n + 1) : e[j] = Event("tool", b, j - 1)
         /\ p = "anthropic" =>
              /\ Len(e) = n + 2 /\ e[1] = Event("content_block_start", b, 0)
              /\ \A j \in 2..(n + 1) : e[j] = Event("content_block_delta", b, j - 1)
              /\ e[n + 2] = Event("content_block_stop", b, n + 1)
         /\ p = "gemini" /\ a[b].kind = "text" => Len(e) = n /\ \A j \in 1..n : e[j] = Event("text", b, j)
         /\ p = "gemini" /\ a[b].kind = "call" => Len(e) = 1 /\ e[1] = Event("functionCall", b, 0)
<1>1. n \in Nat /\ b \in Nat /\ a[b].kind \in {"text", "call"}
  BY BlocksAre
<1>3. CASE p = "openai" /\ a[b].kind = "text"
  <2>1. e = [j \in 1..n |-> Event("content", b, j)]
    BY <1>3 DEF BlockEvents
  <2>2. \A j \in 1..n : Event("content", b, j) \in AnyEvent
    BY <1>1, EventIs DEF EventKind
  <2>3. QED
    BY <1>1, <1>3, <2>1, <2>2
<1>4. CASE p = "openai" /\ a[b].kind = "call"
  <2>1. e = [j \in 1..(n + 1) |-> Event("tool", b, j - 1)]
    BY <1>4 DEF BlockEvents
  <2>2. \A j \in 1..(n + 1) : Event("tool", b, j - 1) \in AnyEvent
    BY <1>1, EventIs DEF EventKind
  <2>3. QED
    BY <1>1, <1>4, <2>1, <2>2
<1>5. CASE p = "anthropic"
  <2> DEFINE kind(j) == IF j = 1 THEN "content_block_start" ELSE IF j = n + 2 THEN "content_block_stop"
                        ELSE "content_block_delta"
  <2>1. e = [j \in 1..(n + 2) |-> Event(kind(j), b, j - 1)]
    BY <1>5 DEF BlockEvents
  <2>2. \A j \in 1..(n + 2) : Event(kind(j), b, j - 1) \in AnyEvent
    <3>1. \A j \in 1..(n + 2) : kind(j) \in EventKind /\ j - 1 \in Nat
      BY <1>1 DEF EventKind
    <3> HIDE DEF kind
    <3>2. QED
      BY <1>1, <3>1, EventIs
  <2>3. kind(1) = "content_block_start" /\ kind(n + 2) = "content_block_stop"
        /\ \A j \in 2..(n + 1) : kind(j) = "content_block_delta"
    BY <1>1
  <2> HIDE DEF kind
  <2>4. e \in Seq(AnyEvent) /\ Len(e) = n + 2
    <3>1. DOMAIN e = 1..(n + 2) /\ e = [j \in 1..(n + 2) |-> e[j]]
      BY <2>1
    <3>2. \A j \in 1..(n + 2) : e[j] \in AnyEvent
      BY <2>1, <2>2
    <3>3. e \in [1..(n + 2) -> AnyEvent] /\ n + 2 \in Nat
      BY <1>1, <3>1, <3>2
    <3>4. QED
      BY <3>3
  <2>5. e[1] = Event(kind(1), b, 0) /\ e[n + 2] = Event(kind(n + 2), b, n + 1)
    <3>1. 1 \in 1..(n + 2) /\ n + 2 \in 1..(n + 2) /\ 1 - 1 = 0 /\ (n + 2) - 1 = n + 1
      BY <1>1
    <3>2. QED
      BY <2>1, <3>1
  <2>6. \A j \in 2..(n + 1) : e[j] = Event(kind(j), b, j - 1)
    BY <1>1, <2>1
  <2>7. QED
    BY <1>5, <2>3, <2>4, <2>5, <2>6
<1>6. CASE p = "gemini" /\ a[b].kind = "text"
  <2>1. e = [j \in 1..n |-> Event("text", b, j)]
    BY <1>6 DEF BlockEvents
  <2>2. \A j \in 1..n : Event("text", b, j) \in AnyEvent
    BY <1>1, EventIs DEF EventKind
  <2>3. QED
    BY <1>1, <1>6, <2>1, <2>2
<1>7. CASE p = "gemini" /\ a[b].kind = "call"
  <2>1. e = <<Event("functionCall", b, 0)>>
    BY <1>7 DEF BlockEvents
  <2>2. Event("functionCall", b, 0) \in AnyEvent
    BY <1>1, EventIs DEF EventKind
  <2>3. e \in Seq(AnyEvent) /\ Len(e) = 1 /\ e[1] = Event("functionCall", b, 0)
    BY <2>1, <2>2
  <2>4. QED
    BY <1>7, <2>3
<1>8. QED
  BY <1>1, <1>3, <1>4, <1>5, <1>6, <1>7 DEF AnyProvider

LEMMA EventsOfAre ==
  ASSUME NEW p \in AnyProvider, NEW a \in Seq(Block)
  PROVE  EventsOf(p, a) \in [1..Len(a) -> Seq(AnyEvent)]
<1>1. \A b \in 1..Len(a) : BlockEvents(p, a, b) \in Seq(AnyEvent)
  BY BlockEventsAre
<1>2. QED
  BY <1>1 DEF EventsOf

LEMMA EndsAre ==
  ASSUME NEW p \in AnyProvider
  PROVE  /\ Opening(p) \in Seq(AnyEvent) /\ Closing(p) \in Seq(AnyEvent)
         /\ p = "anthropic" => Len(Opening(p)) = 1 /\ Opening(p)[1] = Event("message_start", 0, 0)
         /\ p # "anthropic" => Len(Opening(p)) = 0
         /\ p = "openai" => /\ Len(Closing(p)) = 2 /\ Closing(p)[1] = Event("finish", 0, 0)
                            /\ Closing(p)[2] = Event("usage", 0, 0)
         /\ p = "anthropic" => Len(Closing(p)) = 1 /\ Closing(p)[1] = Event("message_delta", 0, 0)
         /\ p = "gemini" => Len(Closing(p)) = 1 /\ Closing(p)[1] = Event("finish", 0, 0)
<1>1. \A kind \in EventKind : Event(kind, 0, 0) \in AnyEvent
  BY EventIs
<1>2. CASE p = "openai"
  BY <1>1, <1>2 DEF Opening, Closing, EventKind
<1>3. CASE p = "anthropic"
  BY <1>1, <1>3 DEF Opening, Closing, EventKind
<1>4. CASE p = "gemini"
  BY <1>1, <1>4 DEF Opening, Closing, EventKind
<1>5. QED
  BY <1>2, <1>3, <1>4 DEF AnyProvider

LEMMA EventsStand ==
  ASSUME NEW p \in AnyProvider, NEW a \in Seq(Block)
  PROVE  /\ Events(p, a) \in Seq(AnyEvent)
         /\ Before(p, a, 0) = Len(Opening(p))
         /\ \A t \in 1..Len(Opening(p)) : Events(p, a)[t] = Opening(p)[t]
         /\ Before(p, a, Len(a)) + Len(Closing(p)) = Len(Events(p, a))
         /\ \A t \in 1..Len(Closing(p)) : Events(p, a)[Before(p, a, Len(a)) + t] = Closing(p)[t]
<1> DEFINE o == Opening(p)
           f == FlattenSeq(EventsOf(p, a))
           c == Closing(p)
<1>1. Len(a) \in Nat /\ EventsOf(p, a) \in [1..Len(a) -> Seq(AnyEvent)]
  BY EventsOfAre
<1>2. FirstOf(EventsOf(p, a), 0) = <<>> /\ FirstOf(EventsOf(p, a), Len(a)) = f /\ f \in Seq(AnyEvent)
  BY <1>1, FirstEnds
<1>3. o \in Seq(AnyEvent) /\ c \in Seq(AnyEvent)
  BY EndsAre
<1>4. Before(p, a, 0) = Len(o) /\ Before(p, a, Len(a)) = Len(o) + Len(f)
  BY <1>2, <1>3 DEF Before, FirstOf
<1>5. Events(p, a) = (o \o f) \o c
  BY DEF Events
<1> HIDE DEF o, f, c
<1>6. /\ (o \o f) \o c \in Seq(AnyEvent) /\ Len((o \o f) \o c) = Len(o) + Len(f) + Len(c)
      /\ \A t \in 1..Len(o) : ((o \o f) \o c)[t] = o[t]
      /\ \A t \in 1..Len(c) : ((o \o f) \o c)[Len(o) + Len(f) + t] = c[t]
  BY <1>2, <1>3
<1>7. QED
  BY <1>4, <1>5, <1>6 DEF o, c

LEMMA BlocksStand ==
  ASSUME NEW p \in AnyProvider, NEW a \in Seq(Block), NEW b \in Nat, b < Len(a)
  PROVE  /\ Before(p, a, b) \in Nat
         /\ Before(p, a, b + 1) = Before(p, a, b) + Len(BlockEvents(p, a, b + 1))
         /\ Before(p, a, b + 1) <= Before(p, a, Len(a))
         /\ \A j \in 1..Len(BlockEvents(p, a, b + 1)) :
              Events(p, a)[Before(p, a, b) + j] = BlockEvents(p, a, b + 1)[j]
<1> DEFINE o == Opening(p)
           ss == EventsOf(p, a)
           f == FlattenSeq(ss)
           c == Closing(p)
           g == FirstOf(ss, b)
<1>1. Len(a) \in Nat /\ ss \in [1..Len(a) -> Seq(AnyEvent)] /\ ss[b + 1] = BlockEvents(p, a, b + 1)
  BY EventsOfAre DEF EventsOf
<1> HIDE DEF ss
<1>2. g \in Seq(AnyEvent) /\ f \in Seq(AnyEvent) /\ FirstOf(ss, Len(a)) = f
  <2>1. b <= Len(a)
    BY <1>1
  <2>2. g \in Seq(AnyEvent)
    BY <1>1, <2>1, FirstGrows
  <2>3. QED
    BY <1>1, <2>2, FirstEnds
<1>3. FirstOf(ss, b + 1) = g \o ss[b + 1] /\ ss[b + 1] \in Seq(AnyEvent)
  BY <1>1, FirstNext
<1>4. Len(g) + Len(ss[b + 1]) <= Len(f) /\ \A j \in 1..Len(ss[b + 1]) : f[Len(g) + j] = ss[b + 1][j]
  <2>1. Len(a) \in Nat /\ ss \in [1..Len(a) -> Seq(AnyEvent)] /\ b \in Nat /\ b < Len(a)
    BY <1>1
  <2> DEFINE n == Len(a)
  <2> HIDE DEF n, f, g
  <2>2. n \in Nat /\ ss \in [1..n -> Seq(AnyEvent)] /\ b < n
    BY <2>1 DEF n
  <2>3. Holds(FlattenSeq(ss), Len(FirstOf(ss, b)), ss[b + 1])
    BY <2>2, JoinedHas
  <2>4. QED
    BY <2>3 DEF Holds, f, g
<1>5. o \in Seq(AnyEvent) /\ c \in Seq(AnyEvent)
  BY EndsAre
<1>6. /\ Before(p, a, b) = Len(o) + Len(g) /\ Before(p, a, b + 1) = Len(o) + Len(FirstOf(ss, b + 1))
      /\ Before(p, a, Len(a)) = Len(o) + Len(f)
  BY <1>2 DEF Before, FirstOf, ss
<1>7. Events(p, a) = (o \o f) \o c
  BY DEF Events, ss
<1> DEFINE s == ss[b + 1]
<1>8. s \in Seq(AnyEvent) /\ Len(g \o s) = Len(g) + Len(s) /\ \A j \in 1..Len(s) : f[Len(g) + j] = s[j]
  BY <1>2, <1>3, <1>4
<1> HIDE DEF o, f, c, g, s
<1>9. \A t \in 1..Len(f) : ((o \o f) \o c)[Len(o) + t] = f[t]
  BY <1>2, <1>5
<1>10. \A j \in 1..Len(s) : Len(g) + j \in 1..Len(f) /\ (Len(o) + Len(g)) + j = Len(o) + (Len(g) + j)
  <2>1. Len(g) + Len(s) <= Len(f)
    BY <1>4 DEF s
  <2>2. QED
    BY <1>2, <1>5, <1>8, <2>1
<1>11. \A j \in 1..Len(s) : Events(p, a)[(Len(o) + Len(g)) + j] = s[j]
  BY <1>7, <1>8, <1>9, <1>10
<1>12. Len(o) \in Nat /\ Len(g) \in Nat /\ Len(s) \in Nat /\ Len(f) \in Nat
  BY <1>2, <1>5, <1>8
<1>13. s = BlockEvents(p, a, b + 1) /\ FirstOf(ss, b + 1) = g \o s
  BY <1>1, <1>3 DEF s
<1>14. Len(g) + Len(s) <= Len(f)
  BY <1>4 DEF s
<1>15. Before(p, a, b + 1) = Len(o) + Len(g) + Len(s)
  <2>1. Len(FirstOf(ss, b + 1)) = Len(g) + Len(s)
    BY <1>8, <1>13
  <2>2. Before(p, a, b + 1) = Len(o) + Len(FirstOf(ss, b + 1))
    BY <1>6
  <2>3. QED
    BY <1>12, <2>1, <2>2
<1>16. QED
  BY <1>6, <1>11, <1>12, <1>13, <1>14, <1>15

-----------------------------------------------------------------------------
(* What was handed on of the arguments of one call.                        *)

DeltaMade == [index : Nat \ {0}, arguments : Seq(Fragment)]

HandedParts(ds, i) == [k \in DOMAIN ds |-> IF ds[k].index = i THEN ds[k].arguments ELSE <<>>]
Handed(ds, i) == FlattenSeq(HandedParts(ds, i))

LEMMA HandedPartsAre ==
  ASSUME NEW ds \in Seq(DeltaMade), NEW i
  PROVE  HandedParts(ds, i) \in [1..Len(ds) -> Seq(Fragment)]
<1>1. ASSUME NEW k \in 1..Len(ds) PROVE ds[k].arguments \in Seq(Fragment)
  <2>1. ds[k] \in DeltaMade
    OBVIOUS
  <2>2. QED
    BY <2>1 DEF DeltaMade
<1>2. QED
  BY <1>1 DEF HandedParts

LEMMA HandedGrows ==
  ASSUME NEW ds \in Seq(DeltaMade), NEW d \in DeltaMade, NEW i
  PROVE  /\ Handed(ds, i) \in Seq(Fragment)
         /\ Handed(Append(ds, d), i) = Handed(ds, i) \o (IF d.index = i THEN d.arguments ELSE <<>>)
<1> DEFINE n == Len(ds)
           e == Append(ds, d)
           ss == HandedParts(e, i)
<1>1. n \in Nat /\ e \in Seq(DeltaMade) /\ Len(e) = n + 1 /\ e[n + 1] = d /\ \A k \in 1..n : e[k] = ds[k]
  OBVIOUS
<1>2. ss \in [1..(n + 1) -> Seq(Fragment)]
  BY <1>1, HandedPartsAre
<1>3. ss[n + 1] = (IF d.index = i THEN d.arguments ELSE <<>>)
  BY <1>1 DEF HandedParts
<1>4. [k \in 1..n |-> ss[k]] = HandedParts(ds, i)
  BY <1>1 DEF HandedParts
<1> HIDE DEF n, e, ss
<1>5. FlattenSeq(ss) = FlattenSeq([k \in 1..n |-> ss[k]]) \o ss[n + 1]
  BY <1>1, <1>2, JoinedTo
<1>6. Handed(ds, i) \in Seq(Fragment)
  <2>1. HandedParts(ds, i) \in [1..n -> Seq(Fragment)]
    BY HandedPartsAre DEF n
  <2>2. QED
    BY <1>1, <2>1, JoinedIsSeq DEF Handed
<1>7. QED
  BY <1>3, <1>4, <1>5, <1>6 DEF Handed, ss, e

LEMMA HandedToOne ==
  ASSUME NEW ds \in Seq(DeltaMade), NEW d \in DeltaMade, Handed(ds, d.index) \in Seq(Fragment)
  PROVE  Handed(Append(ds, d), d.index) = Handed(ds, d.index) \o d.arguments
<1> DEFINE i == d.index
<1>1. d.index = i
  OBVIOUS
<1> HIDE DEF i
<1>2. Handed(Append(ds, d), i) = Handed(ds, i) \o (IF d.index = i THEN d.arguments ELSE <<>>)
  BY HandedGrows
<1>3. QED
  BY <1>1, <1>2

LEMMA HandedToOthers ==
  ASSUME NEW ds \in Seq(DeltaMade), NEW d \in DeltaMade, NEW i, d.index # i
  PROVE  Handed(Append(ds, d), i) = Handed(ds, i)
<1>1. Handed(ds, i) \in Seq(Fragment) /\ Handed(Append(ds, d), i) = Handed(ds, i) \o (IF d.index = i THEN d.arguments ELSE <<>>)
  BY HandedGrows
<1>2. Handed(Append(ds, d), i) = Handed(ds, i) \o <<>>
  BY <1>1
<1>3. QED
  BY <1>1, <1>2

LEMMA DomainGrows ==
  ASSUME NEW S, NEW ds \in Seq(S), NEW d \in S, NEW k \in DOMAIN Append(ds, d)
  PROVE  (k \in DOMAIN ds /\ Append(ds, d)[k] = ds[k]) \/ Append(ds, d)[k] = d
  OBVIOUS

LEMMA HandedNothing ==
  ASSUME NEW ds \in Seq(DeltaMade), NEW i, \A k \in DOMAIN ds : ds[k].index # i
  PROVE  Handed(ds, i) = <<>>
<1>1. HandedParts(ds, i) = [k \in 1..Len(ds) |-> <<>>] /\ Len(ds) \in Nat
  BY DEF HandedParts
<1>2. QED
  BY <1>1, NothingJoined DEF Handed

LEMMA AddsUpIs ==
  ASSUME NEW s
  PROVE  AddsUp(s) <=> /\ s.shown = s.content
                       /\ \A i \in DOMAIN s.toolCalls : Handed(s.deltas, i) = s.toolCalls[i].arguments
                       /\ \A k \in DOMAIN s.deltas : s.deltas[k].index \in DOMAIN s.toolCalls
  BY DEF AddsUp, ChunksAddUp, Handed, HandedParts

-----------------------------------------------------------------------------
(* The ways in which an event changes what was made so far.                *)

Alike(s, t) ==
  t.content = s.content /\ t.shown = s.shown /\ t.toolCalls = s.toolCalls /\ t.deltas = s.deltas

Speaks(s, t, f) ==
  /\ t.content = Append(s.content, f) /\ t.shown = Append(s.shown, f)
  /\ t.toolCalls = s.toolCalls /\ t.deltas = s.deltas

Calls(s, t, id, arguments) ==
  /\ t.content = s.content /\ t.shown = s.shown
  /\ t.toolCalls = Append(s.toolCalls, [id |-> id, arguments |-> arguments])
  /\ \/ t.deltas = Append(s.deltas, Delta(Len(s.toolCalls) + 1, arguments))
     \/ arguments = <<>> /\ t.deltas = s.deltas

Extends(s, t, f) ==
  LET last == Len(s.toolCalls)
  IN /\ last > 0
     /\ t.content = s.content /\ t.shown = s.shown
     /\ t.toolCalls = [s.toolCalls EXCEPT ![last].arguments = Append(s.toolCalls[last].arguments, f)]
     /\ t.deltas = Append(s.deltas, Delta(last, <<f>>))

LEMMA MadeIs ==
  ASSUME NEW s \in Made
  PROVE  /\ s.content \in Seq(Fragment) /\ s.toolCalls \in Seq(CallMade) /\ s.json \in Seq(Fragment)
         /\ s.input \in BOOLEAN /\ s.output \in BOOLEAN
         /\ s.shown \in Seq(Fragment) /\ s.deltas \in Seq(DeltaMade)
  BY DEF Made, CallMade, DeltaMade

LEMMA AlikeAddsUp ==
  ASSUME NEW s \in Made, NEW t, Alike(s, t), AddsUp(s)
  PROVE  AddsUp(t)
  BY AddsUpIs DEF Alike

LEMMA SpeaksAddsUp ==
  ASSUME NEW s \in Made, NEW t, NEW f, Speaks(s, t, f), AddsUp(s)
  PROVE  AddsUp(t)
  BY AddsUpIs DEF Speaks

LEMMA CallsAddsUp ==
  ASSUME NEW s \in Made, NEW t, NEW id \in Nat \ {0}, NEW arguments \in Seq(Fragment),
         Calls(s, t, id, arguments), AddsUp(s)
  PROVE  AddsUp(t)
<1> DEFINE n == Len(s.toolCalls)
           call == [id |-> id, arguments |-> arguments]
           d == Delta(n + 1, arguments)
<1>1. s.toolCalls \in Seq(CallMade) /\ s.deltas \in Seq(DeltaMade) /\ call \in CallMade
  BY MadeIs DEF CallMade
<1>2. /\ n \in Nat /\ DOMAIN s.toolCalls = 1..n /\ DOMAIN t.toolCalls = 1..(n + 1)
      /\ t.toolCalls[n + 1] = call /\ \A i \in 1..n : t.toolCalls[i] = s.toolCalls[i]
  BY <1>1 DEF Calls
<1>3. d \in DeltaMade /\ d.index = n + 1 /\ d.arguments = arguments
  BY <1>2 DEF Delta, DeltaMade
<1>4. t.shown = t.content
  BY AddsUpIs DEF Calls
<1>5. \A k \in DOMAIN s.deltas : s.deltas[k].index \in 1..n
  BY <1>2, AddsUpIs
<1>6. Handed(s.deltas, n + 1) = <<>>
  <2>1. \A k \in DOMAIN s.deltas : s.deltas[k].index # n + 1
    BY <1>2, <1>5
  <2>2. QED
    BY <1>1, <2>1, HandedNothing
<1>7. \A i \in 1..n : Handed(s.deltas, i) = t.toolCalls[i].arguments
  BY <1>2, AddsUpIs
<1> HIDE DEF n, call, d
<1>8. CASE t.deltas = Append(s.deltas, d)
  <2>1. ASSUME NEW i \in 1..(n + 1) PROVE Handed(t.deltas, i) = t.toolCalls[i].arguments
    <3>2. CASE i = n + 1
      <4>1. Handed(Append(s.deltas, d), d.index) = Handed(s.deltas, d.index) \o d.arguments
        <5>1. Handed(s.deltas, d.index) = <<>> /\ <<>> \in Seq(Fragment)
          BY <1>3, <1>6
        <5>2. QED
          BY <1>1, <1>3, <5>1, HandedToOne
      <4>2. Handed(t.deltas, i) = <<>> \o arguments
        BY <1>3, <1>6, <1>8, <3>2, <4>1
      <4>3. <<>> \o arguments = arguments
        OBVIOUS
      <4>4. QED
        BY <1>2, <3>2, <4>2, <4>3 DEF call
    <3>3. CASE i # n + 1
      <4>1. Handed(Append(s.deltas, d), i) = Handed(s.deltas, i) /\ i \in 1..n
        BY <1>1, <1>2, <1>3, <3>3, HandedToOthers
      <4>2. QED
        BY <1>7, <1>8, <4>1
    <3>4. QED
      BY <3>2, <3>3
  <2>2. \A k \in DOMAIN t.deltas : t.deltas[k].index \in 1..(n + 1)
    <3> SUFFICES ASSUME NEW k \in DOMAIN t.deltas PROVE t.deltas[k].index \in 1..(n + 1)
      OBVIOUS
    <3>1. (k \in DOMAIN s.deltas /\ t.deltas[k] = s.deltas[k]) \/ t.deltas[k] = d
      BY <1>1, <1>3, <1>8, DomainGrows
    <3>2. QED
      BY <1>2, <1>3, <1>5, <3>1
  <2>3. QED
    BY <1>2, <1>4, <2>1, <2>2, AddsUpIs
<1>9. CASE arguments = <<>> /\ t.deltas = s.deltas
  <2>1. Handed(t.deltas, n + 1) = t.toolCalls[n + 1].arguments
    BY <1>2, <1>6, <1>9 DEF call
  <2>2. \A i \in 1..(n + 1) : Handed(t.deltas, i) = t.toolCalls[i].arguments
    BY <1>2, <1>7, <1>9, <2>1
  <2>3. \A k \in DOMAIN t.deltas : t.deltas[k].index \in 1..(n + 1)
    BY <1>2, <1>5, <1>9
  <2>4. QED
    BY <1>2, <1>4, <2>2, <2>3, AddsUpIs
<1>10. QED
  BY <1>8, <1>9 DEF Calls, d, n

LEMMA ExtendsAddsUp ==
  ASSUME NEW s \in Made, NEW t, NEW f \in Fragment, Extends(s, t, f), AddsUp(s)
  PROVE  AddsUp(t)
<1> DEFINE n == Len(s.toolCalls)
           d == Delta(n, <<f>>)
<1>1. s.toolCalls \in Seq(CallMade) /\ s.deltas \in Seq(DeltaMade)
  BY MadeIs
<1>2. n \in Nat \ {0} /\ DOMAIN s.toolCalls = 1..n /\ DOMAIN t.toolCalls = 1..n
  BY <1>1 DEF Extends
<1>3. s.toolCalls[n].arguments \in Seq(Fragment)
  <2>1. s.toolCalls[n] \in CallMade
    BY <1>1, <1>2
  <2>2. QED
    BY <2>1 DEF CallMade
<1>4. t.toolCalls[n].arguments = Append(s.toolCalls[n].arguments, f) /\ \A i \in 1..(n - 1) : t.toolCalls[i] = s.toolCalls[i]
  <2>1. s.toolCalls[n] \in CallMade /\ n \in DOMAIN s.toolCalls
    BY <1>1, <1>2
  <2>2. QED
    BY <1>2, <2>1 DEF Extends, CallMade
<1>5. d \in DeltaMade /\ d.index = n /\ d.arguments = <<f>>
  BY <1>2 DEF Delta, DeltaMade
<1>6. t.shown = t.content /\ t.deltas = Append(s.deltas, d)
  BY AddsUpIs DEF Extends
<1>7. \A k \in DOMAIN s.deltas : s.deltas[k].index \in 1..n
  BY <1>2, AddsUpIs
<1>8. \A i \in 1..n : Handed(s.deltas, i) = s.toolCalls[i].arguments
  BY <1>2, AddsUpIs
<1> HIDE DEF n, d
<1>9. ASSUME NEW i \in 1..n PROVE Handed(t.deltas, i) = t.toolCalls[i].arguments
  <2>2. CASE i = n
    <3>1. Handed(s.deltas, n) = s.toolCalls[n].arguments
      BY <1>8, <2>2
    <3>2. Handed(Append(s.deltas, d), d.index) = Handed(s.deltas, d.index) \o d.arguments
      BY <1>1, <1>3, <1>5, <3>1, HandedToOne
    <3>3. Handed(t.deltas, i) = s.toolCalls[n].arguments \o <<f>>
      BY <1>5, <1>6, <2>2, <3>1, <3>2
    <3>4. s.toolCalls[n].arguments \o <<f>> = Append(s.toolCalls[n].arguments, f)
      BY <1>3
    <3>5. QED
      BY <1>4, <2>2, <3>3, <3>4
  <2>3. CASE i # n
    <3>1. Handed(Append(s.deltas, d), i) = Handed(s.deltas, i) /\ i \in 1..(n - 1)
      BY <1>1, <1>2, <1>5, <2>3, HandedToOthers
    <3>2. QED
      BY <1>4, <1>6, <1>8, <3>1
  <2>4. QED
    BY <2>2, <2>3
<1>10. \A k \in DOMAIN t.deltas : t.deltas[k].index \in 1..n
  <2> SUFFICES ASSUME NEW k \in DOMAIN t.deltas PROVE t.deltas[k].index \in 1..n
    OBVIOUS
  <2>1. (k \in DOMAIN s.deltas /\ t.deltas[k] = s.deltas[k]) \/ t.deltas[k] = d
    BY <1>1, <1>5, <1>6, DomainGrows
  <2>2. QED
    BY <1>2, <1>5, <1>7, <2>1
<1>11. QED
  BY <1>2, <1>6, <1>9, <1>10, AddsUpIs

-----------------------------------------------------------------------------
(* What has been made of the first events of a block, event by event.      *)

LEMMA PiecesOfText ==
  ASSUME NEW p \in {"openai", "gemini"}, NEW block \in Block, NEW j \in Nat, block.kind = "text"
  PROVE  Pieces(p, block, j) = j
<1>1. CASE p = "openai"
  BY <1>1 DEF Pieces
<1>2. CASE p = "gemini"
  BY <1>2 DEF Pieces
<1>3. QED
  BY <1>1, <1>2

LEMMA PiecesOfOpenAiCall ==
  ASSUME NEW block \in Block, NEW j \in Nat \ {0}, block.kind = "call"
  PROVE  Pieces("openai", block, j) = j - 1
  BY DEF Pieces

LEMMA PiecesOfAnthropic ==
  ASSUME NEW block \in Block, NEW j \in Nat \ {0}
  PROVE  Pieces("anthropic", block, j) = IF j <= block.size + 1 THEN j - 1 ELSE block.size
<1>1. block.size \in Nat
  BY DEF Block
<1>2. QED
  BY <1>1 DEF Pieces

LEMMA PiecesOfGeminiCall ==
  ASSUME NEW block \in Block, block.kind = "call"
  PROVE  Pieces("gemini", block, 1) = block.size
  BY DEF Pieces

LEMMA AppendedLast ==
  ASSUME NEW f \in Seq(Fragment), NEW g \in Seq(Fragment), NEW e \in Fragment
  PROVE  Append(f \o g, e) = f \o Append(g, e)
<1> DEFINE l == Append(f \o g, e)
           r == f \o Append(g, e)
           n == Len(f) + Len(g) + 1
<1>1. l \in Seq(Fragment) /\ r \in Seq(Fragment) /\ Len(l) = n /\ Len(r) = n /\ Len(f) \in Nat /\ Len(g) \in Nat
  OBVIOUS
<1>2. ASSUME NEW i \in 1..n PROVE l[i] = r[i]
  <2>1. CASE i <= Len(f)
    BY <2>1
  <2>2. CASE i > Len(f) /\ i < n
    BY <2>2
  <2>3. CASE i = n
    BY <2>3
  <2>4. QED
    BY <1>1, <2>1, <2>2, <2>3
<1> HIDE DEF l, r
<1>3. l = [i \in 1..n |-> l[i]] /\ r = [i \in 1..n |-> r[i]]
  BY <1>1
<1>4. l = r
  BY <1>2, <1>3
<1>5. QED
  BY <1>4 DEF l, r

CallUpTo(b, n) == [id |-> b + 1, arguments |-> Cut(b + 1, n)]

AtBlock(a, s, b) == s.content = TextOf(UpTo(a, b)) /\ s.toolCalls = CallsOf(UpTo(a, b))

InText(a, s, b, n) == s.content = TextOf(UpTo(a, b)) \o Cut(b + 1, n) /\ s.toolCalls = CallsOf(UpTo(a, b))

InCall(a, s, b, n) ==
  s.content = TextOf(UpTo(a, b)) /\ s.toolCalls = CallsOf(UpTo(a, b)) \o <<CallUpTo(b, n)>>

LEMMA NothingAdded ==
  ASSUME NEW a \in Seq(Block), NEW b \in 0..Len(a)
  PROVE  TextOf(UpTo(a, b)) \o <<>> = TextOf(UpTo(a, b)) /\ CallsOf(UpTo(a, b)) \o <<>> = CallsOf(UpTo(a, b))
<1> DEFINE x == TextOf(UpTo(a, b))
           y == CallsOf(UpTo(a, b))
<1>1. x \in Seq(Fragment) /\ y \in Seq(CallMade)
  BY AnswerGrows
<1> HIDE DEF x, y
<1>2. x \o <<>> = x /\ y \o <<>> = y
  BY <1>1
<1>3. QED
  BY <1>2 DEF x, y

LEMMA SoFarAtBlock ==
  ASSUME NEW p, NEW a \in Seq(Block), NEW b \in 0..Len(a), NEW s
  PROVE  SoFar(p, a, s, b, 0) <=> AtBlock(a, s, b)
<1>1. Pieces(p, a[b + 1], 0) = 0 /\ Cut(b + 1, 0) = <<>>
  BY DEF Pieces, Cut
<1>2. TextSoFar(p, a, b, 0) = TextOf(UpTo(a, b)) \o <<>> /\ CallsSoFar(p, a, b, 0) = CallsOf(UpTo(a, b)) \o <<>>
  <2>1. ~(0 > 0)
    OBVIOUS
  <2>2. QED
    BY <1>1, <2>1 DEF TextSoFar, CallsSoFar
<1>3. ~(0 \in 1..(a[b + 1].size + 1))
  OBVIOUS
<1>4. QED
  BY <1>2, <1>3, NothingAdded DEF SoFar, AtBlock

LEMMA SoFarInText ==
  ASSUME NEW p, NEW a \in Seq(Block), NEW b \in 0..(Len(a) - 1), NEW j \in Nat, NEW s, a[b + 1].kind = "text"
  PROVE  SoFar(p, a, s, b, j) <=> InText(a, s, b, Pieces(p, a[b + 1], j))
<1>1. b \in 0..Len(a) /\ b < Len(a)
  OBVIOUS
<1>2. TextSoFar(p, a, b, j) = TextOf(UpTo(a, b)) \o Cut(b + 1, Pieces(p, a[b + 1], j))
      /\ CallsSoFar(p, a, b, j) = CallsOf(UpTo(a, b))
  BY <1>1, NothingAdded DEF TextSoFar, CallsSoFar
<1>3. QED
  BY <1>2 DEF SoFar, InText

LEMMA SoFarInCall ==
  ASSUME NEW p, NEW a \in Seq(Block), NEW b \in 0..(Len(a) - 1), NEW j \in Nat \ {0}, NEW s, a[b + 1].kind = "call"
  PROVE  SoFar(p, a, s, b, j) <=>
           /\ InCall(a, s, b, Pieces(p, a[b + 1], j))
           /\ p = "anthropic" /\ j <= a[b + 1].size + 1 => s.json = Cut(b + 1, Pieces(p, a[b + 1], j))
<1>1. b \in 0..Len(a) /\ b < Len(a) /\ j > 0 /\ b + 1 \in 1..Len(a)
  OBVIOUS
<1>2. TextSoFar(p, a, b, j) = TextOf(UpTo(a, b))
      /\ CallsSoFar(p, a, b, j) = CallsOf(UpTo(a, b)) \o <<CallUpTo(b, Pieces(p, a[b + 1], j))>>
  BY <1>1, NothingAdded DEF TextSoFar, CallsSoFar, CallUpTo
<1>3. j \in 1..(a[b + 1].size + 1) <=> j <= a[b + 1].size + 1
  <2>1. a[b + 1].size \in Nat
    BY <1>1, BlocksAre
  <2>2. QED
    BY <2>1
<1>4. QED
  BY <1>1, <1>2, <1>3 DEF SoFar, InCall

LEMMA SoFarAtEnd ==
  ASSUME NEW p, NEW a \in Seq(Block), NEW j, NEW s
  PROVE  SoFar(p, a, s, Len(a), j) <=> s.content = TextOf(a) /\ s.toolCalls = CallsOf(a)
<1>1. Len(a) \in 0..Len(a) /\ UpTo(a, Len(a)) = a /\ ~(Len(a) < Len(a))
  BY UpToIs
<1>2. TextOf(UpTo(a, Len(a))) \o <<>> = TextOf(UpTo(a, Len(a)))
      /\ CallsOf(UpTo(a, Len(a))) \o <<>> = CallsOf(UpTo(a, Len(a)))
  BY <1>1, NothingAdded
<1>3. TextSoFar(p, a, Len(a), j) = TextOf(UpTo(a, Len(a))) \o <<>>
      /\ CallsSoFar(p, a, Len(a), j) = CallsOf(UpTo(a, Len(a))) \o <<>>
  BY <1>1 DEF TextSoFar, CallsSoFar
<1>4. TextSoFar(p, a, Len(a), j) = TextOf(a) /\ CallsSoFar(p, a, Len(a), j) = CallsOf(a)
  BY <1>1, <1>2, <1>3
<1>5. QED
  BY <1>1, <1>4 DEF SoFar

(* A fragment of text, a call, a fragment of its arguments.                *)
LEMMA TextGoesOn ==
  ASSUME NEW a \in Seq(Block), NEW b \in 0..(Len(a) - 1), NEW n \in Nat, NEW s, NEW t,
         InText(a, s, b, n), Speaks(s, t, <<b + 1, n + 1>>)
  PROVE  InText(a, t, b, n + 1)
<1> DEFINE x == TextOf(UpTo(a, b))
           c == Cut(b + 1, n)
           f == <<b + 1, n + 1>>
<1>1. b \in 0..Len(a) /\ b + 1 \in Nat \ {0}
  OBVIOUS
<1>2. x \in Seq(Fragment)
  BY <1>1, AnswerGrows
<1>3. c \in Seq(Fragment) /\ f \in Fragment /\ Cut(b + 1, n + 1) = Append(c, f)
  BY <1>1, CutIsSeq
<1>4. t.content = Append(x \o c, f) /\ t.toolCalls = CallsOf(UpTo(a, b))
  BY DEF InText, Speaks
<1> HIDE DEF x, c, f
<1>5. Append(x \o c, f) = x \o Append(c, f)
  <2>1. x \in Seq(Fragment) /\ c \in Seq(Fragment) /\ f \in Fragment
    BY <1>2, <1>3
  <2>2. QED
    BY <2>1, AppendedLast
<1>6. QED
  BY <1>3, <1>4, <1>5 DEF InText, x

LEMMA CallBegins ==
  ASSUME NEW a \in Seq(Block), NEW b \in 0..(Len(a) - 1), NEW n \in Nat, NEW s, NEW t,
         AtBlock(a, s, b), Calls(s, t, b + 1, Cut(b + 1, n))
  PROVE  InCall(a, t, b, n)
<1> DEFINE y == CallsOf(UpTo(a, b))
           c == CallUpTo(b, n)
<1>1. y \in Seq(CallMade)
  <2>1. b \in 0..Len(a)
    OBVIOUS
  <2>2. QED
    BY <2>1, AnswerGrows
<1>2. t.content = TextOf(UpTo(a, b)) /\ t.toolCalls = Append(y, c)
  BY DEF AtBlock, Calls, CallUpTo
<1> HIDE DEF y, c
<1>3. Append(y, c) = y \o <<c>>
  BY <1>1
<1>4. QED
  BY <1>2, <1>3 DEF InCall, y, c

LEMMA CallGoesOn ==
  ASSUME NEW a \in Seq(Block), NEW b \in 0..(Len(a) - 1), NEW n \in Nat, NEW s, NEW t,
         InCall(a, s, b, n), Extends(s, t, <<b + 1, n + 1>>)
  PROVE  InCall(a, t, b, n + 1)
<1> DEFINE y == CallsOf(UpTo(a, b))
           c == CallUpTo(b, n)
           d == CallUpTo(b, n + 1)
           f == <<b + 1, n + 1>>
<1>1. b \in 0..Len(a) /\ b + 1 \in Nat \ {0}
  OBVIOUS
<1>2. y \in Seq(CallMade)
  BY <1>1, AnswerGrows
<1>3. Cut(b + 1, n + 1) = Append(Cut(b + 1, n), f)
  BY <1>1, CutIsSeq
<1>4. d = [c EXCEPT !.arguments = Append(c.arguments, f)]
  <2>1. c.arguments = Cut(b + 1, n)
    BY DEF CallUpTo
  <2>2. d = [id |-> b + 1, arguments |-> Append(Cut(b + 1, n), f)]
    BY <1>3 DEF CallUpTo
  <2>3. \A g, h : [[id |-> b + 1, arguments |-> g] EXCEPT !.arguments = h] = [id |-> b + 1, arguments |-> h]
    OBVIOUS
  <2>4. [c EXCEPT !.arguments = Append(Cut(b + 1, n), f)] = [id |-> b + 1, arguments |-> Append(Cut(b + 1, n), f)]
    <3> HIDE DEF f
    <3>1. QED
      BY <2>3 DEF CallUpTo
  <2>5. QED
    BY <2>1, <2>2, <2>4
<1>5. s.toolCalls = y \o <<c>> /\ t.content = TextOf(UpTo(a, b))
      /\ t.toolCalls = [s.toolCalls EXCEPT ![Len(s.toolCalls)].arguments = Append(s.toolCalls[Len(s.toolCalls)].arguments, f)]
  BY DEF InCall, Extends
<1> HIDE DEF y, c, d, f
<1> DEFINE m == Len(y) + 1
           q == y \o <<c>>
<1>6. q = s.toolCalls /\ Len(q) = m /\ q[m] = c /\ m \in DOMAIN q
  BY <1>2, <1>5
<1>7. t.toolCalls = [q EXCEPT ![m] = d]
  <2> HIDE DEF q, m
  <2>1. t.toolCalls = [q EXCEPT ![m].arguments = Append(q[m].arguments, f)]
    BY <1>5, <1>6
  <2>2. QED
    BY <1>4, <1>6, <2>1
<1>8. [q EXCEPT ![m] = d] = y \o <<d>>
  <2>1. /\ \A i \in 1..Len(y) : q[i] = y[i] /\ (y \o <<d>>)[i] = y[i]
        /\ (y \o <<d>>)[m] = d /\ DOMAIN q = 1..m /\ DOMAIN (y \o <<d>>) = 1..m /\ Len(y) \in Nat
    BY <1>2
  <2>2. y \o <<d>> = [i \in 1..m |-> (y \o <<d>>)[i]]
    BY <1>2
  <2>3. [q EXCEPT ![m] = d] = [i \in 1..m |-> IF i = m THEN d ELSE q[i]]
    BY <2>1
  <2>4. \A i \in 1..m : (y \o <<d>>)[i] = IF i = m THEN d ELSE q[i]
    BY <2>1
  <2>5. QED
    BY <2>2, <2>3, <2>4
<1>9. QED
  BY <1>5, <1>7, <1>8 DEF InCall, y, d

LEMMA NothingChanges ==
  ASSUME NEW a, NEW b, NEW n, NEW s, NEW t, Alike(s, t)
  PROVE  /\ AtBlock(a, s, b) <=> AtBlock(a, t, b)
         /\ InText(a, s, b, n) <=> InText(a, t, b, n)
         /\ InCall(a, s, b, n) <=> InCall(a, t, b, n)
  BY DEF Alike, AtBlock, InText, InCall

(* The end of a block is the beginning of the next one.                    *)
LEMMA BlockEnds ==
  ASSUME NEW a \in Seq(Block), NEW b \in 0..(Len(a) - 1), NEW s, NEW n, n = a[b + 1].size,
         IF a[b + 1].kind = "text" THEN InText(a, s, b, n) ELSE InCall(a, s, b, n)
  PROVE  AtBlock(a, s, b + 1)
<1>1. b \in 0..Len(a) /\ b < Len(a) /\ b + 1 \in 1..Len(a)
  OBVIOUS
<1>2. a[b + 1].kind \in {"text", "call"}
  BY <1>1, BlocksAre
<1>3. /\ TextOf(UpTo(a, b + 1)) = TextOf(UpTo(a, b)) \o TextParts(a)[b + 1]
      /\ CallsOf(UpTo(a, b + 1)) = CallsOf(UpTo(a, b)) \o CallParts(a)[b + 1]
  BY <1>1, AnswerGrows
<1>4. /\ TextParts(a)[b + 1] = IF a[b + 1].kind = "text" THEN Cut(b + 1, n) ELSE <<>>
      /\ CallParts(a)[b + 1] = IF a[b + 1].kind = "call" THEN <<CallUpTo(b, n)>> ELSE <<>>
  BY <1>1 DEF TextParts, CallParts, Fragments, CallUpTo
<1>5. TextOf(UpTo(a, b)) \o <<>> = TextOf(UpTo(a, b)) /\ CallsOf(UpTo(a, b)) \o <<>> = CallsOf(UpTo(a, b))
  BY <1>1, NothingAdded
<1>6. CASE a[b + 1].kind = "text"
  BY <1>3, <1>4, <1>5, <1>6 DEF InText, AtBlock
<1>7. CASE a[b + 1].kind = "call"
  BY <1>3, <1>4, <1>5, <1>7 DEF InCall, AtBlock
<1>8. QED
  BY <1>2, <1>6, <1>7

-----------------------------------------------------------------------------
(* What the three providers make of an event of a block.                   *)

Advances(p, a, s, t, b, j) ==
  t \in Made /\ AddsUp(t) /\ SoFar(p, a, t, b, j + 1) /\ (s.input => t.input)

LEMMA EventHas ==
  ASSUME NEW kind, NEW b, NEW j
  PROVE  Event(kind, b, j).kind = kind /\ Event(kind, b, j).block = b /\ Event(kind, b, j).piece = j
  BY DEF Event

LEMMA SayIs ==
  ASSUME NEW s \in Made, NEW f \in Fragment, NEW t, t = Say(s, f)
  PROVE  t \in Made /\ Speaks(s, t, f) /\ t.json = s.json /\ t.input = s.input /\ t.output = s.output
<1> DEFINE g == Append(s.content, f)
           h == Append(s.shown, f)
<1>1. g \in Seq(Fragment) /\ h \in Seq(Fragment)
  BY MadeIs
<1>2. t = [s EXCEPT !.content = g, !.shown = h]
  BY DEF Say
<1> HIDE DEF g, h
<1>3. t \in Made /\ t.content = g /\ t.shown = h
      /\ t.toolCalls = s.toolCalls /\ t.deltas = s.deltas /\ t.json = s.json /\ t.input = s.input /\ t.output = s.output
  BY <1>1, <1>2 DEF Made
<1>4. QED
  BY <1>3 DEF Speaks, g, h

LEMMA CallHasIndex ==
  ASSUME NEW a \in Seq(Block), NEW b \in 0..(Len(a) - 1), a[b + 1].kind = "call"
  PROVE  IndexOfCall(a, b + 1) = Len(CallsOf(UpTo(a, b))) + 1
<1> DEFINE y == CallsOf(UpTo(a, b))
           c == [id |-> b + 1, arguments |-> Fragments(a, b + 1)]
<1>1. b \in 0..Len(a) /\ b < Len(a) /\ b + 1 \in 1..Len(a)
  OBVIOUS
<1>2. y \in Seq(CallMade) /\ CallsOf(UpTo(a, b + 1)) = y \o CallParts(a)[b + 1]
  BY <1>1, AnswerGrows
<1>3. CallParts(a)[b + 1] = <<c>>
  BY <1>1 DEF CallParts
<1> HIDE DEF y, c
<1>4. Len(y \o <<c>>) = Len(y) + 1
  BY <1>2
<1>5. QED
  BY <1>2, <1>3, <1>4 DEF IndexOfCall, y

LEMMA CallsSoFarAre ==
  ASSUME NEW a \in Seq(Block), NEW b \in 0..(Len(a) - 1), NEW s, NEW n
  PROVE  /\ AtBlock(a, s, b) => Len(s.toolCalls) = Len(CallsOf(UpTo(a, b)))
         /\ InCall(a, s, b, n) => /\ Len(s.toolCalls) = Len(CallsOf(UpTo(a, b))) + 1
                                  /\ s.toolCalls[Len(s.toolCalls)] = CallUpTo(b, n)
         /\ Len(CallsOf(UpTo(a, b))) \in Nat
<1> DEFINE y == CallsOf(UpTo(a, b))
           c == CallUpTo(b, n)
<1>1. y \in Seq(CallMade)
  <2>1. b \in 0..Len(a)
    OBVIOUS
  <2>2. QED
    BY <2>1, AnswerGrows
<1> HIDE DEF y, c
<1>2. Len(y \o <<c>>) = Len(y) + 1 /\ (y \o <<c>>)[Len(y) + 1] = c /\ Len(y) \in Nat
  BY <1>1
<1>3. QED
  BY <1>2 DEF AtBlock, InCall, y, c

(* Fragments of text.                                                      *)
LEMMA TextAdvances ==
  ASSUME NEW p \in AnyProvider, NEW a \in Seq(Block), NEW b \in 0..(Len(a) - 1), NEW j \in Nat, NEW n \in Nat,
         NEW s \in Made, NEW t \in Made,
         a[b + 1].kind = "text", SoFar(p, a, s, b, j), AddsUp(s), Pieces(p, a[b + 1], j) = n,
         Pieces(p, a[b + 1], j + 1) = n + 1, Speaks(s, t, <<b + 1, n + 1>>), s.input => t.input
  PROVE  Advances(p, a, s, t, b, j)
<1>1. AddsUp(t)
  BY SpeaksAddsUp
<1>2. InText(a, s, b, n)
  BY SoFarInText
<1>3. InText(a, t, b, n + 1)
  BY <1>2, TextGoesOn
<1>4. SoFar(p, a, t, b, j + 1)
  <2>1. j + 1 \in Nat
    OBVIOUS
  <2>2. QED
    BY <1>3, <2>1, SoFarInText
<1>5. QED
  BY <1>1, <1>4 DEF Advances

(* The beginning of a call.                                                *)
LEMMA CallAdvances ==
  ASSUME NEW p \in AnyProvider, NEW a \in Seq(Block), NEW b \in 0..(Len(a) - 1), NEW n \in Nat,
         NEW s \in Made, NEW t \in Made,
         a[b + 1].kind = "call", SoFar(p, a, s, b, 0), AddsUp(s), Pieces(p, a[b + 1], 1) = n,
         Calls(s, t, b + 1, Cut(b + 1, n)), p = "anthropic" => t.json = Cut(b + 1, n), s.input => t.input
  PROVE  Advances(p, a, s, t, b, 0)
<1>1. b \in 0..Len(a) /\ b + 1 \in Nat \ {0} /\ 1 \in Nat \ {0} /\ 0 + 1 = 1
  OBVIOUS
<1>2. Cut(b + 1, n) \in Seq(Fragment)
  BY <1>1, CutIsSeq
<1>3. AddsUp(t)
  BY <1>1, <1>2, CallsAddsUp
<1>4. InCall(a, t, b, n)
  <2>1. AtBlock(a, s, b)
    BY <1>1, SoFarAtBlock
  <2>2. QED
    BY <2>1, CallBegins
<1>5. SoFar(p, a, t, b, 1)
  BY <1>1, <1>4, SoFarInCall
<1>6. QED
  BY <1>1, <1>3, <1>5 DEF Advances

(* A fragment of its arguments.                                            *)
LEMMA ArgumentsAdvance ==
  ASSUME NEW p \in AnyProvider, NEW a \in Seq(Block), NEW b \in 0..(Len(a) - 1), NEW j \in Nat \ {0}, NEW n \in Nat,
         NEW s \in Made, NEW t \in Made,
         a[b + 1].kind = "call", SoFar(p, a, s, b, j), AddsUp(s), Pieces(p, a[b + 1], j) = n,
         Pieces(p, a[b + 1], j + 1) = n + 1, Extends(s, t, <<b + 1, n + 1>>),
         p = "anthropic" => t.json = Cut(b + 1, n + 1), s.input => t.input
  PROVE  Advances(p, a, s, t, b, j)
<1>1. b + 1 \in Nat \ {0} /\ j + 1 \in Nat \ {0}
  OBVIOUS
<1>2. <<b + 1, n + 1>> \in Fragment
  BY <1>1, CutIsSeq
<1>3. AddsUp(t)
  BY <1>2, ExtendsAddsUp
<1>4. InCall(a, s, b, n)
  BY SoFarInCall
<1>5. InCall(a, t, b, n + 1)
  BY <1>4, CallGoesOn
<1>6. SoFar(p, a, t, b, j + 1)
  BY <1>1, <1>5, SoFarInCall
<1>7. QED
  BY <1>3, <1>6 DEF Advances

(* The start of a block of text, and the end of any block.                 *)
LEMMA NothingAdvances ==
  ASSUME NEW p \in AnyProvider, NEW a \in Seq(Block), NEW b \in 0..(Len(a) - 1), NEW j \in Nat, NEW n \in Nat,
         NEW s \in Made, NEW t \in Made, SoFar(p, a, s, b, j), AddsUp(s), Pieces(p, a[b + 1], j) = n,
         Pieces(p, a[b + 1], j + 1) = n, Alike(s, t), s.input => t.input,
         a[b + 1].kind = "text" \/ j > a[b + 1].size
  PROVE  Advances(p, a, s, t, b, j)
<1>1. b + 1 \in 1..Len(a) /\ j + 1 \in Nat \ {0} /\ j + 1 \in Nat
  OBVIOUS
<1>2. a[b + 1].size \in Nat /\ a[b + 1].kind \in {"text", "call"}
  BY <1>1, BlocksAre
<1>3. AddsUp(t)
  BY AlikeAddsUp
<1>4. CASE a[b + 1].kind = "text"
  <2>1. InText(a, t, b, n)
    BY <1>4, SoFarInText, NothingChanges
  <2>2. SoFar(p, a, t, b, j + 1)
    BY <1>1, <1>4, <2>1, SoFarInText
  <2>3. QED
    BY <1>3, <2>2 DEF Advances
<1>5. CASE a[b + 1].kind = "call"
  <2>1. j > a[b + 1].size /\ j \in Nat \ {0}
    BY <1>2, <1>5
  <2>2. InCall(a, t, b, n)
    <3>1. InCall(a, s, b, n)
      BY <1>5, <2>1, SoFarInCall
    <3>2. QED
      BY <3>1, NothingChanges
  <2>3. ~(j + 1 <= a[b + 1].size + 1)
    BY <1>2, <2>1
  <2>4. SoFar(p, a, t, b, j + 1)
    BY <1>1, <1>5, <2>2, <2>3, SoFarInCall
  <2>5. QED
    BY <1>3, <2>4 DEF Advances
<1>6. QED
  BY <1>2, <1>4, <1>5

LEMMA CallMadeOf ==
  ASSUME NEW s \in Made, NEW id \in Nat \ {0}, NEW arguments \in Seq(Fragment), NEW call, NEW d,
         call = [id |-> id, arguments |-> arguments], d = Delta(Len(s.toolCalls) + 1, arguments)
  PROVE  /\ Append(s.toolCalls, call) \in Seq(CallMade) /\ Append(s.deltas, d) \in Seq(DeltaMade)
         /\ Len(s.toolCalls) \in Nat
<1>1. s.toolCalls \in Seq(CallMade) /\ s.deltas \in Seq(DeltaMade) /\ Len(s.toolCalls) \in Nat
  <2>1. s.toolCalls \in Seq(CallMade) /\ s.deltas \in Seq(DeltaMade)
    BY MadeIs
  <2>2. QED
    BY <2>1
<1>2. call \in CallMade
  BY DEF CallMade
<1>3. d \in DeltaMade
  BY <1>1 DEF DeltaMade, Delta
<1>4. QED
  BY <1>1, <1>2, <1>3

LEMMA ArgumentsMadeOf ==
  ASSUME NEW s \in Made, NEW f \in Fragment, NEW last, last = Len(s.toolCalls), last > 0, NEW cs, NEW d,
         cs = [s.toolCalls EXCEPT ![last].arguments = Append(s.toolCalls[last].arguments, f)], d = Delta(last, <<f>>)
  PROVE  cs \in Seq(CallMade) /\ Append(s.deltas, d) \in Seq(DeltaMade)
<1>1. s.toolCalls \in Seq(CallMade) /\ s.deltas \in Seq(DeltaMade)
  BY MadeIs
<1>2. last \in Nat \ {0} /\ last \in 1..Len(s.toolCalls)
  BY <1>1
<1>3. s.toolCalls[last] \in CallMade
  BY <1>1, <1>2
<1>4. Append(s.toolCalls[last].arguments, f) \in Seq(Fragment)
  BY <1>3 DEF CallMade
<1>5. [s.toolCalls[last] EXCEPT !.arguments = Append(s.toolCalls[last].arguments, f)] \in CallMade
  BY <1>3, <1>4 DEF CallMade
<1>6. cs \in Seq(CallMade)
  BY <1>1, <1>2, <1>5
<1>7. d \in DeltaMade
  BY <1>2 DEF DeltaMade, Delta
<1>8. QED
  BY <1>1, <1>6, <1>7

WithCalls(s, cs, ds) == [s EXCEPT !.toolCalls = cs, !.deltas = ds]

LEMMA MadeWithCalls ==
  ASSUME NEW s \in Made, NEW cs \in Seq(CallMade), NEW ds \in Seq(DeltaMade), NEW t, t = WithCalls(s, cs, ds)
  PROVE  /\ t \in Made /\ t.toolCalls = cs /\ t.deltas = ds /\ t.content = s.content /\ t.shown = s.shown
         /\ t.json = s.json /\ t.input = s.input /\ t.output = s.output
  BY DEF Made, CallMade, DeltaMade, WithCalls

LEMMA OpenAiAdvances ==
  ASSUME NEW a \in Seq(Block), NEW b \in 0..(Len(a) - 1), NEW j \in Nat, NEW s \in Made, NEW e, NEW t,
         SoFar("openai", a, s, b, j), AddsUp(s), j < Len(BlockEvents("openai", a, b + 1)),
         e = BlockEvents("openai", a, b + 1)[j + 1], t = OpenAiHandles(a, s, e)
  PROVE  Advances("openai", a, s, t, b, j)
<1> DEFINE p == "openai"
           n == a[b + 1].size
<1>1. b \in 0..Len(a) /\ b + 1 \in 1..Len(a) /\ b + 1 \in Nat \ {0} /\ p \in AnyProvider
  BY DEF AnyProvider
<1>2. n \in Nat /\ a[b + 1].kind \in {"text", "call"} /\ a[b + 1] \in Block
  BY <1>1, BlocksAre
<1>3. CASE a[b + 1].kind = "text"
  <2>1. j \in 0..(n - 1) /\ e = Event("content", b + 1, j + 1)
    BY <1>1, <1>2, <1>3, BlockEventsAre
  <2>2. t = Say(s, <<b + 1, j + 1>>)
    BY SMTT(30), <2>1, EventHas DEF OpenAiHandles
  <2>3. <<b + 1, j + 1>> \in Fragment
    BY <1>1, CutIsSeq
  <2>4. t \in Made /\ Speaks(s, t, <<b + 1, j + 1>>) /\ t.input = s.input
    BY <2>2, <2>3, SayIs
  <2>5. Pieces(p, a[b + 1], j) = j /\ Pieces(p, a[b + 1], j + 1) = j + 1
    <3>1. p \in {"openai", "gemini"} /\ j + 1 \in Nat
      OBVIOUS
    <3>2. QED
      BY <1>2, <1>3, <3>1, PiecesOfText
  <2>6. QED
    BY <1>1, <1>3, <2>4, <2>5, TextAdvances
<1>4. CASE a[b + 1].kind = "call"
  <2>1. j \in 0..n /\ e = Event("tool", b + 1, (j + 1) - 1) /\ (j + 1) - 1 = j
    <3>1. /\ Len(BlockEvents(p, a, b + 1)) = n + 1
          /\ \A i \in 1..(n + 1) : BlockEvents(p, a, b + 1)[i] = Event("tool", b + 1, i - 1)
      BY <1>1, <1>4, BlockEventsAre
    <3>2. j < n + 1 /\ j + 1 \in 1..(n + 1)
      BY SMTT(30), <1>2, <3>1
    <3>3. e = Event("tool", b + 1, (j + 1) - 1)
      BY <3>1, <3>2
    <3>4. QED
      BY <1>2, <3>2, <3>3
  <2>2. e.kind = "tool" /\ e.block = b + 1 /\ e.piece = j
    BY <2>1, EventHas
  <2>3. IndexOfCall(a, b + 1) = Len(CallsOf(UpTo(a, b))) + 1
    BY <1>4, CallHasIndex
  <2>4. CASE j = 0
    <3>1. AtBlock(a, s, b)
      BY <1>1, <2>4, SoFarAtBlock
    <3>2. IndexOfCall(a, b + 1) = Len(s.toolCalls) + 1
      BY <2>3, <3>1, CallsSoFarAre
    <3> DEFINE cs == Append(s.toolCalls, [id |-> b + 1, arguments |-> <<>>])
               ds == Append(s.deltas, Delta(Len(s.toolCalls) + 1, <<>>))
    <3>3. t = WithCalls(s, cs, ds)
      <4>1. e.kind = "tool" /\ e.piece = 0 /\ e.block = b + 1
        BY <2>2, <2>4
      <4>2. t = [s EXCEPT !.toolCalls = Append(@, [id |-> e.block, arguments |-> <<>>]),
                          !.deltas = Append(@, Delta(IndexOfCall(a, e.block), <<>>))]
        BY <4>1 DEF OpenAiHandles
      <4>3. QED
        BY <3>2, <4>1, <4>2 DEF WithCalls
    <3>4. cs \in Seq(CallMade) /\ ds \in Seq(DeltaMade)
      <4>1. <<>> \in Seq(Fragment)
        OBVIOUS
      <4>2. QED
        BY <1>1, <4>1, CallMadeOf
    <3> HIDE DEF cs, ds
    <3>5. t \in Made
      BY <3>3, <3>4, MadeWithCalls
    <3>6. t.toolCalls = cs /\ t.deltas = ds /\ t.content = s.content /\ t.shown = s.shown /\ t.input = s.input
      BY <3>3, <3>4, MadeWithCalls
    <3>7. Cut(b + 1, 0) = <<>>
      BY DEF Cut
    <3>8. Calls(s, t, b + 1, Cut(b + 1, 0))
      BY <3>6, <3>7 DEF Calls, cs, ds
    <3>9. Pieces(p, a[b + 1], 1) = 0
      <4>1. 1 \in Nat \ {0} /\ 1 - 1 = 0
        OBVIOUS
      <4>2. QED
        BY <1>2, <1>4, <4>1, PiecesOfOpenAiCall
    <3>10. 0 \in Nat /\ p # "anthropic"
      OBVIOUS
    <3>11. QED
      BY <1>1, <1>4, <2>4, <3>5, <3>6, <3>8, <3>9, <3>10, CallAdvances
  <2>5. CASE j # 0
    <3> DEFINE m == j - 1
               f == <<b + 1, m + 1>>
               last == Len(s.toolCalls)
    <3>1. m \in Nat /\ m + 1 = j /\ j \in Nat \ {0}
      BY <2>5
    <3>2. Pieces(p, a[b + 1], j) = m /\ Pieces(p, a[b + 1], j + 1) = m + 1
      <4>1. j + 1 \in Nat \ {0} /\ (j + 1) - 1 = m + 1 /\ j - 1 = m
        BY <3>1
      <4> HIDE DEF m
      <4>2. QED
        BY <1>2, <1>4, <3>1, <4>1, PiecesOfOpenAiCall
    <3>3. InCall(a, s, b, m)
      BY <1>4, <3>1, <3>2, SoFarInCall
    <3>4. last = IndexOfCall(a, b + 1) /\ last > 0
      BY <2>3, <3>3, CallsSoFarAre
    <3> DEFINE cs == [s.toolCalls EXCEPT ![last].arguments = Append(s.toolCalls[last].arguments, f)]
               ds == Append(s.deltas, Delta(last, <<f>>))
    <3>5. t = WithCalls(s, cs, ds)
      <4>1. e.piece > 0 /\ f = <<e.block, e.piece>>
        BY <2>2, <3>1
      <4>2. t = [s EXCEPT !.toolCalls[IndexOfCall(a, e.block)].arguments = Append(@, <<e.block, e.piece>>),
                          !.deltas = Append(@, Delta(IndexOfCall(a, e.block), <<<<e.block, e.piece>>>>))]
        BY <2>2, <4>1 DEF OpenAiHandles
      <4> HIDE DEF f, last
      <4>3. t = [s EXCEPT !.toolCalls[last].arguments = Append(@, f), !.deltas = Append(@, Delta(last, <<f>>))]
        BY <2>2, <3>4, <4>1, <4>2
      <4>4. QED
        BY <4>3 DEF Made, WithCalls
    <3>6. f \in Fragment
      BY <1>1, <3>1, CutIsSeq
    <3>7. cs \in Seq(CallMade) /\ ds \in Seq(DeltaMade)
      <4> HIDE DEF f
      <4>1. QED
        BY <3>4, <3>6, ArgumentsMadeOf
    <3>8. t \in Made /\ t.toolCalls = cs /\ t.deltas = ds /\ t.content = s.content /\ t.shown = s.shown /\ t.input = s.input
      <4> HIDE DEF cs, ds
      <4>1. QED
        BY <3>5, <3>7, MadeWithCalls
    <3>9. Extends(s, t, f)
      BY <3>4, <3>8 DEF Extends
    <3>10. p # "anthropic"
      OBVIOUS
    <3> HIDE DEF m, p
    <3>11. QED
      BY <1>1, <1>4, <3>1, <3>2, <3>8, <3>9, <3>10, ArgumentsAdvance DEF p
  <2>6. QED
    BY <2>4, <2>5
<1>5. QED
  BY <1>2, <1>3, <1>4

WithArguments(s, json, cs, ds) == [s EXCEPT !.json = json, !.toolCalls = cs, !.deltas = ds]

LEMMA MadeWithArguments ==
  ASSUME NEW s \in Made, NEW json \in Seq(Fragment), NEW cs \in Seq(CallMade), NEW ds \in Seq(DeltaMade), NEW t,
         t = WithArguments(s, json, cs, ds)
  PROVE  /\ t \in Made /\ t.toolCalls = cs /\ t.deltas = ds /\ t.content = s.content /\ t.shown = s.shown
         /\ t.json = json /\ t.input = s.input /\ t.output = s.output
  BY DEF Made, CallMade, DeltaMade, WithArguments

LEMMA AnthropicAdvances ==
  ASSUME NEW a \in Seq(Block), NEW b \in 0..(Len(a) - 1), NEW j \in Nat, NEW s \in Made, NEW e, NEW t,
         SoFar("anthropic", a, s, b, j), AddsUp(s), j < Len(BlockEvents("anthropic", a, b + 1)),
         e = BlockEvents("anthropic", a, b + 1)[j + 1], t = AnthropicHandles(a, s, e)
  PROVE  Advances("anthropic", a, s, t, b, j)
<1> DEFINE p == "anthropic"
           n == a[b + 1].size
           block == a[b + 1]
<1>1. b \in 0..Len(a) /\ b + 1 \in 1..Len(a) /\ b + 1 \in Nat \ {0} /\ p \in AnyProvider
  BY DEF AnyProvider
<1>2. n \in Nat /\ a[b + 1].kind \in {"text", "call"} /\ a[b + 1] \in Block
  BY <1>1, BlocksAre
<1>3. /\ j \in 0..(n + 1)
      /\ j = 0 => e = Event("content_block_start", b + 1, 0)
      /\ j \in 1..n => e = Event("content_block_delta", b + 1, j)
      /\ j = n + 1 => e = Event("content_block_stop", b + 1, n + 1)
  <2> DEFINE es == BlockEvents(p, a, b + 1)
  <2>1. /\ Len(es) = n + 2 /\ es[1] = Event("content_block_start", b + 1, 0)
        /\ \A i \in 2..(n + 1) : es[i] = Event("content_block_delta", b + 1, i - 1)
        /\ es[n + 2] = Event("content_block_stop", b + 1, n + 1)
    BY <1>1, BlockEventsAre
  <2>2. e = es[j + 1] /\ j < Len(es)
    OBVIOUS
  <2> HIDE DEF es
  <2>3. j \in 0..(n + 1)
    BY <1>2, <2>1, <2>2
  <2>4. ASSUME j = 0 PROVE e = Event("content_block_start", b + 1, 0)
    <3>1. j + 1 = 1
      BY <2>4
    <3>2. QED
      BY <2>1, <2>2, <3>1
  <2>5. ASSUME j \in 1..n PROVE e = Event("content_block_delta", b + 1, j)
    <3>1. j + 1 \in 2..(n + 1) /\ (j + 1) - 1 = j
      BY <1>2, <2>5
    <3>2. es[j + 1] = Event("content_block_delta", b + 1, (j + 1) - 1)
      BY <2>1, <3>1
    <3>3. QED
      BY <2>2, <3>1, <3>2
  <2>6. ASSUME j = n + 1 PROVE e = Event("content_block_stop", b + 1, n + 1)
    <3>1. j + 1 = n + 2
      BY <1>2, <2>6
    <3>2. QED
      BY <2>1, <2>2, <3>1
  <2>7. QED
    BY <2>3, <2>4, <2>5, <2>6
<1>4. /\ Pieces(p, block, 0) = 0 /\ Pieces(p, block, 1) = 0
      /\ j \in 1..n => Pieces(p, block, j) = j - 1 /\ Pieces(p, block, j + 1) = j
      /\ j = n + 1 => Pieces(p, block, j) = n /\ Pieces(p, block, j + 1) = n
  <2>1. Pieces(p, block, 0) = 0
    BY DEF Pieces
  <2>2. \A i \in Nat \ {0} : Pieces(p, block, i) = IF i <= n + 1 THEN i - 1 ELSE n
    BY <1>2, PiecesOfAnthropic
  <2> HIDE DEF n, p, block
  <2>3. QED
    BY <1>2, <2>1, <2>2 DEF n, block
<1>5. s.toolCalls \in Seq(CallMade) /\ s.deltas \in Seq(DeltaMade) /\ s.json \in Seq(Fragment)
  BY MadeIs
<1>6. CASE j = 0 /\ a[b + 1].kind = "text"
  <2>1. e.kind = "content_block_start" /\ e.block = b + 1
    BY <1>3, <1>6, EventHas
  <2>2. t = s
    BY <1>6, <2>1 DEF AnthropicHandles
  <2>3. Alike(s, t)
    BY <2>2 DEF Alike
  <2>4. 0 \in Nat /\ 0 + 1 = 1
    OBVIOUS
  <2>5. QED
    BY <1>1, <1>4, <1>6, <2>2, <2>3, <2>4, NothingAdvances
<1>7. CASE j = 0 /\ a[b + 1].kind = "call"
  <2>1. e.kind = "content_block_start" /\ e.block = b + 1
    BY <1>3, <1>7, EventHas
  <2> DEFINE cs == Append(s.toolCalls, [id |-> b + 1, arguments |-> <<>>])
  <2>2. t = [s EXCEPT !.toolCalls = Append(@, [id |-> e.block, arguments |-> <<>>]), !.json = <<>>]
    BY <1>7, <2>1 DEF AnthropicHandles
  <2> DEFINE none == <<>>
  <2>3. t = WithArguments(s, none, cs, s.deltas)
    BY <2>1, <2>2 DEF WithArguments, Made
  <2>4. cs \in Seq(CallMade) /\ none \in Seq(Fragment)
    <3>1. <<>> \in Seq(Fragment)
      OBVIOUS
    <3>2. QED
      BY <1>1, <3>1, CallMadeOf
  <2>6. Cut(b + 1, 0) = <<>> /\ none = <<>>
    BY DEF Cut
  <2> HIDE DEF cs, none
  <2>5. t \in Made /\ t.toolCalls = cs /\ t.deltas = s.deltas /\ t.content = s.content /\ t.shown = s.shown
        /\ t.json = none /\ t.input = s.input
    BY <1>5, <2>3, <2>4, MadeWithArguments
  <2>7. Calls(s, t, b + 1, Cut(b + 1, 0)) /\ t.json = Cut(b + 1, 0)
    BY <2>5, <2>6 DEF Calls, cs
  <2>8. 0 \in Nat
    OBVIOUS
  <2>9. QED
    BY <1>1, <1>4, <1>7, <2>5, <2>7, <2>8, CallAdvances
<1>8. CASE j \in 1..n
  <2> DEFINE m == j - 1
             f == <<b + 1, m + 1>>
  <2>1. m \in Nat /\ m + 1 = j /\ j \in Nat \ {0}
    BY <1>2, <1>8
  <2>2. e.kind = "content_block_delta" /\ e.block = b + 1 /\ e.piece = j
    BY <1>3, <1>8, EventHas
  <2>3. Pieces(p, a[b + 1], j) = m /\ Pieces(p, a[b + 1], j + 1) = m + 1
    BY <1>4, <1>8, <2>1
  <2>4. f = <<e.block, e.piece>> /\ f \in Fragment /\ Cut(b + 1, m + 1) = Append(Cut(b + 1, m), f)
    BY <1>1, <2>1, <2>2, CutIsSeq
  <2> HIDE DEF m, f
  <2>5. CASE a[b + 1].kind = "text"
    <3>1. t = Say(s, f)
      BY <2>2, <2>4, <2>5 DEF AnthropicHandles
    <3>2. t \in Made /\ Speaks(s, t, f) /\ t.input = s.input
      BY <2>4, <3>1, SayIs
    <3>3. QED
      BY <1>1, <2>1, <2>3, <2>5, <3>2, TextAdvances DEF f
  <2>6. CASE a[b + 1].kind = "call"
    <3> DEFINE last == Len(s.toolCalls)
               json == Append(s.json, f)
               cs == [s.toolCalls EXCEPT ![last].arguments = Append(s.toolCalls[last].arguments, f)]
               ds == Append(s.deltas, Delta(last, <<f>>))
    <3>1. InCall(a, s, b, m) /\ s.json = Cut(b + 1, m)
      <4>1. j <= n + 1
        BY <1>2, <1>8
      <4>2. QED
        BY <2>1, <2>3, <2>6, <4>1, SoFarInCall
    <3>2. last > 0 /\ last # 0 /\ s.toolCalls[last].arguments = Cut(b + 1, m)
      <4>1. last = Len(CallsOf(UpTo(a, b))) + 1 /\ s.toolCalls[last] = CallUpTo(b, m) /\ Len(CallsOf(UpTo(a, b))) \in Nat
        BY <3>1, CallsSoFarAre
      <4>2. QED
        BY <4>1 DEF CallUpTo
    <3>3. t = [s EXCEPT !.json = json, !.toolCalls[last].arguments = json, !.deltas = Append(@, Delta(last, <<f>>))]
      <4> HIDE DEF last
      <4>1. QED
        BY <2>2, <2>4, <2>6, <3>2 DEF AnthropicHandles, last
    <3>4. json = Append(s.toolCalls[last].arguments, f) /\ json = Cut(b + 1, m + 1) /\ json \in Seq(Fragment)
      <4>1. json = Append(s.toolCalls[last].arguments, f) /\ json = Cut(b + 1, m + 1)
        BY <2>4, <3>1, <3>2
      <4>2. json \in Seq(Fragment)
        BY <1>5, <2>4
      <4>3. QED
        BY <4>1, <4>2
    <3> HIDE DEF last, json
    <3>5. t = WithArguments(s, json, cs, ds)
      BY <3>3, <3>4 DEF WithArguments, Made
    <3>6. cs \in Seq(CallMade) /\ ds \in Seq(DeltaMade)
      BY <2>4, <3>2, ArgumentsMadeOf DEF last
    <3> HIDE DEF cs, ds
    <3>7. t \in Made /\ t.toolCalls = cs /\ t.deltas = ds /\ t.content = s.content /\ t.shown = s.shown
          /\ t.json = json /\ t.input = s.input
      BY <3>4, <3>5, <3>6, MadeWithArguments
    <3>8. Extends(s, t, f)
      BY <3>2, <3>7 DEF Extends, cs, ds, last
    <3>9. QED
      BY <1>1, <2>1, <2>3, <2>6, <3>4, <3>7, <3>8, ArgumentsAdvance DEF f
  <2>7. QED
    BY <1>2, <2>5, <2>6
<1>9. CASE j = n + 1
  <2>1. e.kind = "content_block_stop"
    BY <1>3, <1>9, EventHas
  <2> DEFINE none == <<>>
  <2>2. t = WithArguments(s, none, s.toolCalls, s.deltas) /\ none \in Seq(Fragment)
    <3>1. t = [s EXCEPT !.json = <<>>]
      BY <2>1 DEF AnthropicHandles
    <3>2. t = [s EXCEPT !.json = none, !.toolCalls = s.toolCalls, !.deltas = s.deltas]
      BY <3>1 DEF Made
    <3>3. none \in Seq(Fragment)
      OBVIOUS
    <3>4. QED
      BY <3>2, <3>3 DEF WithArguments
  <2> HIDE DEF none
  <2>3. t \in Made /\ Alike(s, t) /\ t.input = s.input
    <3>1. t \in Made /\ t.toolCalls = s.toolCalls /\ t.deltas = s.deltas /\ t.content = s.content
          /\ t.shown = s.shown /\ t.input = s.input
      BY <1>5, <2>2, MadeWithArguments
    <3>2. QED
      BY <3>1 DEF Alike
  <2>4. j > n
    BY <1>2, <1>9
  <2>5. QED
    BY <1>1, <1>2, <1>4, <1>9, <2>3, <2>4, NothingAdvances
<1>10. j = 0 \/ j \in 1..n \/ j = n + 1
  BY <1>2, <1>3
<1>11. QED
  BY <1>2, <1>6, <1>7, <1>8, <1>9, <1>10

LEMMA GeminiAdvances ==
  ASSUME NEW a \in Seq(Block), NEW b \in 0..(Len(a) - 1), NEW j \in Nat, NEW s \in Made, NEW e, NEW t,
         SoFar("gemini", a, s, b, j), AddsUp(s), j < Len(BlockEvents("gemini", a, b + 1)),
         e = BlockEvents("gemini", a, b + 1)[j + 1], t = GeminiHandles(a, s, e)
  PROVE  Advances("gemini", a, s, t, b, j)
<1> DEFINE p == "gemini"
           n == a[b + 1].size
           counted == [s EXCEPT !.input = TRUE, !.output = TRUE]
<1>1. b \in 0..Len(a) /\ b + 1 \in 1..Len(a) /\ b + 1 \in Nat \ {0} /\ p \in AnyProvider
  BY DEF AnyProvider
<1>2. n \in Nat /\ a[b + 1].kind \in {"text", "call"} /\ a[b + 1] \in Block
  BY <1>1, BlocksAre
<1>3. counted \in Made /\ Alike(s, counted) /\ counted.input
  BY DEF Made, Alike
<1> HIDE DEF counted
<1>4. CASE a[b + 1].kind = "text"
  <2>1. j \in 0..(n - 1) /\ e = Event("text", b + 1, j + 1)
    BY <1>1, <1>2, <1>4, BlockEventsAre
  <2>2. t = Say(counted, <<b + 1, j + 1>>)
    BY <2>1, EventHas DEF GeminiHandles, counted
  <2>3. <<b + 1, j + 1>> \in Fragment
    BY <1>1, CutIsSeq
  <2>4. t \in Made /\ Speaks(counted, t, <<b + 1, j + 1>>) /\ t.input
    BY <1>3, <2>2, <2>3, SayIs
  <2>5. Speaks(s, t, <<b + 1, j + 1>>)
    BY <1>3, <2>4 DEF Speaks, Alike
  <2>6. Pieces(p, a[b + 1], j) = j /\ Pieces(p, a[b + 1], j + 1) = j + 1
    <3>1. p \in {"openai", "gemini"} /\ j + 1 \in Nat
      OBVIOUS
    <3>2. QED
      BY <1>2, <1>4, <3>1, PiecesOfText
  <2>7. QED
    BY <1>1, <1>4, <2>4, <2>5, <2>6, TextAdvances
<1>5. CASE a[b + 1].kind = "call"
  <2>1. j = 0 /\ e = Event("functionCall", b + 1, 0)
    BY <1>1, <1>2, <1>5, BlockEventsAre
  <2>2. e.kind = "functionCall" /\ e.block = b + 1
    BY <2>1, EventHas
  <2> DEFINE args == Cut(b + 1, n)
             cs == Append(s.toolCalls, [id |-> b + 1, arguments |-> args])
             ds == Append(s.deltas, Delta(Len(s.toolCalls) + 1, args))
  <2>3. args = Fragments(a, b + 1) /\ args \in Seq(Fragment)
    BY <1>1, <1>2, CutIsSeq DEF Fragments
  <2> HIDE DEF args
  <2>4. counted.toolCalls = s.toolCalls /\ counted.deltas = s.deltas /\ counted.content = s.content /\ counted.shown = s.shown
    BY <1>3 DEF Alike
  <2>5. t = WithCalls(counted, cs, ds)
    <3>1. t = [counted EXCEPT !.toolCalls = Append(@, [id |-> e.block, arguments |-> Fragments(a, e.block)]),
                              !.deltas = Append(@, Delta(Len(s.toolCalls) + 1, Fragments(a, e.block)))]
      BY <2>2 DEF GeminiHandles, counted
    <3>2. QED
      BY <2>2, <2>3, <2>4, <3>1 DEF WithCalls
  <2>6. cs \in Seq(CallMade) /\ ds \in Seq(DeltaMade)
    BY <1>1, <2>3, CallMadeOf
  <2> HIDE DEF cs, ds
  <2>7. t \in Made /\ t.toolCalls = cs /\ t.deltas = ds /\ t.content = s.content /\ t.shown = s.shown /\ t.input
    BY <1>3, <2>4, <2>5, <2>6, MadeWithCalls
  <2>8. Calls(s, t, b + 1, Cut(b + 1, n))
    BY <2>7 DEF Calls, cs, ds, args
  <2>9. Pieces(p, a[b + 1], 1) = n
    BY <1>2, <1>5, PiecesOfGeminiCall
  <2>10. p # "anthropic"
    OBVIOUS
  <2> HIDE DEF p
  <2>11. QED
    BY <1>1, <1>2, <1>5, <2>1, <2>7, <2>8, <2>9, <2>10, CallAdvances DEF p
<1>6. QED
  BY <1>2, <1>4, <1>5

Handled(p, a, s, e) ==
  CASE p = "openai" -> OpenAiHandles(a, s, e)
    [] p = "anthropic" -> AnthropicHandles(a, s, e)
    [] p = "gemini" -> GeminiHandles(a, s, e)

LEMMA BlockAdvances ==
  ASSUME NEW p \in AnyProvider, NEW a \in Seq(Block), NEW b \in 0..(Len(a) - 1), NEW j \in Nat, NEW s \in Made,
         NEW e, NEW t, SoFar(p, a, s, b, j), AddsUp(s), j < Len(BlockEvents(p, a, b + 1)),
         e = BlockEvents(p, a, b + 1)[j + 1], t = Handled(p, a, s, e)
  PROVE  Advances(p, a, s, t, b, j)
<1>1. CASE p = "openai"
  <2>1. t = OpenAiHandles(a, s, e)
    BY <1>1 DEF Handled
  <2>2. QED
    BY <1>1, <2>1, OpenAiAdvances
<1>2. CASE p = "anthropic"
  <2>1. t = AnthropicHandles(a, s, e)
    BY <1>2 DEF Handled
  <2>2. QED
    BY <1>2, <2>1, AnthropicAdvances
<1>3. CASE p = "gemini"
  <2>1. t = GeminiHandles(a, s, e)
    BY <1>3 DEF Handled
  <2>2. QED
    BY <1>3, <2>1, GeminiAdvances
<1>4. QED
  BY <1>1, <1>2, <1>3 DEF AnyProvider

(* The events that open and close a stream.                                *)
LEMMA OpeningCounts ==
  ASSUME NEW a, NEW s \in Made, NEW t, t = Handled("anthropic", a, s, Event("message_start", 0, 0))
  PROVE  t \in Made /\ Alike(s, t) /\ t.input
<1>1. t = [s EXCEPT !.input = TRUE]
  BY EventHas DEF Handled, AnthropicHandles
<1>2. QED
  BY <1>1 DEF Made, Alike

LEMMA ClosingCounts ==
  ASSUME NEW p \in AnyProvider, NEW a, NEW s \in Made, NEW j \in Nat, j < Len(Closing(p)), NEW t,
         t = Handled(p, a, s, Closing(p)[j + 1])
  PROVE  /\ t \in Made /\ Alike(s, t) /\ (s.input => t.input)
         /\ j + 1 = Len(Closing(p)) => t.output /\ (p # "anthropic" => t.input)
<1> DEFINE e == Closing(p)[j + 1]
<1>1. CASE p = "openai"
  <2>1. (j = 0 /\ e = Event("finish", 0, 0)) \/ (j = 1 /\ e = Event("usage", 0, 0))
    BY <1>1, EndsAre DEF AnyProvider
  <2>2. t = OpenAiHandles(a, s, e)
    BY <1>1 DEF Handled
  <2> HIDE DEF e
  <2>3. CASE j = 0 /\ e = Event("finish", 0, 0)
    <3>1. t = s
      BY <2>2, <2>3, EventHas DEF OpenAiHandles
    <3>2. j + 1 # Len(Closing(p))
      BY <1>1, <2>3, EndsAre DEF AnyProvider
    <3>3. QED
      BY <3>1, <3>2 DEF Alike
  <2>4. CASE j = 1 /\ e = Event("usage", 0, 0)
    <3>1. t = [s EXCEPT !.input = TRUE, !.output = TRUE]
      BY <2>2, <2>4, EventHas DEF OpenAiHandles
    <3>2. QED
      BY <3>1 DEF Made, Alike
  <2>5. QED
    BY <2>1, <2>3, <2>4
<1>2. CASE p = "anthropic"
  <2>1. e = Event("message_delta", 0, 0)
    BY <1>2, EndsAre DEF AnyProvider
  <2>2. t = AnthropicHandles(a, s, e)
    BY <1>2 DEF Handled
  <2> HIDE DEF e
  <2>3. t = [s EXCEPT !.output = TRUE]
    BY <2>1, <2>2, EventHas DEF AnthropicHandles
  <2>4. QED
    BY <1>2, <2>3 DEF Made, Alike
<1>3. CASE p = "gemini"
  <2>1. e = Event("finish", 0, 0)
    BY <1>3, EndsAre DEF AnyProvider
  <2>2. t = GeminiHandles(a, s, e)
    BY <1>3 DEF Handled
  <2> HIDE DEF e
  <2>3. t = [s EXCEPT !.input = TRUE, !.output = TRUE]
    BY <2>1, <2>2, EventHas DEF GeminiHandles
  <2>4. QED
    BY <2>3 DEF Made, Alike
<1>4. QED
  BY <1>1, <1>2, <1>3 DEF AnyProvider

-----------------------------------------------------------------------------
(* Where a stream is, event by event.                                      *)

Stands(p, a, n, s, b, j) == Placed(p, a, n, b, j) /\ SoFar(p, a, s, b, j)

Span(p, a, b) == IF b < Len(a) THEN Len(BlockEvents(p, a, b + 1)) ELSE Len(Closing(p))

(* So much of an answer was read, and this was made of it.                 *)
Along(p, a, n, s) ==
  (n < Len(Opening(p)) /\ s = Empty) \/ \E b \in 0..Len(a), j \in 0..n : Stands(p, a, n, s, b, j)

LEMMA SpanIs ==
  ASSUME NEW p \in AnyProvider, NEW a \in Seq(Block), NEW b \in 0..Len(a)
  PROVE  Span(p, a, b) \in Nat
<1>1. CASE b < Len(a)
  <2>1. b + 1 \in 1..Len(a)
    BY <1>1
  <2>2. BlockEvents(p, a, b + 1) \in Seq(AnyEvent)
    BY <2>1, BlockEventsAre
  <2>3. QED
    BY <1>1, <2>2 DEF Span
<1>2. CASE ~(b < Len(a))
  <2>1. Closing(p) \in Seq(AnyEvent)
    BY EndsAre
  <2>2. QED
    BY <1>2, <2>1 DEF Span
<1>3. QED
  BY <1>1, <1>2

LEMMA PlacedIs ==
  ASSUME NEW p, NEW a, NEW n, NEW b, NEW j
  PROVE  Placed(p, a, n, b, j) <=> n = Before(p, a, b) + j /\ j <= Span(p, a, b)
  BY DEF Placed, Span

LEMMA BeforeIs ==
  ASSUME NEW p \in AnyProvider, NEW a \in Seq(Block), NEW b \in 0..Len(a)
  PROVE  Before(p, a, b) \in Nat /\ Len(Opening(p)) \in Nat /\ Len(Opening(p)) <= Before(p, a, b)
         /\ Before(p, a, b) <= Before(p, a, Len(a))
<1>1. Opening(p) \in Seq(AnyEvent)
  BY EndsAre
<1>2. EventsOf(p, a) \in [1..Len(a) -> Seq(AnyEvent)] /\ Len(a) \in Nat /\ b \in Nat /\ b <= Len(a)
  BY EventsOfAre
<1>3. FirstOf(EventsOf(p, a), b) \in Seq(AnyEvent)
  BY <1>2, FirstGrows
<1>4. Before(p, a, b) = Len(Opening(p)) + Len(FirstOf(EventsOf(p, a), b))
  BY DEF Before, FirstOf
<1>5. Len(Opening(p)) \in Nat /\ Len(FirstOf(EventsOf(p, a), b)) \in Nat
  BY <1>1, <1>3
<1>6. Before(p, a, b) \in Nat /\ Len(Opening(p)) <= Before(p, a, b)
  BY <1>4, <1>5
<1>7. Before(p, a, b) <= Before(p, a, Len(a))
  <2>1. CASE b = Len(a)
    BY <1>6, <2>1
  <2>2. CASE b < Len(a)
    <3>1. /\ Before(p, a, b + 1) = Before(p, a, b) + Len(BlockEvents(p, a, b + 1))
          /\ Before(p, a, b + 1) <= Before(p, a, Len(a))
      BY <1>2, <2>2, BlocksStand
    <3>2. Len(BlockEvents(p, a, b + 1)) \in Nat
      BY <2>2, SpanIs DEF Span
    <3>3. Before(p, a, Len(a)) \in Int
      <4>1. Len(a) \in 0..Len(a)
        BY <1>2
      <4>2. FirstOf(EventsOf(p, a), Len(a)) \in Seq(AnyEvent)
        BY <1>2, FirstEnds
      <4>3. Before(p, a, Len(a)) = Len(Opening(p)) + Len(FirstOf(EventsOf(p, a), Len(a)))
        BY DEF Before, FirstOf
      <4>4. QED
        BY <1>5, <4>2, <4>3
    <3>4. QED
      BY <1>6, <3>1, <3>2, <3>3
  <2>3. QED
    BY <1>2, <2>1, <2>2
<1>8. QED
  BY <1>5, <1>6, <1>7

(* The end of a block is the beginning of the next.                        *)
LEMMA MovesOn ==
  ASSUME NEW p \in AnyProvider, NEW a \in Seq(Block), NEW n \in Nat, NEW s, NEW b \in 0..(Len(a) - 1),
         Stands(p, a, n, s, b, Span(p, a, b))
  PROVE  Stands(p, a, n, s, b + 1, 0)
<1> DEFINE size == a[b + 1].size
           j == Span(p, a, b)
           block == a[b + 1]
<1>1. b \in 0..Len(a) /\ b < Len(a) /\ b + 1 \in 1..Len(a) /\ b + 1 \in 0..Len(a) /\ b \in Nat
  OBVIOUS
<1>2. size \in Nat /\ block.kind \in {"text", "call"} /\ block \in Block
  BY <1>1, BlocksAre
<1>3. /\ p = "openai" /\ block.kind = "text" => j = size
      /\ p = "openai" /\ block.kind = "call" => j = size + 1
      /\ p = "anthropic" => j = size + 2
      /\ p = "gemini" /\ block.kind = "text" => j = size
      /\ p = "gemini" /\ block.kind = "call" => j = 1
  <2>1. j = Len(BlockEvents(p, a, b + 1))
    BY <1>1 DEF Span
  <2>2. QED
    BY <1>1, <2>1, BlockEventsAre
<1>4. SoFar(p, a, s, b, j) /\ n = Before(p, a, b) + j
  BY PlacedIs DEF Stands
<1> HIDE DEF j
<1>5. CASE block.kind = "text"
  <2>1. j \in Nat /\ Pieces(p, block, j) = size
    <3>1. CASE p \in {"openai", "gemini"}
      <4>1. j = size
        BY <1>3, <1>5, <3>1
      <4>2. QED
        BY <1>2, <1>5, <3>1, <4>1, PiecesOfText
    <3>2. CASE p = "anthropic"
      <4>1. j \in Nat \ {0} /\ ~(j <= size + 1)
        BY <1>2, <1>3, <3>2
      <4>2. QED
        BY <1>2, <3>2, <4>1, PiecesOfAnthropic
    <3>3. QED
      BY <3>1, <3>2 DEF AnyProvider
  <2>2. InText(a, s, b, size)
    BY <1>4, <1>5, <2>1, SoFarInText
  <2>3. QED
    <3>1. AtBlock(a, s, b + 1)
      BY <1>5, <2>2, BlockEnds
    <3>2. SoFar(p, a, s, b + 1, 0)
      BY <1>1, <3>1, SoFarAtBlock
    <3>3. Before(p, a, b + 1) = Before(p, a, b) + j
      BY <1>1, BlocksStand DEF j, Span
    <3>4. Span(p, a, b + 1) \in Nat
      BY <1>1, SpanIs
    <3>5. QED
      BY <1>4, <3>2, <3>3, <3>4, PlacedIs DEF Stands
<1>6. CASE block.kind = "call"
  <2>1. j \in Nat \ {0} /\ Pieces(p, block, j) = size
    <3>1. CASE p = "openai"
      <4>1. j = size + 1 /\ j \in Nat \ {0} /\ j - 1 = size
        BY <1>2, <1>3, <1>6, <3>1
      <4>2. QED
        BY <1>2, <1>6, <3>1, <4>1, PiecesOfOpenAiCall
    <3>2. CASE p = "anthropic"
      <4>1. j \in Nat \ {0} /\ ~(j <= size + 1)
        BY <1>2, <1>3, <3>2
      <4>2. QED
        BY <1>2, <3>2, <4>1, PiecesOfAnthropic
    <3>3. CASE p = "gemini"
      <4>1. j = 1
        BY <1>3, <1>6, <3>3
      <4>2. QED
        BY <1>2, <1>6, <3>3, <4>1, PiecesOfGeminiCall
    <3>4. QED
      BY <3>1, <3>2, <3>3 DEF AnyProvider
  <2>2. InCall(a, s, b, size)
    BY <1>4, <1>6, <2>1, SoFarInCall
  <2>3. AtBlock(a, s, b + 1)
    BY <1>6, <2>2, BlockEnds
  <2>4. SoFar(p, a, s, b + 1, 0)
    BY <1>1, <2>3, SoFarAtBlock
  <2>5. Before(p, a, b + 1) = Before(p, a, b) + j
    BY <1>1, BlocksStand DEF j, Span
  <2>6. Span(p, a, b + 1) \in Nat
    BY <1>1, SpanIs
  <2>7. QED
    BY <1>4, <2>4, <2>5, <2>6, PlacedIs DEF Stands
<1>7. QED
  BY <1>2, <1>5, <1>6

(* As long as there are events to come, one of them is next.               *)
LEMMA OneIsNext ==
  ASSUME NEW p \in AnyProvider, NEW a \in Seq(Block), NEW n \in Nat, n < Len(Events(p, a)), NEW s,
         NEW b0 \in 0..Len(a), NEW j0 \in 0..n, Stands(p, a, n, s, b0, j0)
  PROVE  \E b \in 0..Len(a), j \in 0..n : Stands(p, a, n, s, b, j) /\ j < Span(p, a, b)
<1> DEFINE T == {d \in 0..Len(a) : \E j \in 0..n : Stands(p, a, n, s, Len(a) - d, j)}
<1>1. Len(a) \in Nat
  OBVIOUS
<1>2. T \subseteq Nat /\ T # {}
  <2>1. Len(a) - b0 \in 0..Len(a) /\ Len(a) - (Len(a) - b0) = b0
    OBVIOUS
  <2>2. Stands(p, a, n, s, Len(a) - (Len(a) - b0), j0)
    BY <2>1
  <2>3. Len(a) - b0 \in T
    BY <2>1, <2>2
  <2>4. \A d \in T : d \in 0..Len(a)
    OBVIOUS
  <2> HIDE DEF T
  <2>5. QED
    BY <1>1, <2>3, <2>4
<1>3. PICK d \in T : \A m \in T : d <= m
  <2> HIDE DEF T
  <2>1. QED
    BY <1>2, Smallest
<1> DEFINE b == Len(a) - d
<1>4. b \in 0..Len(a) /\ Len(a) - d = b
  BY <1>3
<1>5. PICK j \in 0..n : Stands(p, a, n, s, b, j)
  BY <1>3
<1> HIDE DEF b
<1>6. n = Before(p, a, b) + j /\ j <= Span(p, a, b) /\ Span(p, a, b) \in Nat /\ Before(p, a, b) \in Nat
  BY <1>4, <1>5, PlacedIs, SpanIs, BeforeIs DEF Stands
<1>7. ASSUME ~(j < Span(p, a, b)) PROVE FALSE
  <2>1. j = Span(p, a, b)
    BY <1>6, <1>7
  <2>2. CASE b < Len(a)
    <3>1. b \in 0..(Len(a) - 1)
      BY <1>4, <2>2
    <3>2. Stands(p, a, n, s, b + 1, 0)
      BY <1>5, <2>1, <3>1, MovesOn
    <3>3. d - 1 \in 0..Len(a) /\ Len(a) - (d - 1) = b + 1
      BY <1>4, <3>1 DEF b
    <3>4. d - 1 \in T
      BY <3>2, <3>3
    <3>5. QED
      BY <1>3, <3>4
  <2>3. CASE b = Len(a)
    <3>1. Span(p, a, b) = Len(Closing(p)) /\ Before(p, a, Len(a)) + Len(Closing(p)) = Len(Events(p, a))
      BY <2>3, EventsStand DEF Span
    <3>2. QED
      BY <1>6, <2>1, <2>3, <3>1
  <2>4. QED
    BY <1>4, <2>2, <2>3
<1>8. QED
  BY <1>4, <1>5, <1>7

LEMMA EndsLength ==
  ASSUME NEW p \in AnyProvider
  PROVE  /\ (p = "anthropic" /\ Len(Opening(p)) = 1) \/ (p # "anthropic" /\ Len(Opening(p)) = 0)
         /\ Len(Closing(p)) \in Nat \ {0}
<1>1. CASE p = "openai"
  BY <1>1, EndsAre
<1>2. CASE p = "anthropic"
  BY <1>2, EndsAre
<1>3. CASE p = "gemini"
  BY <1>3, EndsAre
<1>4. QED
  BY <1>1, <1>2, <1>3 DEF AnyProvider

LEMMA OpeningAdvances ==
  ASSUME NEW p \in AnyProvider, NEW a \in Seq(Block), NEW n \in Nat, n < Len(Opening(p)), NEW t,
         t = Handled(p, a, Empty, Events(p, a)[n + 1])
  PROVE  t \in Made /\ AddsUp(t) /\ Along(p, a, n + 1, t) /\ Counted(p, a, t, n + 1)
<1>1. p = "anthropic" /\ n = 0 /\ Len(Opening(p)) = 1 /\ Opening(p)[1] = Event("message_start", 0, 0)
  <2>1. p = "anthropic" /\ n = 0 /\ Len(Opening(p)) = 1
    <3> DEFINE l == Len(Opening(p))
    <3>1. (p = "anthropic" /\ l = 1) \/ (p # "anthropic" /\ l = 0)
      BY EndsLength
    <3>2. n < l
      OBVIOUS
    <3> HIDE DEF l
    <3>3. p = "anthropic" /\ n = 0 /\ l = 1
      BY <3>1, <3>2
    <3>4. QED
      BY <3>3 DEF l
  <2>2. QED
    BY <2>1, EndsAre
<1>2. Events(p, a)[n + 1] = Event("message_start", 0, 0)
  BY <1>1, EventsStand
<1>3. Empty \in Made
  BY DEF Empty, Made
<1>4. t \in Made /\ Alike(Empty, t) /\ t.input
  BY <1>1, <1>2, <1>3, OpeningCounts
<1>5. AddsUp(t)
  <2>1. AddsUp(Empty)
    BY AddsUpIs DEF Empty
  <2>2. QED
    BY <1>3, <1>4, <2>1, AlikeAddsUp
<1>6. 0 \in 0..Len(a) /\ 0 \in 0..(n + 1) /\ Len(a) \in 0..Len(a)
  OBVIOUS
<1>7. Along(p, a, n + 1, t)
  <2>1. AtBlock(a, t, 0)
    <3>1. TextOf(UpTo(a, 0)) = <<>> /\ CallsOf(UpTo(a, 0)) = <<>>
      BY <1>6, AnswerGrows
    <3>2. QED
      BY <1>4, <3>1 DEF Alike, AtBlock, Empty
  <2>2. SoFar(p, a, t, 0, 0)
    BY <1>6, <2>1, SoFarAtBlock
  <2>3. Placed(p, a, n + 1, 0, 0)
    <3>1. n + 1 = Before(p, a, 0) + 0
      BY <1>1, EventsStand
    <3>2. Span(p, a, 0) \in Nat
      BY <1>6, SpanIs
    <3>3. QED
      BY <3>1, <3>2, PlacedIs
  <2>4. QED
    BY <1>6, <2>2, <2>3 DEF Along, Stands
<1>8. n + 1 # Len(Events(p, a))
  <2>1. Before(p, a, Len(a)) + Len(Closing(p)) = Len(Events(p, a)) /\ Len(Closing(p)) = 1
    BY <1>1, EventsStand, EndsAre
  <2>2. Before(p, a, Len(a)) \in Nat /\ 1 <= Before(p, a, Len(a))
    BY <1>1, <1>6, BeforeIs
  <2>3. QED
    BY <1>1, <2>1, <2>2
<1>9. QED
  BY <1>4, <1>5, <1>7, <1>8 DEF Counted

(* The next event is taken for what it is, wherever the stream is.         *)
LEMMA StreamAdvances ==
  ASSUME NEW p \in AnyProvider, NEW a \in Seq(Block), NEW n \in Nat, n < Len(Events(p, a)), NEW s \in Made,
         Along(p, a, n, s), AddsUp(s), Counted(p, a, s, n), NEW t, t = Handled(p, a, s, Events(p, a)[n + 1])
  PROVE  t \in Made /\ AddsUp(t) /\ Along(p, a, n + 1, t) /\ Counted(p, a, t, n + 1)
<1>1. CASE n < Len(Opening(p)) /\ s = Empty
  BY <1>1, OpeningAdvances
<1>2. ASSUME NEW b0 \in 0..Len(a), NEW j0 \in 0..n, Stands(p, a, n, s, b0, j0)
      PROVE  t \in Made /\ AddsUp(t) /\ Along(p, a, n + 1, t) /\ Counted(p, a, t, n + 1)
  <2>1. PICK b \in 0..Len(a), j \in 0..n : Stands(p, a, n, s, b, j) /\ j < Span(p, a, b)
    BY <1>2, OneIsNext
  <2>2. n = Before(p, a, b) + j /\ j \in Nat /\ j + 1 \in 0..(n + 1) /\ Span(p, a, b) \in Nat
    BY <2>1, PlacedIs, SpanIs DEF Stands
  <2>3. Before(p, a, b) \in Nat /\ Len(Opening(p)) <= Before(p, a, b) /\ Len(Opening(p)) \in Nat
    BY BeforeIs
  <2>4. p = "anthropic" => s.input
    <3>1. p = "anthropic" => Len(Opening(p)) = 1
      BY EndsAre
    <3>2. p = "anthropic" => n > 0
      <4> DEFINE l == Len(Opening(p))
      <4>1. n >= l /\ (p = "anthropic" => l = 1)
        BY SMTT(30), <2>2, <2>3, <3>1
      <4> HIDE DEF l
      <4>2. QED
        BY <4>1
    <3>3. QED
      BY <3>2 DEF Counted
  <2>5. Placed(p, a, n + 1, b, j + 1)
    <3>1. n + 1 = Before(p, a, b) + (j + 1)
      BY <2>2, <2>3
    <3>2. j + 1 <= Span(p, a, b)
      BY <2>1, <2>2
    <3>3. QED
      BY <3>1, <3>2, PlacedIs
  <2>6. SoFar(p, a, s, b, j)
    BY <2>1 DEF Stands
  <2>7. CASE b < Len(a)
    <3>1. b \in 0..(Len(a) - 1) /\ j < Len(BlockEvents(p, a, b + 1)) /\ b \in Nat
      BY <2>1, <2>7 DEF Span
    <3>2. Events(p, a)[n + 1] = BlockEvents(p, a, b + 1)[j + 1]
      <4>1. j + 1 \in 1..Len(BlockEvents(p, a, b + 1))
        BY <2>2, <2>7, <3>1 DEF Span
      <4>2. Events(p, a)[Before(p, a, b) + (j + 1)] = BlockEvents(p, a, b + 1)[j + 1]
        BY <2>7, <3>1, <4>1, BlocksStand
      <4>3. n + 1 = Before(p, a, b) + (j + 1)
        BY <2>2, <2>3
      <4>4. QED
        BY <4>2, <4>3
    <3>3. Advances(p, a, s, t, b, j)
      BY <2>2, <2>6, <3>1, <3>2, BlockAdvances
    <3>4. t \in Made /\ AddsUp(t) /\ SoFar(p, a, t, b, j + 1) /\ (s.input => t.input)
      BY <3>3 DEF Advances
    <3>5. Along(p, a, n + 1, t)
      BY <2>2, <2>5, <3>4 DEF Along, Stands
    <3>6. n + 1 # Len(Events(p, a))
      <4>1. /\ Before(p, a, b + 1) = Before(p, a, b) + Span(p, a, b)
            /\ Before(p, a, b + 1) <= Before(p, a, Len(a))
        BY <2>7, <3>1, BlocksStand DEF Span
      <4>2. Before(p, a, Len(a)) + Len(Closing(p)) = Len(Events(p, a)) /\ Len(Closing(p)) \in Nat \ {0}
        <5>1. Len(Closing(p)) \in Nat \ {0}
          BY EndsLength
        <5>2. QED
          BY <5>1, EventsStand
      <4>3. Before(p, a, Len(a)) \in Nat
        <5>1. Len(a) \in 0..Len(a)
          OBVIOUS
        <5>2. QED
          BY <5>1, BeforeIs
      <4>4. n + 1 <= Before(p, a, b) + Span(p, a, b)
        BY SMTT(30), <2>1, <2>2, <2>3
      <4>5. n + 1 <= Before(p, a, Len(a))
        BY SMTT(30), <2>2, <2>3, <4>1, <4>3, <4>4
      <4>6. QED
        BY <4>2, <4>3, <4>5
    <3>7. QED
      BY <2>4, <3>4, <3>5, <3>6 DEF Counted
  <2>8. CASE b = Len(a)
    <3>1. j < Len(Closing(p)) /\ Span(p, a, b) = Len(Closing(p)) /\ b \in 0..Len(a)
      BY <2>1, <2>8 DEF Span
    <3>2. Events(p, a)[n + 1] = Closing(p)[j + 1]
      <4>1. j + 1 \in 1..Len(Closing(p))
        BY <2>2, <3>1
      <4>2. Events(p, a)[Before(p, a, Len(a)) + (j + 1)] = Closing(p)[j + 1]
        BY <4>1, EventsStand
      <4>3. n + 1 = Before(p, a, Len(a)) + (j + 1)
        BY <2>2, <2>3, <2>8
      <4>4. QED
        BY <4>2, <4>3
    <3>3. /\ t \in Made /\ Alike(s, t) /\ (s.input => t.input)
          /\ j + 1 = Len(Closing(p)) => t.output /\ (p # "anthropic" => t.input)
      <4>1. t = Handled(p, a, s, Closing(p)[j + 1]) /\ j \in Nat
        BY <2>2, <3>2
      <4>2. QED
        BY <3>1, <4>1, ClosingCounts
    <3>4. AddsUp(t)
      BY <3>3, AlikeAddsUp
    <3>5. SoFar(p, a, t, b, j + 1)
      <4>1. s.content = TextOf(a) /\ s.toolCalls = CallsOf(a)
        BY <2>6, <2>8, SoFarAtEnd
      <4>2. t.content = TextOf(a) /\ t.toolCalls = CallsOf(a)
        BY <3>3, <4>1 DEF Alike
      <4>3. QED
        BY <2>8, <4>2, SoFarAtEnd
    <3>6. Along(p, a, n + 1, t)
      BY <2>2, <2>5, <3>5 DEF Along, Stands
    <3>7. n + 1 = Len(Events(p, a)) => j + 1 = Len(Closing(p))
      <4>1. Before(p, a, Len(a)) + Len(Closing(p)) = Len(Events(p, a))
        BY EventsStand
      <4>2. QED
        BY SMTT(30), <2>2, <2>3, <2>8, <3>1, <4>1
    <3>8. QED
      BY <2>4, <3>3, <3>4, <3>6, <3>7 DEF Counted
  <2>9. QED
    BY <2>7, <2>8
<1>3. QED
  BY <1>1, <1>2 DEF Along

(* A stream that was read to its end has brought the whole answer.         *)
LEMMA StreamEnds ==
  ASSUME NEW p \in AnyProvider, NEW a \in Seq(Block), NEW s, Along(p, a, Len(Events(p, a)), s)
  PROVE  s.content = TextOf(a) /\ s.toolCalls = CallsOf(a)
<1> DEFINE n == Len(Events(p, a))
<1>1. Before(p, a, Len(a)) + Len(Closing(p)) = n /\ Len(Closing(p)) \in Nat \ {0}
  <2>1. Len(Closing(p)) \in Nat \ {0}
    BY EndsLength
  <2>2. QED
    BY <2>1, EventsStand
<1>2. Len(a) \in 0..Len(a)
  OBVIOUS
<1>3. Before(p, a, Len(a)) \in Nat /\ Len(Opening(p)) <= Before(p, a, Len(a)) /\ Len(Opening(p)) \in Nat
  BY <1>2, BeforeIs
<1>4. ~(n < Len(Opening(p)))
  BY <1>1, <1>3
<1>5. PICK b \in 0..Len(a), j \in 0..n : Stands(p, a, n, s, b, j)
  BY <1>4 DEF Along
<1>6. n = Before(p, a, b) + j /\ j <= Span(p, a, b) /\ Span(p, a, b) \in Nat /\ Before(p, a, b) \in Nat
  BY <1>5, PlacedIs, SpanIs, BeforeIs DEF Stands
<1>7. b = Len(a)
  <2> SUFFICES ASSUME b < Len(a) PROVE FALSE
    OBVIOUS
  <2>1. /\ Before(p, a, b + 1) = Before(p, a, b) + Span(p, a, b)
        /\ Before(p, a, b + 1) <= Before(p, a, Len(a))
    BY BlocksStand DEF Span
  <2>2. QED
    BY <1>1, <1>3, <1>6, <2>1
<1>8. SoFar(p, a, s, Len(a), j)
  BY <1>5, <1>7 DEF Stands
<1>9. QED
  BY <1>8, SoFarAtEnd

-----------------------------------------------------------------------------
(* The steps of a stream.                                                  *)

StreamKind ==
  [at : {"none", "open", "done", "failed"}, answer : Answer \cup {<<>>}, next : Nat,
   half : BOOLEAN, line : BOOLEAN, s : Made, cut : BOOLEAN]

Typed(p, x) == p \in Provider /\ x \in StreamKind /\ x.next <= Len(Events(p, x.answer))

Brought(x) == x.s.content = TextOf(x.answer) /\ x.s.toolCalls = CallsOf(x.answer) /\ x.s.input /\ x.s.output

Fits(p, x) ==
  /\ AddsUp(x.s)
  /\ x.at = "open" => Counted(p, x.answer, x.s, x.next) /\ x.half = x.line /\ Along(p, x.answer, x.next, x.s)
  /\ x.at = "done" /\ ~x.cut => Brought(x)

LEMMA StreamFits ==
  /\ StreamTypeOK <=> Typed(provider, stream)
  /\ StreamTypeOK' <=> Typed(provider', stream')
  /\ StreamIInv <=> Fits(provider, stream)
  /\ StreamIInv' <=> Fits(provider', stream')
<1>1. StreamTypeOK <=> Typed(provider, stream)
  BY DEF StreamTypeOK, Typed, StreamKind
<1>2. StreamTypeOK' <=> Typed(provider', stream')
  BY DEF StreamTypeOK, Typed, StreamKind
<1>3. StreamIInv <=> Fits(provider, stream)
  BY DEF StreamIInv, Fits, Along, Stands, StreamAgrees, AddsUp, Brought
<1>4. StreamIInv' <=> Fits(provider', stream')
  BY DEF StreamIInv, Fits, Along, Stands, StreamAgrees, AddsUp, Brought
<1>5. QED
  BY <1>1, <1>2, <1>3, <1>4

LEMMA StreamHas ==
  ASSUME NEW p, NEW x, Typed(p, x)
  PROVE  /\ p \in AnyProvider /\ x.answer \in Seq(Block) /\ x.next \in Nat /\ x.s \in Made
         /\ x.answer \in Answer \cup {<<>>} /\ Len(Events(p, x.answer)) \in Nat
         /\ x.next <= Len(Events(p, x.answer))
<1>1. x \in StreamKind /\ p \in Provider
  BY DEF Typed
<1>2. p \in AnyProvider /\ x.answer \in Answer \cup {<<>>} /\ x.next \in Nat /\ x.s \in Made
  BY <1>1, ProviderAssumption DEF AnyProvider, StreamKind
<1>3. x.answer \in Seq(Block)
  <2>1. <<>> \in Seq(Block)
    OBVIOUS
  <2>2. \A a \in Answer : a \in Seq(Block)
    BY AnswerAssumption
  <2>3. QED
    BY <1>2, <2>1, <2>2
<1>4. Events(p, x.answer) \in Seq(AnyEvent)
  BY <1>2, <1>3, EventsStand
<1>5. QED
  BY <1>2, <1>3, <1>4 DEF Typed

LEMMA ReadKeeps ==
  ASSUME Typed(provider, stream), Fits(provider, stream), Read
  PROVE  Typed(provider, stream') /\ Fits(provider, stream')
<1> DEFINE p == provider
           x == stream
           y == stream'
           len == Len(Events(p, x.answer))
<1>1. p \in AnyProvider /\ x.answer \in Seq(Block) /\ x.next \in Nat /\ x.s \in Made /\ len \in Nat
  BY StreamHas
<1>2. x.at = "open" /\ x.next < len
  BY <1>1 DEF Read, Unread
<1>3. Counted(p, x.answer, x.s, x.next) /\ x.half = x.line /\ Along(p, x.answer, x.next, x.s) /\ AddsUp(x.s)
  BY <1>2 DEF Fits
<1>4. CASE EndsMidLine
  <2>1. y = [x EXCEPT !.half = TRUE, !.line = TRUE]
    BY <1>4 DEF Read
  <2>2. y.at = x.at /\ y.answer = x.answer /\ y.next = x.next /\ y.s = x.s /\ y.half = y.line
    BY <2>1 DEF Typed, StreamKind
  <2>3. y \in StreamKind
    BY <2>1 DEF Typed, StreamKind
  <2>4. Typed(p, y)
    BY <2>2, <2>3 DEF Typed
  <2>5. QED
    BY <1>2, <1>3, <2>2, <2>4 DEF Fits
<1>5. CASE ~EndsMidLine
  <2> DEFINE t == Handled(p, x.answer, x.s, Events(p, x.answer)[x.next + 1])
  <2>1. p = "openai" \/ x.line
    BY <1>3, <1>5 DEF EndsMidLine
  <2>2. TakenLine = t
    BY <2>1 DEF TakenLine, Handles, Handled, NextEvent
  <2>3. t \in Made /\ AddsUp(t) /\ Along(p, x.answer, x.next + 1, t) /\ Counted(p, x.answer, t, x.next + 1)
    <3> HIDE DEF p
    <3>1. QED
      BY <1>1, <1>2, <1>3, StreamAdvances
  <2> HIDE DEF t
  <2>4. y = [x EXCEPT !.next = x.next + 1, !.half = FALSE, !.line = FALSE, !.s = t]
    BY <1>5, <2>2 DEF Read
  <2>5. y.at = x.at /\ y.answer = x.answer /\ y.next = x.next + 1 /\ y.s = t /\ y.half = y.line
    BY <2>4 DEF Typed, StreamKind
  <2>6. y \in StreamKind
    <3>1. x \in StreamKind /\ x.next + 1 \in Nat /\ t \in Made
      BY <1>1, <2>3 DEF Typed
    <3> DEFINE n == x.next + 1
    <3>2. y = [x EXCEPT !.next = n, !.half = FALSE, !.line = FALSE, !.s = t]
      BY <2>4
    <3> HIDE DEF x, y, n
    <3>3. n \in Nat
      BY <3>1 DEF n
    <3>4. QED
      BY <3>1, <3>2, <3>3 DEF StreamKind
  <2>7. y.next <= Len(Events(p, y.answer))
    BY <1>1, <1>2, <2>5
  <2>8. Typed(p, y)
    BY <2>6, <2>7 DEF Typed
  <2>9. QED
    BY <1>2, <2>3, <2>5, <2>8 DEF Fits
<1>6. QED
  BY <1>4, <1>5

LEMMA CloseKeeps ==
  ASSUME Typed(provider, stream), Fits(provider, stream), Close
  PROVE  Typed(provider, stream') /\ Fits(provider, stream')
<1> DEFINE p == provider
           x == stream
           y == stream'
           len == Len(Events(p, x.answer))
<1>1. p \in AnyProvider /\ x.answer \in Seq(Block) /\ x.next \in Nat /\ len \in Nat /\ x.next <= len
  BY StreamHas
<1>2. x.at = "open" /\ x.next = len /\ y = [x EXCEPT !.at = "done"]
  BY <1>1 DEF Close, Unread
<1>3. Counted(p, x.answer, x.s, x.next) /\ Along(p, x.answer, x.next, x.s) /\ AddsUp(x.s)
  BY <1>2 DEF Fits
<1>4. x.s.content = TextOf(x.answer) /\ x.s.toolCalls = CallsOf(x.answer)
  <2>1. Along(p, x.answer, Len(Events(p, x.answer)), x.s)
    BY <1>2, <1>3
  <2> HIDE DEF p
  <2>2. QED
    BY <1>1, <2>1, StreamEnds
<1>5. x.s.input /\ x.s.output
  BY <1>2, <1>3 DEF Counted
<1>6. y.at = "done" /\ y.answer = x.answer /\ y.next = x.next /\ y.s = x.s /\ y \in StreamKind
  BY <1>2 DEF Typed, StreamKind
<1>7. QED
  BY <1>3, <1>4, <1>5, <1>6 DEF Typed, Fits, Brought

LEMMA FailureKeeps ==
  ASSUME Typed(provider, stream), Fits(provider, stream), ErrorEvent \/ Break
  PROVE  /\ Typed(provider, stream') /\ Fits(provider, stream')
         /\ stream'.answer = stream.answer /\ (ErrorEvent \/ stream'.cut = stream.cut)
<1>1. ASSUME stream' = [stream EXCEPT !.at = "failed"]
      PROVE  /\ Typed(provider, stream') /\ Fits(provider, stream')
             /\ stream'.answer = stream.answer /\ stream'.cut = stream.cut
  <2>1. stream'.at = "failed" /\ stream'.answer = stream.answer /\ stream'.next = stream.next
        /\ stream'.s = stream.s /\ stream'.cut = stream.cut /\ stream' \in StreamKind
    BY <1>1 DEF Typed, StreamKind
  <2>2. QED
    BY <2>1 DEF Typed, Fits
<1>2. ASSUME stream' = [stream EXCEPT !.at = "done", !.cut = TRUE]
      PROVE  Typed(provider, stream') /\ Fits(provider, stream') /\ stream'.answer = stream.answer
  <2>1. stream'.at = "done" /\ stream'.answer = stream.answer /\ stream'.next = stream.next
        /\ stream'.s = stream.s /\ stream'.cut /\ stream' \in StreamKind
    BY <1>2 DEF Typed, StreamKind
  <2>2. QED
    BY <2>1 DEF Typed, Fits
<1>3. QED
  BY <1>1, <1>2 DEF ErrorEvent, Break

LEMMA NoStreamFits ==
  ASSUME NEW p \in Provider
  PROVE  Typed(p, NoStream) /\ Fits(p, NoStream)
<1>1. Empty \in Made /\ AddsUp(Empty)
  BY AddsUpIs DEF Empty, Made
<1> HIDE DEF Empty
<1>2. NoStream \in StreamKind
  BY <1>1 DEF NoStream, StreamKind
<1>3. Len(Events(p, <<>>)) \in Nat
  <2>1. p \in AnyProvider /\ <<>> \in Seq(Block)
    BY ProviderAssumption DEF AnyProvider
  <2>2. Events(p, <<>>) \in Seq(AnyEvent)
    BY <2>1, EventsStand
  <2>3. QED
    BY <2>2
<1>4. QED
  BY <1>1, <1>2, <1>3 DEF Typed, Fits, NoStream

LEMMA OpenFits ==
  ASSUME NEW p \in Provider, NEW a \in Answer, NEW y, y = [NoStream EXCEPT !.at = "open", !.answer = a]
  PROVE  Typed(p, y) /\ Fits(p, y) /\ y.answer = a /\ y.cut = FALSE
<1>1. Empty \in Made /\ AddsUp(Empty)
  BY AddsUpIs DEF Empty, Made
<1>2. p \in AnyProvider /\ a \in Seq(Block)
  BY ProviderAssumption, AnswerAssumption DEF AnyProvider
<1>3. Len(Events(p, a)) \in Nat
  <2>1. Events(p, a) \in Seq(AnyEvent)
    BY <1>2, EventsStand
  <2>2. QED
    BY <2>1
<1>4. 0 < Len(Events(p, a))
  <2>1. Before(p, a, Len(a)) + Len(Closing(p)) = Len(Events(p, a))
    BY <1>2, EventsStand
  <2>2. Len(Closing(p)) \in Nat \ {0}
    BY <1>2, EndsLength
  <2>3. Before(p, a, Len(a)) \in Nat
    <3>1. Len(a) \in 0..Len(a)
      BY <1>2
    <3>2. QED
      BY <1>2, <3>1, BeforeIs
  <2>4. QED
    BY <2>1, <2>2, <2>3
<1>5. Along(p, a, 0, Empty)
  <2>1. CASE Len(Opening(p)) # 0
    <3>1. 0 < Len(Opening(p))
      <4>1. Opening(p) \in Seq(AnyEvent)
        BY <1>2, EndsAre
      <4>2. Len(Opening(p)) \in Nat
        BY <4>1
      <4>3. QED
        BY <2>1, <4>2
    <3>2. QED
      BY <3>1 DEF Along
  <2>2. CASE Len(Opening(p)) = 0
    <3>1. 0 \in 0..Len(a) /\ 0 \in 0..0
      BY <1>2
    <3>2. AtBlock(a, Empty, 0)
      <4>1. TextOf(UpTo(a, 0)) = <<>> /\ CallsOf(UpTo(a, 0)) = <<>>
        BY <1>2, <3>1, AnswerGrows
      <4>2. QED
        BY <4>1 DEF AtBlock, Empty
    <3>3. SoFar(p, a, Empty, 0, 0)
      BY <1>2, <3>1, <3>2, SoFarAtBlock
    <3>4. 0 = Before(p, a, 0) + 0 /\ Span(p, a, 0) \in Nat
      <4>1. Before(p, a, 0) = Len(Opening(p))
        BY <1>2, EventsStand
      <4>2. Span(p, a, 0) \in Nat
        BY <1>2, <3>1, SpanIs
      <4>3. QED
        BY <2>2, <4>1, <4>2
    <3>5. Placed(p, a, 0, 0, 0)
      BY <3>4, PlacedIs
    <3>6. QED
      BY <3>1, <3>3, <3>5 DEF Along, Stands
  <2>3. QED
    BY <2>1, <2>2
<1> HIDE DEF Empty
<1>6. y.at = "open" /\ y.answer = a /\ y.next = 0 /\ y.half = FALSE /\ y.line = FALSE /\ y.s = Empty /\ y.cut = FALSE
  BY DEF NoStream
<1>7. y \in StreamKind
  BY <1>1 DEF NoStream, StreamKind
<1>8. Counted(p, a, Empty, 0)
  BY <1>4 DEF Counted
<1>9. Typed(p, y)
  <2>1. y.next <= Len(Events(p, y.answer))
    BY <1>3, <1>6
  <2>2. QED
    BY <1>7, <2>1 DEF Typed
<1>10. Fits(p, y)
  <2>1. AddsUp(y.s) /\ Along(p, y.answer, y.next, y.s) /\ Counted(p, y.answer, y.s, y.next) /\ y.half = y.line
    BY <1>1, <1>5, <1>6, <1>8
  <2>2. y.at # "done"
    BY <1>6
  <2>3. QED
    BY <2>1, <2>2 DEF Fits
<1>11. QED
  BY <1>6, <1>9, <1>10

-----------------------------------------------------------------------------
(* The messages of a turn.                                                 *)

Results(ids) == [k \in DOMAIN ids |-> ResultOf(ids[k])]

(* m begins with the prompt, n rows of r and the message of the user.      *)
Starts(m, r, n) ==
  /\ Len(m) >= n + 2 /\ m[1] = Said("system") /\ m[n + 2] = Said("user")
  /\ \A i \in 1..n : m[i + 1] = r[i].message

AllInPlace(m, n) == \A i \in (n + 3)..Len(m) : InPlace(m, i)

LoadedIn(t, r) ==
  LET found == IF t.pc = "save" THEN Len(r) ELSE Len(r) - 1
  IN IF found < HistorySize THEN found ELSE HistorySize

Whole(t, r) ==
  /\ Starts(t.messages, r, LoadedIn(t, r))
  /\ AllInPlace(t.messages \o Results(t.left), LoadedIn(t, r))
  /\ IF t.pc = "save" THEN Len(t.messages) = LoadedIn(t, r) + 2
     ELSE r # <<>> /\ r[Len(r)].message = Said("user")

Busy == {"save", "model", "stream", "tools"}

LEMMA WholeIs ==
  /\ MessagesAreWhole <=> (turn.pc \in Busy => Whole(turn, rows))
  /\ MessagesAreWhole' <=> (turn'.pc \in Busy => Whole(turn', rows'))
<1>1. MessagesAreWhole <=> (turn.pc \in Busy => Whole(turn, rows))
  BY DEF MessagesAreWhole, Busy, Whole, Starts, AllInPlace, LoadedIn, Loaded, Due, Results
<1>2. MessagesAreWhole' <=> (turn'.pc \in Busy => Whole(turn', rows'))
  BY DEF MessagesAreWhole, Busy, Whole, Starts, AllInPlace, LoadedIn, Loaded, Due, Results, InPlace
<1>3. QED
  BY <1>1, <1>2

LEMMA MessageTypes ==
  /\ \A role \in {"system", "user", "assistant", "tool"} : Said(role) \in ChatMessage
  /\ \A content, calls : calls \in Seq(CallId) => Answering(content, calls) \in ChatMessage
  /\ \A call \in CallId : ResultOf(call) \in ChatMessage
<1>1. <<>> \in Seq(CallId)
  OBVIOUS
<1>2. \A role \in {"system", "user", "assistant", "tool"} : Said(role) \in ChatMessage
  BY <1>1 DEF Said, ChatMessage
<1>3. ASSUME NEW content, NEW calls \in Seq(CallId) PROVE Answering(content, calls) \in ChatMessage
  BY DEF Answering, ChatMessage
<1>4. \A call \in CallId : ResultOf(call) \in ChatMessage
  BY <1>1 DEF ResultOf, ChatMessage
<1>5. QED
  BY <1>2, <1>3, <1>4

LEMMA ResultsAre ==
  ASSUME NEW ids \in Seq(CallId)
  PROVE  /\ Results(ids) \in Seq(ChatMessage) /\ Len(Results(ids)) = Len(ids)
         /\ \A k \in 1..Len(ids) : Results(ids)[k] = ResultOf(ids[k]) /\ ids[k] \in CallId
<1>1. \A k \in 1..Len(ids) : ids[k] \in CallId /\ ResultOf(ids[k]) \in ChatMessage
  BY MessageTypes
<1>2. QED
  BY <1>1 DEF Results

LEMMA NoResults == Results(<<>>) = <<>>
  BY DEF Results

LEMMA NothingDue ==
  ASSUME NEW m \in Seq(ChatMessage)
  PROVE  m \o Results(<<>>) = m
<1>1. m \o <<>> = m
  OBVIOUS
<1>2. QED
  BY <1>1, NoResults

LEMMA StartsStays ==
  ASSUME NEW m \in Seq(ChatMessage), NEW e \in ChatMessage, NEW r, NEW n \in Nat, Starts(m, r, n)
  PROVE  Starts(Append(m, e), r, n)
<1>1. Len(m) \in Nat /\ Len(Append(m, e)) = Len(m) + 1 /\ \A i \in 1..Len(m) : Append(m, e)[i] = m[i]
  OBVIOUS
<1>2. 1 \in 1..Len(m) /\ n + 2 \in 1..Len(m) /\ \A i \in 1..n : i + 1 \in 1..Len(m)
  BY <1>1 DEF Starts
<1> DEFINE l == Append(m, e)
<1>3. Len(l) >= n + 2 /\ l[1] = m[1] /\ l[n + 2] = m[n + 2] /\ \A i \in 1..n : l[i + 1] = m[i + 1]
  BY <1>1, <1>2
<1> HIDE DEF l
<1>4. Starts(l, r, n)
  BY <1>3 DEF Starts
<1>5. QED
  BY <1>4 DEF l

LEMMA Followed ==
  ASSUME NEW f \in Seq(ChatMessage), NEW g \in Seq(ChatMessage)
  PROVE  /\ f \o g \in Seq(ChatMessage) /\ Len(f) \in Nat /\ Len(g) \in Nat /\ Len(f \o g) = Len(f) + Len(g)
         /\ \A i \in 1..Len(f) : (f \o g)[i] = f[i]
         /\ \A i \in 1..Len(g) : (f \o g)[Len(f) + i] = g[i]
  OBVIOUS

(* A result that comes is no longer to come.                               *)
LEMMA ToolDue ==
  ASSUME NEW m \in Seq(ChatMessage), NEW left \in Seq(CallId), left # <<>>
  PROVE  Append(m, ResultOf(Head(left))) \o Results(Tail(left)) = m \o Results(left)
<1> DEFINE n == Len(m)
           k == Len(left)
           l == Append(m, ResultOf(Head(left)))
           x == l \o Results(Tail(left))
           y == m \o Results(left)
<1>1. n \in Nat /\ k \in Nat \ {0} /\ Tail(left) \in Seq(CallId) /\ Len(Tail(left)) = k - 1 /\ Head(left) = left[1]
      /\ left[1] \in CallId /\ \A i \in 1..(k - 1) : Tail(left)[i] = left[i + 1]
  OBVIOUS
<1>2. Results(left) \in Seq(ChatMessage) /\ Len(Results(left)) = k /\ \A i \in 1..k : Results(left)[i] = ResultOf(left[i])
  BY ResultsAre
<1>3. /\ Results(Tail(left)) \in Seq(ChatMessage) /\ Len(Results(Tail(left))) = k - 1
      /\ \A i \in 1..(k - 1) : Results(Tail(left))[i] = ResultOf(left[i + 1])
  <2> DEFINE rest == Tail(left)
  <2>1. rest \in Seq(CallId) /\ Len(rest) = k - 1 /\ \A i \in 1..(k - 1) : rest[i] = left[i + 1]
    BY <1>1
  <2> HIDE DEF rest, k
  <2>2. /\ Results(rest) \in Seq(ChatMessage) /\ Len(Results(rest)) = k - 1
        /\ \A i \in 1..(k - 1) : Results(rest)[i] = ResultOf(rest[i])
    BY <2>1, ResultsAre
  <2>3. \A i \in 1..(k - 1) : Results(rest)[i] = ResultOf(left[i + 1])
    BY <2>1, <2>2
  <2>4. QED
    BY <2>2, <2>3 DEF rest
<1>4. ResultOf(Head(left)) \in ChatMessage /\ Head(left) = left[1]
  BY <1>1, MessageTypes
<1>5. l \in Seq(ChatMessage) /\ Len(l) = n + 1 /\ l[n + 1] = ResultOf(left[1]) /\ \A i \in 1..n : l[i] = m[i]
  BY <1>4
<1> HIDE DEF k, l, n
<1>6. /\ x \in Seq(ChatMessage) /\ Len(x) = n + k /\ y \in Seq(ChatMessage) /\ Len(y) = n + k
      /\ \A i \in 1..(n + 1) : x[i] = l[i]
      /\ \A i \in 1..(k - 1) : x[(n + 1) + i] = ResultOf(left[i + 1])
      /\ \A i \in 1..n : y[i] = m[i]
      /\ \A i \in 1..k : y[n + i] = ResultOf(left[i])
  <2> DEFINE f == Results(Tail(left))
             g == Results(left)
  <2> HIDE DEF f, g
  <2>1. l \o f \in Seq(ChatMessage) /\ Len(l \o f) = (n + 1) + (k - 1) /\ (\A i \in 1..(n + 1) : (l \o f)[i] = l[i])
        /\ \A i \in 1..(k - 1) : (l \o f)[(n + 1) + i] = f[i]
    <3>1. f \in Seq(ChatMessage) /\ Len(f) = k - 1
      BY <1>3 DEF f
    <3>2. l \in Seq(ChatMessage) /\ Len(l) = n + 1
      BY <1>5
    <3>3. /\ l \o f \in Seq(ChatMessage) /\ Len(l \o f) = Len(l) + Len(f)
          /\ \A i \in 1..Len(l) : (l \o f)[i] = l[i]
          /\ \A i \in 1..Len(f) : (l \o f)[Len(l) + i] = f[i]
      BY <3>1, <3>2, Followed
    <3>4. QED
      BY <3>1, <3>2, <3>3
  <2>2. m \o g \in Seq(ChatMessage) /\ Len(m \o g) = n + k /\ (\A i \in 1..n : (m \o g)[i] = m[i])
        /\ \A i \in 1..k : (m \o g)[n + i] = g[i]
    <3>1. g \in Seq(ChatMessage) /\ Len(g) = k
      BY <1>2 DEF g
    <3>2. /\ m \o g \in Seq(ChatMessage) /\ Len(m \o g) = Len(m) + Len(g)
          /\ \A i \in 1..Len(m) : (m \o g)[i] = m[i]
          /\ \A i \in 1..Len(g) : (m \o g)[Len(m) + i] = g[i]
      BY <3>1, Followed
    <3>3. Len(m) = n
      BY DEF n
    <3>4. QED
      BY <3>1, <3>2, <3>3
  <2>3. (n + 1) + (k - 1) = n + k
    BY <1>1
  <2>4. x = l \o f /\ y = m \o g
    BY DEF f, g
  <2>5. (\A i \in 1..(k - 1) : f[i] = ResultOf(left[i + 1])) /\ \A i \in 1..k : g[i] = ResultOf(left[i])
    BY <1>2, <1>3 DEF f, g
  <2> HIDE DEF x, y
  <2>6. QED
    BY <2>1, <2>2, <2>3, <2>4, <2>5
<1> HIDE DEF x, y
<1>7. ASSUME NEW i \in 1..(n + k) PROVE x[i] = y[i]
  <2>1. CASE i <= n
    BY <1>1, <1>5, <1>6, <2>1
  <2>2. CASE i = n + 1
    <3>1. x[i] = ResultOf(left[1])
      BY <1>1, <1>5, <1>6, <2>2
    <3>2. y[i] = ResultOf(left[1])
      BY <1>1, <1>6, <2>2
    <3>3. QED
      BY <3>1, <3>2
  <2>3. CASE i > n + 1
    <3> DEFINE j == i - n - 1
    <3>1. j \in 1..(k - 1) /\ j + 1 \in 1..k /\ i = (n + 1) + j /\ i = n + (j + 1)
      BY <1>1, <2>3
    <3> HIDE DEF j
    <3>2. x[i] = ResultOf(left[j + 1])
      BY <1>6, <3>1
    <3>3. y[i] = ResultOf(left[j + 1])
      BY <1>6, <3>1
    <3>4. QED
      BY <3>2, <3>3
  <2>4. QED
    <3>1. i \in Nat /\ n \in Nat
      BY <1>1
    <3>2. QED
      BY <2>1, <2>2, <2>3, <3>1
<1>8. x = [i \in 1..(n + k) |-> x[i]] /\ y = [i \in 1..(n + k) |-> y[i]]
  BY <1>6
<1>9. x = y
  BY <1>7, <1>8
<1>10. QED
  BY <1>9 DEF x, y, l

(* An answer with calls, and the results that are now to come.             *)
LEMMA HeardInPlace ==
  ASSUME NEW m \in Seq(ChatMessage), NEW n \in Nat, AllInPlace(m, n), NEW content, NEW ids \in Seq(CallId), ids # <<>>
  PROVE  AllInPlace(Append(m, Answering(content, ids)) \o Results(ids), n)
<1> DEFINE e == Answering(content, ids)
           c == Len(m)
           k == Len(ids)
           l == Append(m, e)
           d == l \o Results(ids)
<1>1. e \in ChatMessage /\ e.role = "assistant" /\ e.calls = ids /\ e.of = <<>>
  BY MessageTypes DEF Answering
<1>2. c \in Nat /\ k \in Nat /\ l \in Seq(ChatMessage) /\ Len(l) = c + 1 /\ l[c + 1] = e /\ \A i \in 1..c : l[i] = m[i]
  BY <1>1
<1>3. Results(ids) \in Seq(ChatMessage) /\ Len(Results(ids)) = k
      /\ \A i \in 1..k : Results(ids)[i] = ResultOf(ids[i]) /\ ids[i] \in CallId
  BY ResultsAre
<1> HIDE DEF l, e
<1>4. /\ Len(d) = c + 1 + k /\ d[c + 1] = e /\ DOMAIN d = 1..(c + 1 + k)
      /\ \A i \in 1..c : d[i] = m[i]
      /\ \A i \in 1..k : d[(c + 1) + i] = ResultOf(ids[i])
  <2> DEFINE f == Results(ids)
  <2>1. f \in Seq(ChatMessage) /\ Len(f) = k /\ \A i \in 1..k : f[i] = ResultOf(ids[i])
    BY <1>3
  <2>2. d = l \o f
    OBVIOUS
  <2> HIDE DEF f, c, k, d
  <2>3. l \o f \in Seq(ChatMessage) /\ Len(l \o f) = (c + 1) + k /\ (\A i \in 1..(c + 1) : (l \o f)[i] = l[i])
        /\ \A i \in 1..k : (l \o f)[(c + 1) + i] = f[i]
    <3>1. l \in Seq(ChatMessage) /\ Len(l) = c + 1
      BY <1>2
    <3>2. /\ l \o f \in Seq(ChatMessage) /\ Len(l \o f) = Len(l) + Len(f)
          /\ \A i \in 1..Len(l) : (l \o f)[i] = l[i]
          /\ \A i \in 1..Len(f) : (l \o f)[Len(l) + i] = f[i]
      BY <2>1, <3>1, Followed
    <3>3. QED
      BY <2>1, <3>1, <3>2
  <2>4. DOMAIN d = 1..(c + 1 + k)
    BY <2>2, <2>3
  <2>5. c + 1 \in 1..(c + 1) /\ \A i \in 1..c : i \in 1..(c + 1)
    BY <1>2
  <2>6. QED
    BY <1>2, <2>1, <2>2, <2>3, <2>4, <2>5
<1>5. DOMAIN m = 1..c /\ DOMAIN ids = 1..k
  OBVIOUS
<1> HIDE DEF d, c, k
<1>6. ASSUME NEW i \in (n + 3)..(c + 1 + k) PROVE InPlace(d, i)
  <2>1. CASE i <= c
    <3>1. i \in 1..c /\ d[i] = m[i] /\ i \in (n + 3)..c
      BY <1>2, <1>4, <2>1
    <3>2. InPlace(m, i)
      BY <3>1 DEF AllInPlace, c
    <3>3. \A q \in DOMAIN m[i].calls : i + q \in DOMAIN d /\ d[i + q].of = m[i].calls[q]
      <4> SUFFICES ASSUME NEW q \in DOMAIN m[i].calls PROVE i + q \in DOMAIN d /\ d[i + q].of = m[i].calls[q]
        OBVIOUS
      <4>1. i + q \in 1..c /\ m[i + q].of = m[i].calls[q]
        BY <1>5, <3>2 DEF InPlace
      <4>2. QED
        BY <1>2, <1>4, <4>1
    <3>4. m[i].of # <<>> => \E h \in 1..(i - 1) : m[i].of \in ToSet(d[h].calls)
      <4> SUFFICES ASSUME m[i].of # <<>> PROVE \E h \in 1..(i - 1) : m[i].of \in ToSet(d[h].calls)
        OBVIOUS
      <4>1. PICK h \in 1..(i - 1) : m[i].of \in ToSet(m[h].calls)
        BY <3>2 DEF InPlace
      <4>2. h \in 1..c
        BY <1>2, <2>1, <3>1
      <4>3. d[h] = m[h]
        BY <1>4, <4>2
      <4>4. QED
        BY <4>1, <4>3
    <3>5. m[i].role # "system" /\ (m[i].said \/ m[i].calls # <<>>)
      BY <3>2 DEF InPlace
    <3>6. QED
      BY <3>1, <3>3, <3>4, <3>5 DEF InPlace
  <2>2. CASE i = c + 1
    <3>1. d[i] = e
      BY <1>4, <2>2
    <3>2. \A q \in DOMAIN ids : i + q \in DOMAIN d /\ d[i + q].of = ids[q]
      <4> SUFFICES ASSUME NEW q \in 1..k PROVE i + q \in DOMAIN d /\ d[i + q].of = ids[q]
        BY <1>5
      <4>1. d[(c + 1) + q] = ResultOf(ids[q]) /\ (c + 1) + q \in DOMAIN d
        BY <1>2, <1>4
      <4>2. QED
        BY <2>2, <4>1 DEF ResultOf
    <3>3. QED
      BY <1>1, <3>1, <3>2 DEF InPlace
  <2>3. CASE i > c + 1
    <3> DEFINE q == i - (c + 1)
    <3>1. q \in 1..k /\ i = (c + 1) + q
      BY <1>2, <2>3
    <3>2. d[i] = ResultOf(ids[q])
      BY <1>4, <3>1
    <3>3. c + 1 \in 1..(i - 1)
      BY <1>2, <2>3
    <3>4. ids[q] \in ToSet(d[c + 1].calls)
      BY <1>1, <1>4, <1>5, <3>1 DEF ToSet
    <3> HIDE DEF q
    <3>5. d[i].role = "tool" /\ d[i].said /\ d[i].calls = <<>> /\ d[i].of = ids[q]
      BY <3>2 DEF ResultOf
    <3>6. \A h \in DOMAIN d[i].calls : FALSE
      BY <3>5
    <3>7. QED
      BY <3>3, <3>4, <3>5, <3>6 DEF InPlace
  <2>4. QED
    BY <1>2, <2>1, <2>2, <2>3
<1>7. AllInPlace(d, n)
  BY <1>4, <1>6 DEF AllInPlace
<1>8. QED
  BY <1>7 DEF d, l, e

-----------------------------------------------------------------------------
(* The steps of a turn.                                                    *)

Row == [message : ChatMessage, content : Seq(Fragment)]

TurnKind ==
  [pc : Label, messages : Seq(ChatMessage), iteration : 0..MaxToolIterations - 1, calls : Seq(CallId),
   left : Seq(CallId), content : Seq(Fragment), error : BOOLEAN]

ToldKind == [answer : Answer \cup {<<>>}, cut : BOOLEAN]

Turnlike(r) ==
  \A i \in DOMAIN r :
    /\ r[i].message.role \in {"user", "assistant"} /\ r[i].message.of = <<>>
    /\ r[i].message.role = "user" => r[i].message = Said("user")

Listened(t, x, y, n) ==
  /\ t.pc = "stream" => y.answer = x.answer /\ (x.cut => y.cut)
  /\ t.pc \in {"tools", "persist"} /\ ~t.error /\ ~y.cut => t.content = TextOf(y.answer)
  /\ t.pc # "idle" => n > 0
  /\ t.left # <<>> <=> t.pc = "tools"

TurnRecorded(t, r, y, n) ==
  t.pc = "idle" /\ ~t.error /\ n > 0 /\ ~y.cut =>
    Last(r).message.role = "assistant" /\ Last(r).content = TextOf(y.answer)

Chatting(p, x, r, t, n, h, y) ==
  /\ Typed(p, x) /\ Fits(p, x)
  /\ r \in Seq(Row) /\ t \in TurnKind /\ n \in 0..MaxTurns /\ h \in 0..MaxMishaps /\ y \in ToldKind
  /\ Turnlike(r) /\ (t.pc \in Busy => Whole(t, r)) /\ Listened(t, x, y, n) /\ TurnRecorded(t, r, y, n)

LEMMA ChattingIs ==
  /\ ChatIInv <=> Chatting(provider, stream, rows, turn, turns, mishaps, told)
  /\ ChatIInv' <=> Chatting(provider', stream', rows', turn', turns', mishaps', told')
<1>1. ChatIInv <=> Chatting(provider, stream, rows, turn, turns, mishaps, told)
  <2>1. RowsAreTurns <=> Turnlike(rows)
    BY DEF RowsAreTurns, Turnlike
  <2>2. AnswerIsHeard <=> Listened(turn, stream, told, turns)
    BY DEF AnswerIsHeard, Listened
  <2>3. LastAnswerIsKept <=> TurnRecorded(turn, rows, told, turns)
    BY DEF LastAnswerIsKept, TurnRecorded
  <2>4. ChatTypeOK <=> /\ StreamTypeOK /\ rows \in Seq(Row) /\ turn \in TurnKind
                       /\ turns \in 0..MaxTurns /\ mishaps \in 0..MaxMishaps /\ told \in ToldKind
    BY DEF ChatTypeOK, Row, TurnKind, ToldKind
  <2>5. QED
    BY <2>1, <2>2, <2>3, <2>4, StreamFits, WholeIs DEF ChatIInv, Chatting
<1>2. ChatIInv' <=> Chatting(provider', stream', rows', turn', turns', mishaps', told')
  <2>1. RowsAreTurns' <=> Turnlike(rows')
    BY DEF RowsAreTurns, Turnlike
  <2>2. AnswerIsHeard' <=> Listened(turn', stream', told', turns')
    BY DEF AnswerIsHeard, Listened
  <2>3. LastAnswerIsKept' <=> TurnRecorded(turn', rows', told', turns')
    BY DEF LastAnswerIsKept, TurnRecorded
  <2>4. ChatTypeOK' <=> /\ StreamTypeOK' /\ rows' \in Seq(Row) /\ turn' \in TurnKind
                        /\ turns' \in 0..MaxTurns /\ mishaps' \in 0..MaxMishaps /\ told' \in ToldKind
    BY DEF ChatTypeOK, Row, TurnKind, ToldKind
  <2>5. QED
    BY <2>1, <2>2, <2>3, <2>4, StreamFits, WholeIs DEF ChatIInv, Chatting
<1>3. QED
  BY <1>1, <1>2

LEMMA RowsGrow ==
  ASSUME NEW r \in Seq(Row), Turnlike(r), NEW m \in ChatMessage, NEW c \in Seq(Fragment), m.of = <<>>,
         m.role = "assistant" \/ m = Said("user")
  PROVE  /\ Append(r, [message |-> m, content |-> c]) \in Seq(Row)
         /\ Turnlike(Append(r, [message |-> m, content |-> c]))
         /\ Len(Append(r, [message |-> m, content |-> c])) = Len(r) + 1 /\ Len(r) \in Nat
         /\ \A i \in 1..Len(r) : Append(r, [message |-> m, content |-> c])[i] = r[i]
         /\ Append(r, [message |-> m, content |-> c])[Len(r) + 1].message = m
         /\ Last(Append(r, [message |-> m, content |-> c])) = [message |-> m, content |-> c]
<1> DEFINE e == [message |-> m, content |-> c]
           q == Append(r, e)
<1>1. e \in Row /\ e.message = m
  BY DEF Row
<1> HIDE DEF e
<1>2. q \in Seq(Row) /\ Len(q) = Len(r) + 1 /\ Len(r) \in Nat /\ q[Len(r) + 1] = e /\ \A i \in 1..Len(r) : q[i] = r[i]
  BY <1>1
<1>3. m.role \in {"user", "assistant"}
  BY DEF Said
<1> HIDE DEF q
<1>4. Turnlike(q)
  <2> SUFFICES ASSUME NEW i \in DOMAIN q
               PROVE  /\ q[i].message.role \in {"user", "assistant"} /\ q[i].message.of = <<>>
                      /\ q[i].message.role = "user" => q[i].message = Said("user")
    BY DEF Turnlike
  <2>1. i \in 1..(Len(r) + 1)
    BY <1>2
  <2>2. CASE i = Len(r) + 1
    <3>1. q[i].message = m
      BY <1>1, <1>2, <2>2
    <3>2. m.role = "user" => m = Said("user")
      OBVIOUS
    <3>3. QED
      BY <1>3, <3>1, <3>2
  <2>3. CASE i # Len(r) + 1
    <3>1. i \in 1..Len(r) /\ i \in DOMAIN r
      BY <1>2, <2>1, <2>3
    <3>2. QED
      BY <1>2, <3>1 DEF Turnlike
  <2>4. QED
    BY <2>2, <2>3
<1>5. Last(q) = e
  BY <1>2 DEF Last
<1>6. QED
  BY <1>1, <1>2, <1>4, <1>5 DEF q, e

LEMMA IdleIs ==
  /\ Idle \in TurnKind /\ Idle.left = <<>>
  /\ \A pc \in Label : [Idle EXCEPT !.pc = pc] \in TurnKind /\ [Idle EXCEPT !.pc = pc].pc = pc
                       /\ [Idle EXCEPT !.pc = pc].left = <<>>
  /\ \A error \in BOOLEAN : [Idle EXCEPT !.error = error] \in TurnKind /\ [Idle EXCEPT !.error = error].pc = "idle"
                            /\ [Idle EXCEPT !.error = error].left = <<>> /\ [Idle EXCEPT !.error = error].error = error
<1>1. 0 \in 0..MaxToolIterations - 1
  BY ChatBounds
<1>2. Idle \in TurnKind /\ Idle.left = <<>> /\ Idle.pc = "idle"
  BY <1>1 DEF Idle, TurnKind, Label
<1> HIDE DEF Idle
<1>3. ASSUME NEW pc \in Label
      PROVE  [Idle EXCEPT !.pc = pc] \in TurnKind /\ [Idle EXCEPT !.pc = pc].pc = pc /\ [Idle EXCEPT !.pc = pc].left = <<>>
  BY <1>2 DEF TurnKind
<1>4. ASSUME NEW error \in BOOLEAN
      PROVE  [Idle EXCEPT !.error = error] \in TurnKind /\ [Idle EXCEPT !.error = error].pc = "idle"
             /\ [Idle EXCEPT !.error = error].left = <<>> /\ [Idle EXCEPT !.error = error].error = error
  BY <1>2 DEF TurnKind
<1>5. QED
  BY <1>2, <1>3, <1>4

LEMMA ChatBegins == ASSUME ChatInit PROVE ChatIInv
<1>1. Typed(provider, stream) /\ Fits(provider, stream)
  BY NoStreamFits DEF ChatInit
<1>2. rows \in Seq(Row) /\ Turnlike(rows)
  BY DEF ChatInit, Turnlike
<1>3. turn \in TurnKind /\ turn.left = <<>> /\ turn.pc = "idle"
  BY IdleIs DEF ChatInit, Idle
<1>4. turns \in 0..MaxTurns /\ mishaps \in 0..MaxMishaps /\ turns = 0 /\ told \in ToldKind
  BY ChatBounds DEF ChatInit, Untold, ToldKind
<1>5. turn.pc \notin Busy
  BY <1>3 DEF Busy
<1>6. Listened(turn, stream, told, turns) /\ TurnRecorded(turn, rows, told, turns)
  BY <1>3, <1>4 DEF Listened, TurnRecorded
<1>7. QED
  BY <1>1, <1>2, <1>3, <1>4, <1>5, <1>6, ChattingIs DEF Chatting

LEMMA BeginKeeps == ASSUME ChatIInv, NEW saved \in BOOLEAN, Begin(saved) PROVE ChatIInv'
<1>1. Chatting(provider, stream, rows, turn, turns, mishaps, told)
  BY ChattingIs
<1>2. Typed(provider', stream') /\ Fits(provider', stream')
  <2>1. provider \in Provider
    BY <1>1 DEF Chatting, Typed
  <2>2. QED
    BY <2>1, NoStreamFits DEF Begin
<1>3. rows' \in Seq(Row) /\ Turnlike(rows')
  <2>1. CASE saved
    <3>1. Said("user") \in ChatMessage /\ Said("user").of = <<>> /\ <<>> \in Seq(Fragment)
      BY MessageTypes DEF Said
    <3>2. rows' = Append(rows, [message |-> Said("user"), content |-> <<>>])
      BY <2>1 DEF Begin, Keep
    <3> DEFINE none == <<>>
    <3>3. rows' = Append(rows, [message |-> Said("user"), content |-> none])
      BY <3>2
    <3>4. none \in Seq(Fragment)
      OBVIOUS
    <3> HIDE DEF none
    <3>5. QED
      BY <1>1, <3>1, <3>3, <3>4, RowsGrow DEF Chatting
  <2>2. CASE ~saved
    BY <1>1, <2>2 DEF Begin, Chatting
  <2>3. QED
    BY <2>1, <2>2
<1>4. turn' \in TurnKind /\ turn'.pc = "load" /\ turn'.left = <<>>
  BY IdleIs DEF Begin, Label
<1>5. turns' \in 0..MaxTurns /\ turns' > 0 /\ mishaps' \in 0..MaxMishaps /\ told' \in ToldKind
  BY <1>1, ChatBounds DEF Begin, Chatting, Untold, ToldKind
<1>6. turn'.pc \notin Busy
  BY <1>4 DEF Busy
<1>7. Listened(turn', stream', told', turns') /\ TurnRecorded(turn', rows', told', turns')
  BY <1>4, <1>5 DEF Listened, TurnRecorded
<1>8. QED
  BY <1>2, <1>3, <1>4, <1>5, <1>6, <1>7, ChattingIs DEF Chatting


LEMMA LoadKeeps == ASSUME ChatIInv, LoadHistory PROVE ChatIInv'
<1> DEFINE found == IF Len(rows) < HistorySize THEN Len(rows) ELSE HistorySize
           system == Said("system")
           user == Said("user")
           history == loadHistory
           held == <<system>> \o history \o <<user>>
<1>1. Chatting(provider, stream, rows, turn, turns, mishaps, told)
  BY ChattingIs
<1>2. turn \in TurnKind /\ rows \in Seq(Row) /\ turn.pc = "load"
  BY <1>1 DEF LoadHistory, Chatting
<1>3. turn.left = <<>> /\ turns > 0
  BY <1>1, <1>2 DEF Chatting, Listened
<1>4. found \in Nat /\ found <= Len(rows) /\ Len(rows) \in Nat
  BY <1>2, ChatBounds
<1>5. system \in ChatMessage /\ user \in ChatMessage
  BY MessageTypes
<1>6. history = [i \in 1..found |-> rows[i].message]
  BY DEF loadHistory
<1> HIDE DEF found, system, user, history
<1>7. \A i \in 1..found : rows[i].message \in ChatMessage
  <2>1. \A i \in 1..found : rows[i] \in Row
    BY <1>2, <1>4
  <2>2. QED
    BY <2>1 DEF Row
<1>8. history \in Seq(ChatMessage) /\ Len(history) = found /\ \A i \in 1..found : history[i] = rows[i].message
  BY <1>4, <1>6, <1>7
<1>9. /\ held \in Seq(ChatMessage) /\ Len(held) = found + 2 /\ held[1] = system
      /\ held[found + 2] = user /\ \A i \in 1..found : held[i + 1] = history[i]
  BY <1>4, <1>5, <1>8
<1> HIDE DEF held
<1>10. turn' = [turn EXCEPT !.pc = "save", !.messages = held]
  BY DEF LoadHistory, held, history, system, user
<1>11. turn' \in TurnKind /\ turn'.pc = "save" /\ turn'.messages = held /\ turn'.left = <<>>
  BY <1>2, <1>3, <1>9, <1>10 DEF TurnKind, Label
<1>12. rows' = rows /\ stream' = stream /\ provider' = provider /\ turns' = turns /\ mishaps' = mishaps /\ told' = told
  BY DEF LoadHistory
<1>13. LoadedIn(turn', rows) = found
  BY <1>11 DEF LoadedIn, found
<1>14. Starts(held, rows, found)
  BY <1>4, <1>8, <1>9 DEF Starts, system, user
<1>15. AllInPlace(held \o Results(turn'.left), found)
  <2>1. held \o Results(<<>>) = held
    BY <1>9, NothingDue
  <2>2. \A i \in (found + 3)..Len(held) : FALSE
    BY <1>4, <1>9
  <2>3. QED
    BY <1>11, <2>1, <2>2 DEF AllInPlace
<1>16. Whole(turn', rows)
  BY <1>9, <1>11, <1>13, <1>14, <1>15 DEF Whole
<1>17. Listened(turn', stream, told, turns) /\ TurnRecorded(turn', rows, told, turns)
  BY <1>3, <1>11 DEF Listened, TurnRecorded
<1>18. QED
  BY <1>1, <1>11, <1>12, <1>16, <1>17, ChattingIs DEF Chatting

LEMMA SaveKeeps == ASSUME ChatIInv, SaveMessage PROVE ChatIInv'
<1> DEFINE n == LoadedIn(turn, rows)
           none == <<>>
<1>1. Chatting(provider, stream, rows, turn, turns, mishaps, told)
  BY ChattingIs
<1>2. turn \in TurnKind /\ rows \in Seq(Row) /\ Turnlike(rows) /\ turn.pc = "save"
  BY <1>1 DEF SaveMessage, Chatting
<1>3. turn.left = <<>> /\ turns > 0
  BY <1>1, <1>2 DEF Chatting, Listened
<1>4. Whole(turn, rows)
  BY <1>1, <1>2 DEF Chatting, Busy
<1>5. turn' \in TurnKind /\ turn'.pc = "model" /\ turn'.messages = turn.messages /\ turn'.left = turn.left
  BY <1>2 DEF SaveMessage, Resume, TurnKind, Label
<1>6. rows' = Append(rows, [message |-> Said("user"), content |-> none]) /\ none \in Seq(Fragment)
  BY DEF SaveMessage, Keep
<1> HIDE DEF none
<1>7. Said("user") \in ChatMessage /\ Said("user").of = <<>>
  BY MessageTypes DEF Said
<1>8. /\ rows' \in Seq(Row) /\ Turnlike(rows') /\ Len(rows') = Len(rows) + 1 /\ Len(rows) \in Nat
      /\ (\A i \in 1..Len(rows) : rows'[i] = rows[i]) /\ rows'[Len(rows) + 1].message = Said("user")
  BY <1>2, <1>6, <1>7, RowsGrow
<1>9. n \in Nat /\ n <= Len(rows) /\ LoadedIn(turn', rows') = n
  BY <1>2, <1>5, <1>8, ChatBounds DEF LoadedIn
<1>10. Starts(turn'.messages, rows', n)
  <2>1. Starts(turn.messages, rows, n)
    BY <1>4 DEF Whole
  <2> HIDE DEF n
  <2>2. \A i \in 1..n : rows'[i] = rows[i]
    BY <1>8, <1>9
  <2>3. QED
    BY <1>5, <2>1, <2>2 DEF Starts
<1>11. AllInPlace(turn'.messages \o Results(turn'.left), n)
  BY <1>4, <1>5 DEF Whole
<1>12. rows' # <<>> /\ rows'[Len(rows')].message = Said("user")
  BY <1>8
<1>13. Whole(turn', rows')
  BY <1>5, <1>9, <1>10, <1>11, <1>12 DEF Whole
<1>14. stream' = stream /\ provider' = provider /\ turns' = turns /\ mishaps' = mishaps /\ told' = told
  BY DEF SaveMessage
<1>15. Listened(turn', stream, told, turns) /\ TurnRecorded(turn', rows', told, turns)
  BY <1>3, <1>5 DEF Listened, TurnRecorded
<1>16. QED
  BY <1>1, <1>5, <1>8, <1>13, <1>14, <1>15, ChattingIs DEF Chatting

(* An error ends the loop, and what was heard may stay.                    *)
LEMMA ErrorKeeps == ASSUME ChatIInv, Refused \/ StreamFailed PROVE ChatIInv'
<1>1. Chatting(provider, stream, rows, turn, turns, mishaps, told)
  BY ChattingIs
<1>2. turn \in TurnKind /\ turn.pc \in {"model", "stream"}
  BY <1>1 DEF Refused, StreamFailed, Chatting
<1>3. turn.left = <<>> /\ turns > 0
  BY <1>1, <1>2 DEF Chatting, Listened
<1>4. turn' = [turn EXCEPT !.pc = "persist", !.error = TRUE]
  BY DEF Refused, StreamFailed
<1>5. turn' \in TurnKind /\ turn'.pc = "persist" /\ turn'.error = TRUE /\ turn'.left = <<>>
  BY <1>2, <1>3, <1>4 DEF TurnKind, Label
<1>6. rows' = rows /\ stream' = stream /\ provider' = provider /\ turns' = turns /\ mishaps' = mishaps /\ told' = told
  BY DEF Refused, StreamFailed
<1>7. turn'.pc \notin Busy
  BY <1>5 DEF Busy
<1>8. Listened(turn', stream, told, turns) /\ TurnRecorded(turn', rows, told, turns)
  BY <1>3, <1>5 DEF Listened, TurnRecorded
<1>9. QED
  BY <1>1, <1>5, <1>6, <1>7, <1>8, ChattingIs DEF Chatting

LEMMA AskedKeeps == ASSUME ChatIInv, Asked PROVE ChatIInv'
<1>1. Chatting(provider, stream, rows, turn, turns, mishaps, told)
  BY ChattingIs
<1>2. turn \in TurnKind /\ turn.pc = "model" /\ provider \in Provider
  BY <1>1 DEF Asked, Chatting, Typed
<1>3. turn.left = <<>> /\ turns > 0
  BY <1>1, <1>2 DEF Chatting, Listened
<1>4. Whole(turn, rows)
  BY <1>1, <1>2 DEF Chatting, Busy
<1>5. /\ turn' \in TurnKind /\ turn'.pc = "stream" /\ turn'.messages = turn.messages /\ turn'.left = turn.left
      /\ turn'.error = turn.error
  BY <1>2 DEF Asked, Resume, TurnKind, Label
<1>6. Whole(turn', rows)
  BY <1>2, <1>4, <1>5 DEF Whole, LoadedIn
<1>7. PICK a \in Answer : stream' = [NoStream EXCEPT !.at = "open", !.answer = a] /\ told' = [answer |-> a, cut |-> FALSE]
  BY DEF Asked, Open
<1>8. Typed(provider, stream') /\ Fits(provider, stream') /\ stream'.answer = a /\ stream'.cut = FALSE
  BY <1>2, <1>7, OpenFits
<1>9. told' \in ToldKind /\ told'.answer = a
  BY <1>7 DEF ToldKind
<1>10. rows' = rows /\ provider' = provider /\ turns' = turns /\ mishaps' = mishaps
  BY DEF Asked
<1>11. Listened(turn', stream', told', turns) /\ TurnRecorded(turn', rows, told', turns)
  BY <1>3, <1>5, <1>8, <1>9 DEF Listened, TurnRecorded
<1>12. QED
  BY <1>1, <1>5, <1>6, <1>8, <1>9, <1>10, <1>11, ChattingIs DEF Chatting

LEMMA StreamingKeeps == ASSUME ChatIInv, Streaming PROVE ChatIInv'
<1>1. Chatting(provider, stream, rows, turn, turns, mishaps, told)
  BY ChattingIs
<1>2. turn \in TurnKind /\ turn.pc = "stream" /\ Typed(provider, stream) /\ Fits(provider, stream) /\ told \in ToldKind
  BY <1>1 DEF Streaming, Chatting
<1>3. told.answer = stream.answer /\ (stream.cut => told.cut) /\ turns > 0 /\ turn.left = <<>>
  BY <1>1, <1>2 DEF Chatting, Listened
<1>4. provider' = provider /\ rows' = rows /\ turn' = turn /\ turns' = turns
  BY DEF Streaming
<1>5. /\ Typed(provider, stream') /\ Fits(provider, stream') /\ mishaps' \in 0..MaxMishaps /\ told' \in ToldKind
      /\ told'.answer = stream'.answer /\ (stream'.cut => told'.cut)
  <2>1. ASSUME Read \/ Close, UNCHANGED <<mishaps, told>>
        PROVE  <1>5!:
    <3>1. stream'.answer = stream.answer /\ stream'.cut = stream.cut
      <4>1. stream \in StreamKind
        BY <1>2 DEF Typed
      <4>2. QED
        BY <2>1, <4>1 DEF Read, Close, StreamKind
    <3>2. QED
      BY <1>1, <1>2, <1>3, <2>1, <3>1, ReadKeeps, CloseKeeps DEF Chatting
  <2>2. ASSUME ErrorEvent, mishaps < MaxMishaps, mishaps' = mishaps + 1, told' = [told EXCEPT !.cut = TRUE]
        PROVE  <1>5!:
    <3>1. mishaps' \in 0..MaxMishaps
      BY <1>1, <2>2, ChatBounds DEF Chatting
    <3>2. told' \in ToldKind /\ told'.answer = told.answer /\ told'.cut
      BY <1>2, <2>2 DEF ToldKind
    <3>3. QED
      BY <1>2, <1>3, <2>2, <3>1, <3>2, FailureKeeps
  <2>3. ASSUME Break, mishaps < MaxMishaps, mishaps' = mishaps + 1, told' = told
        PROVE  <1>5!:
    <3>1. mishaps' \in 0..MaxMishaps
      BY <1>1, <2>3, ChatBounds DEF Chatting
    <3>2. stream'.answer = stream.answer /\ stream'.cut = stream.cut
      <4>1. stream \in StreamKind
        BY <1>2 DEF Typed
      <4>2. QED
        BY <2>3, <4>1 DEF Break, StreamKind
    <3>3. QED
      BY <1>2, <1>3, <2>3, <3>1, <3>2, FailureKeeps
  <2>4. QED
    BY <2>1, <2>2, <2>3 DEF Streaming
<1>6. Listened(turn, stream', told', turns) /\ TurnRecorded(turn, rows, told', turns)
  BY <1>2, <1>3, <1>5 DEF Listened, TurnRecorded
<1>7. QED
  BY <1>1, <1>4, <1>5, <1>6, ChattingIs DEF Chatting

(* A call of a turn has a name.                                            *)
LEMMA CallsAreNamed ==
  ASSUME ChatTypeOK, turns > 0
  PROVE  IdsOf(stream.s.toolCalls) \in Seq(CallId)
<1> DEFINE calls == stream.s.toolCalls
           ids == IdsOf(calls)
           CallKind == [id : Nat \ {0}, arguments : Seq(Fragment)]
           len == Len(calls)
<1>1. calls \in Seq(CallKind)
  BY DEF ChatTypeOK, StreamTypeOK, Made
<1> HIDE DEF calls
<1>2. ids = [i \in 1..len |-> <<turns, turn.iteration, calls[i].id>>] /\ len \in Nat
  <2>1. DOMAIN calls = 1..len /\ len \in Nat
    BY <1>1
  <2>2. QED
    BY <2>1 DEF IdsOf
<1>3. \A i \in 1..len : calls[i].id \in Nat \ {0}
  <2> HIDE DEF CallKind
  <2>1. \A i \in 1..len : calls[i] \in CallKind
    BY <1>1
  <2>2. QED
    BY <2>1 DEF CallKind
<1>4. turns \in 1..MaxTurns /\ turn.iteration \in 0..MaxToolIterations - 1
  <2>1. turns \in 0..MaxTurns
    BY DEF ChatTypeOK
  <2>2. turn.iteration \in 0..MaxToolIterations - 1
    BY DEF ChatTypeOK
  <2>3. QED
    BY <2>1, <2>2, ChatBounds
<1>5. \A i \in 1..len : <<turns, turn.iteration, calls[i].id>> \in CallId
  BY <1>3, <1>4 DEF CallId
<1> HIDE DEF len
<1>6. [i \in 1..len |-> <<turns, turn.iteration, calls[i].id>>] \in Seq(CallId)
  BY <1>2, <1>5
<1>7. QED
  BY <1>2, <1>6 DEF calls

LEMMA HeardKeeps == ASSUME ChatIInv, Heard PROVE ChatIInv'
<1> DEFINE n == LoadedIn(turn, rows)
           content == stream.s.content
           ids == IdsOf(stream.s.toolCalls)
           none == <<>>
<1>1. Chatting(provider, stream, rows, turn, turns, mishaps, told)
  BY ChattingIs
<1>2. turn \in TurnKind /\ turn.pc = "stream" /\ stream.at = "done" /\ Typed(provider, stream) /\ Fits(provider, stream)
  BY <1>1 DEF Heard, Chatting
<1>3. told.answer = stream.answer /\ (stream.cut => told.cut) /\ turns > 0 /\ turn.left = none
  BY <1>1, <1>2 DEF Chatting, Listened
<1>4. Whole(turn, rows)
  BY <1>1, <1>2 DEF Chatting, Busy
<1>5. ids \in Seq(CallId)
  <2>1. ChatTypeOK
    BY DEF ChatIInv
  <2>2. QED
    BY <1>3, <2>1, CallsAreNamed
<1>6. content \in Seq(Fragment)
  BY <1>2 DEF Typed, StreamKind, Made
<1>7. ~told.cut => content = TextOf(told.answer)
  BY <1>2, <1>3 DEF Fits, Brought
<1>8. rows' = rows /\ stream' = stream /\ provider' = provider /\ turns' = turns /\ mishaps' = mishaps /\ told' = told
  BY DEF Heard
<1>9. ids = none => turn' = [[turn EXCEPT !.content = content] EXCEPT !.pc = "persist"]
  BY DEF Heard
<1>10. ids # none => turn' = [[turn EXCEPT !.content = content] EXCEPT !.pc = "tools", !.left = ids,
                                 !.messages = Append(@, Answering(content, ids))]
  BY DEF Heard
<1> HIDE DEF n, content, ids, none
<1>11. CASE ids = none
  <2>1. /\ turn' \in TurnKind /\ turn'.pc = "persist" /\ turn'.left = none /\ turn'.content = content
        /\ turn'.error = turn.error
    BY <1>2, <1>3, <1>6, <1>9, <1>11 DEF TurnKind, Label
  <2>2. turn'.pc \notin Busy
    BY <2>1 DEF Busy
  <2>3. Listened(turn', stream, told, turns)
    <3>1. turn'.left = <<>>
      BY <2>1 DEF none
    <3>2. QED
      BY <1>3, <1>7, <2>1, <3>1 DEF Listened
  <2>4. TurnRecorded(turn', rows, told, turns)
    BY <2>1 DEF TurnRecorded
  <2>5. QED
    BY <1>1, <1>8, <2>1, <2>2, <2>3, <2>4, ChattingIs DEF Chatting
<1>12. CASE ids # none
  <2> DEFINE e == Answering(content, ids)
             held == Append(turn.messages, e)
  <2>1. e \in ChatMessage
    BY <1>5, MessageTypes
  <2>2. turn.messages \in Seq(ChatMessage)
    BY <1>2 DEF TurnKind
  <2>3. held \in Seq(ChatMessage)
    BY <2>1, <2>2
  <2>4. turn' = [[turn EXCEPT !.content = content] EXCEPT !.pc = "tools", !.left = ids, !.messages = held]
    <3>1. [turn EXCEPT !.content = content].messages = turn.messages
      BY <1>2 DEF TurnKind
    <3>2. QED
      BY <1>10, <1>12, <3>1
  <2> HIDE DEF e, held
  <2>5. /\ turn' \in TurnKind /\ turn'.pc = "tools" /\ turn'.left = ids /\ turn'.content = content
        /\ turn'.error = turn.error /\ turn'.messages = held
    BY <1>2, <1>5, <1>6, <2>3, <2>4 DEF TurnKind, Label
  <2>6. n \in Nat /\ LoadedIn(turn', rows) = n
    <3>1. LoadedIn(turn', rows) = n
      BY <1>2, <2>5 DEF LoadedIn, n
    <3>2. rows \in Seq(Row) /\ rows # <<>>
      BY <1>1, <1>2, <1>4 DEF Chatting, Whole
    <3>3. n \in Nat
      BY <1>2, <3>2, ChatBounds DEF LoadedIn, n
    <3>4. QED
      BY <3>1, <3>3
  <2>7. Starts(held, rows, n)
    <3>1. Starts(turn.messages, rows, n)
      BY <1>4 DEF Whole, n
    <3>2. QED
      BY <2>1, <2>2, <2>6, <3>1, StartsStays DEF held
  <2>8. AllInPlace(held \o Results(ids), n)
    <3>1. AllInPlace(turn.messages \o Results(none), n)
      BY <1>3, <1>4 DEF Whole, n
    <3>2. turn.messages \o Results(none) = turn.messages
      BY <2>2, NothingDue DEF none
    <3>3. AllInPlace(turn.messages, n)
      BY <3>1, <3>2
    <3>4. ids # <<>>
      BY <1>12 DEF none
    <3>5. AllInPlace(Append(turn.messages, Answering(content, ids)) \o Results(ids), n)
      BY <1>5, <2>2, <2>6, <3>3, <3>4, HeardInPlace
    <3>6. QED
      BY <3>5 DEF held, e
  <2>9. Whole(turn', rows)
    <3>1. rows # <<>> /\ rows[Len(rows)].message = Said("user")
      BY <1>2, <1>4 DEF Whole
    <3>2. QED
      BY <2>5, <2>6, <2>7, <2>8, <3>1 DEF Whole
  <2>10. Listened(turn', stream, told, turns)
    <3>1. turn'.left # <<>>
      BY <1>12, <2>5 DEF none
    <3>2. QED
      BY <1>3, <1>7, <2>5, <3>1 DEF Listened
  <2>11. TurnRecorded(turn', rows, told, turns)
    BY <2>5 DEF TurnRecorded
  <2>12. QED
    BY <1>1, <1>8, <2>5, <2>9, <2>10, <2>11, ChattingIs DEF Chatting
<1>13. QED
  BY <1>11, <1>12

LEMMA ToolKeeps == ASSUME ChatIInv, Tool PROVE ChatIInv'
<1> DEFINE n == LoadedIn(turn, rows)
           e == ResultOf(Head(turn.left))
           held == Append(turn.messages, e)
<1>1. Chatting(provider, stream, rows, turn, turns, mishaps, told)
  BY ChattingIs
<1>2. turn \in TurnKind /\ turn.pc = "tools"
  BY <1>1 DEF Tool, Chatting
<1>3. turns > 0 /\ turn.left # <<>> /\ (~turn.error /\ ~told.cut => turn.content = TextOf(told.answer))
  BY <1>1, <1>2 DEF Chatting, Listened
<1>4. Whole(turn, rows)
  BY <1>1, <1>2 DEF Chatting, Busy
<1>5. turn.left \in Seq(CallId) /\ turn.messages \in Seq(ChatMessage) /\ turn.calls \in Seq(CallId)
      /\ turn.iteration \in 0..MaxToolIterations - 1
  BY <1>2 DEF TurnKind
<1>6. Head(turn.left) \in CallId /\ Tail(turn.left) \in Seq(CallId) /\ (Tail(turn.left) # <<>> <=> Len(turn.left) > 1)
  <2> DEFINE left == turn.left
             tail == Tail(left)
  <2>1. left \in Seq(CallId) /\ left # <<>>
    BY <1>3, <1>5
  <2> HIDE DEF left
  <2>2. Head(left) \in CallId /\ tail \in Seq(CallId) /\ Len(tail) = Len(left) - 1 /\ Len(left) \in Nat
    BY <2>1
  <2> HIDE DEF tail
  <2>3. tail # <<>> <=> Len(tail) # 0
    BY <2>2
  <2>4. tail # <<>> <=> Len(left) > 1
    <3>1. Len(left) # 0
      BY <2>1
    <3>2. QED
      BY <2>2, <2>3, <3>1
  <2>5. QED
    BY <2>2, <2>4 DEF tail, left
<1>7. e \in ChatMessage
  BY <1>6, MessageTypes
<1>8. held \in Seq(ChatMessage) /\ Append(turn.calls, Head(turn.left)) \in Seq(CallId)
  BY <1>5, <1>6, <1>7
<1>9. NextIteration \in 0..MaxToolIterations - 1
  BY <1>5, ChatBounds DEF NextIteration, NextPc
<1>10. NextPc \in {"tools", "model", "persist"} /\ (NextPc = "tools" <=> Len(turn.left) > 1)
  BY DEF NextPc
<1>11. turn' = [turn EXCEPT !.pc = NextPc, !.iteration = NextIteration, !.left = Tail(turn.left),
                            !.calls = Append(turn.calls, Head(turn.left)), !.messages = held]
  BY <1>2 DEF Tool, TurnKind
<1> HIDE DEF e, held
<1>12. /\ turn' \in TurnKind /\ turn'.pc = NextPc /\ turn'.left = Tail(turn.left) /\ turn'.content = turn.content
       /\ turn'.error = turn.error /\ turn'.messages = held
  <2>1. NextPc \in Label
    BY <1>10 DEF Label
  <2>2. QED
    BY <1>2, <1>6, <1>8, <1>9, <1>11, <2>1 DEF TurnKind
<1>13. rows' = rows /\ stream' = stream /\ provider' = provider /\ turns' = turns /\ mishaps' = mishaps /\ told' = told
  BY DEF Tool
<1>14. rows # <<>> /\ rows[Len(rows)].message = Said("user")
  BY <1>2, <1>4 DEF Whole
<1>15. n \in Nat /\ LoadedIn(turn', rows) = n
  <2>1. LoadedIn(turn', rows) = n
    BY <1>2, <1>10, <1>12 DEF LoadedIn
  <2>2. rows \in Seq(Row)
    BY <1>1 DEF Chatting
  <2>3. n \in Nat
    BY <1>2, <1>14, <2>2, ChatBounds DEF LoadedIn
  <2>4. QED
    BY <2>1, <2>3
<1> HIDE DEF n
<1>16. Starts(held, rows, n)
  <2>1. Starts(turn.messages, rows, n)
    BY <1>4 DEF Whole, n
  <2>2. QED
    BY <1>5, <1>7, <1>15, <2>1, StartsStays DEF held
<1>17. AllInPlace(held \o Results(Tail(turn.left)), n)
  <2>1. Append(turn.messages, ResultOf(Head(turn.left))) \o Results(Tail(turn.left)) = turn.messages \o Results(turn.left)
    BY <1>3, <1>5, ToolDue
  <2>2. AllInPlace(turn.messages \o Results(turn.left), n)
    BY <1>4 DEF Whole, n
  <2>3. held \o Results(Tail(turn.left)) = turn.messages \o Results(turn.left)
    BY <2>1 DEF held, e
  <2>4. QED
    BY <2>2, <2>3
<1>18. Whole(turn', rows)
  BY <1>10, <1>12, <1>14, <1>15, <1>16, <1>17 DEF Whole
<1>19. Listened(turn', stream, told, turns)
  BY <1>3, <1>6, <1>10, <1>12 DEF Listened
<1>20. TurnRecorded(turn', rows, told, turns)
  BY <1>10, <1>12 DEF TurnRecorded
<1>21. QED
  BY <1>1, <1>12, <1>13, <1>18, <1>19, <1>20, ChattingIs DEF Chatting

LEMMA PersistKeeps == ASSUME ChatIInv, Persist PROVE ChatIInv'
<1> DEFINE e == Answering(turn.content, turn.calls)
<1>1. Chatting(provider, stream, rows, turn, turns, mishaps, told)
  BY ChattingIs
<1>2. turn \in TurnKind /\ turn.pc = "persist" /\ rows \in Seq(Row) /\ Turnlike(rows)
  BY <1>1 DEF Persist, Chatting
<1>3. turns > 0 /\ (~turn.error /\ ~told.cut => turn.content = TextOf(told.answer))
  BY <1>1, <1>2 DEF Chatting, Listened
<1>4. turn.calls \in Seq(CallId) /\ turn.content \in Seq(Fragment) /\ turn.error \in BOOLEAN
  BY <1>2 DEF TurnKind
<1>5. e \in ChatMessage /\ e.of = <<>> /\ e.role = "assistant"
  BY <1>4, MessageTypes DEF Answering
<1>6. rows' = Append(rows, [message |-> e, content |-> turn.content])
  BY DEF Persist, Keep
<1> HIDE DEF e
<1>7. rows' \in Seq(Row) /\ Turnlike(rows') /\ Last(rows') = [message |-> e, content |-> turn.content]
  BY <1>2, <1>4, <1>5, <1>6, RowsGrow
<1>8. turn' \in TurnKind /\ turn'.pc = "idle" /\ turn'.left = <<>> /\ turn'.error = turn.error
  BY <1>4, IdleIs DEF Persist
<1>9. stream' = stream /\ provider' = provider /\ turns' = turns /\ mishaps' = mishaps /\ told' = told
  BY DEF Persist
<1>10. turn'.pc \notin Busy
  BY <1>8 DEF Busy
<1>11. Listened(turn', stream, told, turns)
  BY <1>8 DEF Listened
<1>12. TurnRecorded(turn', rows', told, turns)
  BY <1>3, <1>5, <1>7, <1>8 DEF TurnRecorded
<1>13. QED
  BY <1>1, <1>7, <1>8, <1>9, <1>10, <1>11, <1>12, ChattingIs DEF Chatting

LEMMA DieKeeps == ASSUME ChatIInv, Die PROVE ChatIInv'
<1>1. Chatting(provider, stream, rows, turn, turns, mishaps, told)
  BY ChattingIs
<1>2. turn' \in TurnKind /\ turn'.pc = "idle" /\ turn'.left = <<>> /\ turn'.error
  BY IdleIs DEF Die
<1>3. Typed(provider, stream') /\ Fits(provider, stream')
  <2>1. provider \in Provider
    BY <1>1 DEF Chatting, Typed
  <2>2. QED
    BY <2>1, NoStreamFits DEF Die
<1>4. provider' = provider /\ rows' = rows /\ turns' = turns /\ told' = told /\ mishaps' \in 0..MaxMishaps
  BY <1>1, ChatBounds DEF Die, Chatting
<1>5. turn'.pc \notin Busy
  BY <1>2 DEF Busy
<1>6. Listened(turn', stream', told, turns) /\ TurnRecorded(turn', rows, told, turns)
  BY <1>2 DEF Listened, TurnRecorded
<1>7. QED
  BY <1>1, <1>2, <1>3, <1>4, <1>5, <1>6, ChattingIs DEF Chatting

LEMMA ChatStutters == ASSUME ChatIInv, UNCHANGED chatVars PROVE ChatIInv'
<1>1. Chatting(provider, stream, rows, turn, turns, mishaps, told)
  BY ChattingIs
<1>2. QED
  BY <1>1, ChattingIs DEF chatVars

(* The invariant that the properties of a conversation rest on: the stream *)
(* is at a known place of the answer, and every message of a turn is where *)
(* the provider wants it (AgentRuntimeService.run).                        *)
THEOREM ChatInductive == ChatSpec => []ChatIInv
<1>1. ChatInit => ChatIInv
  BY ChatBegins
<1>2. ChatIInv /\ [ChatNext]_chatVars => ChatIInv'
  <2> SUFFICES ASSUME ChatIInv, [ChatNext]_chatVars PROVE ChatIInv'
    OBVIOUS
  <2>1. ASSUME NEW saved \in BOOLEAN, Begin(saved) PROVE ChatIInv'
    BY <2>1, BeginKeeps
  <2>2. CASE LoadHistory
    BY <2>2, LoadKeeps
  <2>3. CASE SaveMessage
    BY <2>3, SaveKeeps
  <2>4. CASE Refused \/ StreamFailed
    BY <2>4, ErrorKeeps
  <2>5. CASE Asked
    BY <2>5, AskedKeeps
  <2>6. CASE Streaming
    BY <2>6, StreamingKeeps
  <2>7. CASE Heard
    BY <2>7, HeardKeeps
  <2>8. CASE Tool
    BY <2>8, ToolKeeps
  <2>9. CASE Persist
    BY <2>9, PersistKeeps
  <2>10. CASE Die
    BY <2>10, DieKeeps
  <2>11. CASE UNCHANGED chatVars
    BY <2>11, ChatStutters
  <2>12. QED
    BY <2>1, <2>2, <2>3, <2>4, <2>5, <2>6, <2>7, <2>8, <2>9, <2>10, <2>11 DEF ChatNext
<1>3. QED
  BY <1>1, <1>2, PTL DEF ChatSpec

(* Every turn that met no error has a row with the last answer of the      *)
(* model, whole, unless an error event cut it short (ll. 267-284 of run).  *)
THEOREM AnswersAreKept == ChatSpec => []ChatInv
<1>1. ChatIInv => ChatInv
  BY DEF ChatIInv, ChatInv
<1>2. QED
  BY <1>1, ChatInductive, PTL

(* However a provider cuts up its stream, and a network the reads, what    *)
(* chatStream hands on adds up to what it returns, and that is what chat   *)
(* would have returned of the same answer.                                 *)
THEOREM StreamsAgree == ChatSpec => []StreamAgrees
<1>1. ChatIInv => StreamAgrees
  BY DEF ChatIInv, StreamIInv
<1>2. QED
  BY <1>1, ChatInductive, PTL

-----------------------------------------------------------------------------
(* What a provider is sent, and when it refuses it.                        *)

Kept(m) == [i \in DOMAIN m |-> IF m[i].role = "system" THEN <<>> ELSE <<m[i]>>]

Behind(m, k) == [i \in 1..k |-> m[i + 1]]

Prompted(m) == Len(m) > 0 /\ m[1] = Said("system") /\ \A i \in 2..Len(m) : m[i].role # "system"

(* Without the prompt the messages are the same, one place earlier.        *)
LEMMA ApartIs ==
  ASSUME NEW m \in Seq(ChatMessage), Prompted(m)
  PROVE  FlattenSeq(Kept(m)) = Behind(m, Len(m) - 1)
<1> DEFINE c == Len(m)
           ss == Kept(m)
           T == {k \in Nat : k + 1 <= c => FirstOf(ss, k + 1) = Behind(m, k)}
           none == <<>>
<1>1. c \in Nat /\ c > 0 /\ DOMAIN m = 1..c /\ \A i \in 1..c : m[i] \in ChatMessage
  BY DEF Prompted
<1>2. ss = [i \in 1..c |-> IF m[i].role = "system" THEN none ELSE <<m[i]>>]
  BY <1>1 DEF Kept
<1>3. ss \in [1..c -> Seq(ChatMessage)]
  <2>1. none \in Seq(ChatMessage) /\ \A i \in 1..c : <<m[i]>> \in Seq(ChatMessage)
    BY <1>1
  <2> HIDE DEF ss, none, c
  <2>2. QED
    BY <1>2, <2>1
<1>4. ss[1] = none /\ \A i \in 2..c : ss[i] = <<m[i]>>
  <2>1. m[1].role = "system" /\ \A i \in 2..c : m[i].role # "system"
    BY DEF Prompted, Said
  <2> HIDE DEF ss, none, c
  <2>2. 1 \in 1..c /\ \A i \in 2..c : i \in 1..c
    BY <1>1
  <2>3. QED
    BY <1>2, <2>1, <2>2
<1> HIDE DEF ss, c
<1>5. 0 \in T
  <2>1. FirstOf(ss, 0 + 1) = FirstOf(ss, 0) \o ss[0 + 1]
    BY <1>1, <1>3, FirstNext
  <2>2. FirstOf(ss, 0) = none
    BY <1>1, <1>3, FirstEnds
  <2>3. none \o none = none /\ Behind(m, 0) = none
    BY DEF Behind
  <2>4. 0 + 1 = 1
    OBVIOUS
  <2>5. QED
    BY <1>4, <2>1, <2>2, <2>3, <2>4
<1>6. ASSUME NEW k \in Nat, k \in T PROVE k + 1 \in T
  <2> SUFFICES ASSUME k + 2 <= c PROVE FirstOf(ss, k + 2) = Behind(m, k + 1)
    OBVIOUS
  <2>1. k + 1 \in Nat /\ k + 1 < c /\ (k + 1) + 1 = k + 2 /\ k + 2 \in 2..c /\ k + 2 \in 1..c
    BY <1>1
  <2>2. FirstOf(ss, (k + 1) + 1) = FirstOf(ss, k + 1) \o ss[(k + 1) + 1]
    BY <1>1, <1>3, <2>1, FirstNext
  <2>3. FirstOf(ss, k + 1) = Behind(m, k)
    <3>1. k + 1 <= c
      BY <1>1, <2>1
    <3>2. QED
      BY <1>6, <3>1
  <2>4. Behind(m, k) \o <<m[k + 2]>> = Behind(m, k + 1)
    <3> DEFINE f == Behind(m, k)
               e == m[k + 2]
    <3>1. \A i \in 1..k : i + 1 \in 1..c
      BY <1>1, <2>1
    <3>2. f \in Seq(ChatMessage) /\ Len(f) = k /\ (\A i \in 1..k : f[i] = m[i + 1]) /\ e \in ChatMessage
      BY <1>1, <2>1, <3>1 DEF Behind
    <3> HIDE DEF f, e
    <3>3. f \o <<e>> = [i \in 1..(k + 1) |-> IF i <= k THEN f[i] ELSE e]
      <4> DEFINE g == f \o <<e>>
      <4>1. g \in Seq(ChatMessage) /\ Len(g) = k + 1 /\ (\A i \in 1..k : g[i] = f[i]) /\ g[k + 1] = e
        BY <3>2
      <4> HIDE DEF g
      <4>2. g = [i \in 1..(k + 1) |-> g[i]]
        BY <4>1
      <4>3. \A i \in 1..(k + 1) : g[i] = IF i <= k THEN f[i] ELSE e
        BY <4>1
      <4>4. g = [i \in 1..(k + 1) |-> IF i <= k THEN f[i] ELSE e]
        BY <4>2, <4>3
      <4>5. QED
        BY <4>4 DEF g
    <3>4. \A i \in 1..(k + 1) : (IF i <= k THEN f[i] ELSE e) = m[i + 1]
      <4> SUFFICES ASSUME NEW i \in 1..(k + 1) PROVE (IF i <= k THEN f[i] ELSE e) = m[i + 1]
        OBVIOUS
      <4>1. CASE i <= k
        BY <3>2, <4>1
      <4>2. CASE ~(i <= k)
        <5>1. i = k + 1 /\ i + 1 = k + 2
          BY <4>2
        <5>2. QED
          BY <4>2, <5>1 DEF e
      <4>3. QED
        BY <4>1, <4>2
    <3>5. f \o <<e>> = [i \in 1..(k + 1) |-> m[i + 1]]
      BY <3>3, <3>4
    <3>6. QED
      BY <3>5 DEF Behind, f, e
  <2>5. QED
    BY <1>4, <2>1, <2>2, <2>3, <2>4
<1> HIDE DEF T
<1>7. c - 1 \in T
  <2>1. Nat \subseteq T
    BY <1>5, <1>6, Induct
  <2>2. QED
    BY <1>1, <2>1
<1>8. FirstOf(ss, (c - 1) + 1) = Behind(m, c - 1)
  BY <1>1, <1>7 DEF T
<1>9. FirstOf(ss, c) = FlattenSeq(ss)
  BY <1>1, <1>3, FirstEnds
<1>10. (c - 1) + 1 = c
  BY <1>1
<1>11. QED
  BY <1>8, <1>9, <1>10 DEF ss, c

(* q says what m does after its first d messages.                          *)
Mirrors(q, m, d) ==
  /\ DOMAIN q = 1..(Len(m) - d)
  /\ \A i \in 1..(Len(m) - d) : q[i].said = m[i + d].said /\ q[i].calls = m[i + d].calls /\ q[i].of = m[i + d].of

LEMMA RequestMirrors ==
  ASSUME provider \in AnyProvider, NEW m \in Seq(ChatMessage), Prompted(m)
  PROVE  Mirrors(Request(m), m, IF provider = "openai" THEN 0 ELSE 1)
<1> DEFINE c == Len(m)
           apart == FlattenSeq(Kept(m))
<1>1. c \in Nat /\ c > 0 /\ DOMAIN m = 1..c /\ \A i \in 1..c : m[i] \in ChatMessage
  BY DEF Prompted
<1>2. apart = Behind(m, c - 1)
  BY ApartIs
<1>3. /\ provider = "openai" => Request(m) = [i \in DOMAIN m |-> formatMessages(m[i])]
      /\ provider = "anthropic" => Request(m) = [i \in DOMAIN apart |-> toAnthropicMessages(apart[i])]
      /\ provider = "gemini" => Request(m) = [i \in DOMAIN apart |-> toGeminiContents(apart[i])]
  BY DEF Request, Kept
<1> HIDE DEF apart
<1>4. DOMAIN apart = 1..(c - 1) /\ \A i \in 1..(c - 1) : apart[i] = m[i + 1] /\ apart[i] \in ChatMessage
  <2>1. \A i \in 1..(c - 1) : i + 1 \in 1..c
    BY <1>1
  <2>2. DOMAIN apart = 1..(c - 1) /\ \A i \in 1..(c - 1) : apart[i] = m[i + 1]
    BY <1>2 DEF Behind
  <2>3. QED
    BY <1>1, <2>1, <2>2
<1>5. \A x \in ChatMessage :
        /\ toAnthropicMessages(x).said = x.said /\ toAnthropicMessages(x).calls = x.calls
        /\ toAnthropicMessages(x).of = x.of
  BY DEF toAnthropicMessages, ChatMessage
<1>6. \A x \in ChatMessage :
        toGeminiContents(x).said = x.said /\ toGeminiContents(x).calls = x.calls /\ toGeminiContents(x).of = x.of
  BY DEF toGeminiContents, ChatMessage
<1> HIDE DEF c
<1>7. CASE provider = "openai"
  <2>1. DOMAIN Request(m) = 1..c /\ \A i \in 1..c : Request(m)[i] = m[i]
    BY <1>1, <1>3, <1>7 DEF formatMessages
  <2>2. c - 0 = c /\ \A i \in 1..c : i + 0 = i
    BY <1>1
  <2>3. Mirrors(Request(m), m, 0)
    BY <2>1, <2>2 DEF Mirrors, c
  <2>4. QED
    BY <1>7, <2>3
<1>8. CASE provider = "anthropic"
  <2>1. DOMAIN Request(m) = 1..(c - 1) /\ \A i \in 1..(c - 1) : Request(m)[i] = toAnthropicMessages(m[i + 1])
    BY <1>3, <1>4, <1>8
  <2>2. Mirrors(Request(m), m, 1)
    BY <1>4, <1>5, <2>1 DEF Mirrors, c
  <2>3. QED
    BY <1>8, <2>2
<1>9. CASE provider = "gemini"
  <2>1. DOMAIN Request(m) = 1..(c - 1) /\ \A i \in 1..(c - 1) : Request(m)[i] = toGeminiContents(m[i + 1])
    BY <1>3, <1>4, <1>9
  <2>2. Mirrors(Request(m), m, 1)
    BY <1>4, <1>6, <2>1 DEF Mirrors, c
  <2>3. QED
    BY <1>9, <2>2
<1>10. QED
  BY <1>7, <1>8, <1>9 DEF AnyProvider

(* What a provider asks of the messages behind the prompt.                 *)
Takes(m) ==
  /\ \A i \in 2..Len(m) : \A k \in DOMAIN m[i].calls : i + k \in 1..Len(m) /\ m[i + k].of = m[i].calls[k]
  /\ \A i \in 2..Len(m) : m[i].of # <<>> => \E h \in 2..(i - 1) : m[i].of \in ToSet(m[h].calls)
  /\ provider = "anthropic" => \A i \in 2..Len(m) : m[i].said \/ m[i].calls # <<>>

LEMMA AcceptsIs ==
  ASSUME NEW m \in Seq(ChatMessage), Prompted(m), NEW d \in {0, 1}, NEW q, Mirrors(q, m, d)
  PROVE  Accepts(q) <=> Takes(m)
<1> DEFINE c == Len(m)
<1>1. c \in Nat /\ c > 0
  BY DEF Prompted
<1>2. /\ DOMAIN q = 1..(c - d)
      /\ \A i \in 1..(c - d) : q[i].said = m[i + d].said /\ q[i].calls = m[i + d].calls /\ q[i].of = m[i + d].of
  BY DEF Mirrors
<1>3. m[1].said /\ m[1].of = <<>> /\ m[1].calls = <<>> /\ DOMAIN m[1].calls = {}
  BY DEF Prompted, Said
<1>4. \A i \in 1..c : m[i].calls \in Seq(CallId) /\ DOMAIN m[i].calls \subseteq Nat \ {0}
  <2>1. \A i \in 1..c : m[i] \in ChatMessage
    OBVIOUS
  <2>2. \A i \in 1..c : m[i].calls \in Seq(CallId)
    BY <2>1 DEF ChatMessage
  <2>3. QED
    BY <2>2
<1> HIDE DEF c
<1>5. ASSUME Accepts(q) PROVE Takes(m)
  <2>1. ASSUME NEW i \in 2..c PROVE i - d \in 1..(c - d) /\ (i - d) + d = i /\ i \in 1..c
    BY <1>1
  <2>2. ASSUME NEW i \in 2..c, NEW k \in DOMAIN m[i].calls
        PROVE  i + k \in 1..c /\ m[i + k].of = m[i].calls[k]
    <3>1. i - d \in 1..(c - d) /\ q[i - d].calls = m[i].calls /\ k \in Nat
      BY <1>2, <1>4, <2>1
    <3>2. (i - d) + k \in DOMAIN q /\ q[(i - d) + k].of = m[i].calls[k]
      BY <1>2, <1>5, <3>1 DEF Accepts
    <3>3. ((i - d) + k) + d = i + k /\ i + k \in 1..c
      BY <1>1, <1>2, <3>1, <3>2
    <3>4. QED
      BY <1>2, <3>2, <3>3
  <2>3. ASSUME NEW i \in 2..c, m[i].of # <<>> PROVE \E h \in 2..(i - 1) : m[i].of \in ToSet(m[h].calls)
    <3>1. i - d \in 1..(c - d) /\ q[i - d].of = m[i].of
      BY <1>2, <2>1
    <3>2. PICK g \in 1..((i - d) - 1) : q[i - d].of \in ToSet(q[g].calls)
      <4> DEFINE j == i - d
      <4>1. j \in DOMAIN q /\ q[j].of # <<>>
        BY <1>2, <2>3, <3>1
      <4> HIDE DEF j
      <4>2. \E g \in 1..(j - 1) : q[j].of \in ToSet(q[g].calls)
        BY <1>5, <4>1 DEF Accepts
      <4>3. QED
        BY <4>2 DEF j
    <3> DEFINE h == g + d
    <3>3. g \in 1..(c - d) /\ h \in 1..(i - 1) /\ h \in 1..c
      BY <1>1
    <3>4. q[g].calls = m[h].calls
      BY <1>2, <3>3
    <3> HIDE DEF h
    <3>5. m[i].of \in ToSet(m[h].calls)
      BY <3>1, <3>2, <3>4
    <3>6. h # 1
      <4> SUFFICES ASSUME h = 1 PROVE FALSE
        OBVIOUS
      <4>1. m[i].of \in ToSet(m[1].calls)
        BY <3>5
      <4>2. QED
        BY <1>3, <4>1 DEF ToSet
    <3>7. h \in 2..(i - 1)
      BY <3>3, <3>6
    <3>8. QED
      BY <3>5, <3>7
  <2>4. ASSUME NEW i \in 2..c, provider = "anthropic" PROVE m[i].said \/ m[i].calls # <<>>
    <3>1. i - d \in 1..(c - d) /\ q[i - d].said = m[i].said /\ q[i - d].calls = m[i].calls
      BY <1>2, <2>1
    <3>2. q[i - d].said \/ q[i - d].calls # <<>>
      BY <1>2, <1>5, <2>4, <3>1 DEF Accepts
    <3>3. QED
      BY <3>1, <3>2
  <2>5. QED
    BY <2>2, <2>3, <2>4 DEF Takes, c
<1>6. ASSUME Takes(m) PROVE Accepts(q)
  <2>1. ASSUME NEW i \in 1..(c - d) PROVE i + d \in 1..c /\ (i + d = 1 \/ i + d \in 2..c)
    BY <1>1
  <2>2. ASSUME NEW i \in DOMAIN q, NEW k \in DOMAIN q[i].calls
        PROVE  i + k \in DOMAIN q /\ q[i + k].of = q[i].calls[k]
    <3>1. i \in 1..(c - d) /\ q[i].calls = m[i + d].calls
      BY <1>2
    <3>2. i + d \in 2..c
      BY <1>3, <2>1, <3>1
    <3>3. (i + d) + k \in 1..c /\ m[(i + d) + k].of = m[i + d].calls[k]
      BY <1>6, <3>1, <3>2 DEF Takes, c
    <3>4. k \in Nat \ {0}
      BY <1>4, <2>1, <3>1
    <3>5. (i + k) + d = (i + d) + k /\ i + k \in 1..(c - d)
      BY <1>1, <3>1, <3>3, <3>4
    <3>6. QED
      BY <1>2, <3>1, <3>3, <3>5
  <2>3. ASSUME NEW i \in DOMAIN q, q[i].of # <<>> PROVE \E h \in 1..(i - 1) : q[i].of \in ToSet(q[h].calls)
    <3>1. i \in 1..(c - d) /\ q[i].of = m[i + d].of
      BY <1>2
    <3>2. i + d \in 2..c
      BY <1>3, <2>1, <2>3, <3>1
    <3>3. PICK h \in 2..((i + d) - 1) : m[i + d].of \in ToSet(m[h].calls)
      BY <1>6, <2>3, <3>1, <3>2 DEF Takes, c
    <3> DEFINE g == h - d
    <3>4. g \in 1..(i - 1) /\ g \in 1..(c - d) /\ g + d = h
      BY <1>1, <3>1
    <3> HIDE DEF g
    <3>5. q[g].calls = m[h].calls
      BY <1>2, <3>4
    <3>6. QED
      BY <3>1, <3>3, <3>4, <3>5
  <2>4. ASSUME NEW i \in DOMAIN q, provider = "anthropic" PROVE q[i].said \/ q[i].calls # <<>>
    <3>1. i \in 1..(c - d) /\ q[i].said = m[i + d].said /\ q[i].calls = m[i + d].calls
      BY <1>2
    <3>2. CASE i + d = 1
      BY <1>3, <3>1, <3>2
    <3>3. CASE i + d \in 2..c
      BY <1>6, <2>4, <3>1, <3>3 DEF Takes, c
    <3>4. QED
      BY <2>1, <3>1, <3>2, <3>3
  <2>5. QED
    BY <2>2, <2>3, <2>4 DEF Accepts
<1>7. QED
  BY <1>5, <1>6

(* The rows that were loaded decide: what follows them is in place.        *)
LEMMA TakesIs ==
  ASSUME NEW m \in Seq(ChatMessage), NEW r \in Seq(Row), NEW n \in Nat, n <= Len(r), Turnlike(r),
         Starts(m, r, n), AllInPlace(m, n)
  PROVE  Takes(m) <=> \A i \in 1..n : ~Spoils(r[i].message)
<1> DEFINE c == Len(m)
<1>1. /\ c \in Nat /\ n + 2 <= c /\ m[1] = Said("system") /\ m[n + 2] = Said("user")
      /\ \A i \in 1..n : m[i + 1] = r[i].message
  BY DEF Starts
<1>2. \A i \in (n + 3)..c : InPlace(m, i)
  BY DEF AllInPlace
<1>3. \A i \in 1..n :
        /\ r[i].message.role \in {"user", "assistant"} /\ r[i].message.of = <<>>
        /\ r[i].message.role = "user" => r[i].message = Said("user")
  BY DEF Turnlike
<1>4. \A i \in 1..c : m[i].calls \in Seq(CallId)
  <2>1. \A i \in 1..c : m[i] \in ChatMessage
    OBVIOUS
  <2>2. QED
    BY <2>1 DEF ChatMessage
<1>5. \A i \in 2..(n + 2) : m[i].of = <<>>
  <2> SUFFICES ASSUME NEW i \in 2..(n + 2) PROVE m[i].of = <<>>
    OBVIOUS
  <2>1. CASE i = n + 2
    BY <1>1, <2>1 DEF Said
  <2>2. CASE i # n + 2
    <3> DEFINE j == i - 1
    <3>1. j \in 1..n /\ j + 1 = i
      BY <2>2
    <3> HIDE DEF j
    <3>2. m[i] = r[j].message
      BY <1>1, <3>1
    <3>3. QED
      BY <1>3, <3>1, <3>2
  <2>3. QED
    BY <2>1, <2>2
<1> HIDE DEF c
<1>6. ASSUME Takes(m), NEW i \in 1..n PROVE ~Spoils(r[i].message)
  <2>1. m[i + 1] = r[i].message /\ i + 1 \in 2..c /\ i + 1 \in 1..c /\ i + 2 \in 2..(n + 2)
    BY <1>1
  <2>2. m[i + 1].calls = <<>>
    <3> SUFFICES ASSUME m[i + 1].calls # <<>> PROVE FALSE
      OBVIOUS
    <3>1. m[i + 1].calls \in Seq(CallId)
      BY <1>4, <2>1
    <3>2. 1 \in DOMAIN m[i + 1].calls /\ m[i + 1].calls[1] \in CallId
      BY <3>1
    <3>3. m[(i + 1) + 1].of = m[i + 1].calls[1]
      BY <1>6, <2>1, <3>2 DEF Takes, c
    <3>4. (i + 1) + 1 = i + 2
      OBVIOUS
    <3>5. m[i + 2].of = <<>>
      BY <1>5, <2>1
    <3>6. <<>> \notin CallId
      BY DEF CallId
    <3>7. QED
      BY <3>2, <3>3, <3>4, <3>5, <3>6
  <2>3. provider = "anthropic" => m[i + 1].said
    BY <1>6, <2>1, <2>2 DEF Takes, c
  <2>4. QED
    BY <2>1, <2>2, <2>3 DEF Spoils
<1>7. ASSUME \A i \in 1..n : ~Spoils(r[i].message) PROVE Takes(m)
  <2>1. ASSUME NEW i \in 2..(n + 2)
        PROVE  m[i].calls = <<>> /\ (provider = "anthropic" => m[i].said)
    <3>1. CASE i = n + 2
      BY <1>1, <3>1 DEF Said
    <3>2. CASE i # n + 2
      <4> DEFINE j == i - 1
      <4>1. j \in 1..n /\ j + 1 = i
        BY <3>2
      <4> HIDE DEF j
      <4>2. m[i] = r[j].message /\ ~Spoils(m[i]) /\ m[i].role \in {"user", "assistant"}
            /\ (m[i].role = "user" => m[i] = Said("user"))
        BY <1>1, <1>3, <1>7, <4>1
      <4>3. CASE m[i].role = "user"
        BY <4>2, <4>3 DEF Said
      <4>4. CASE m[i].role = "assistant"
        BY <4>2, <4>4 DEF Spoils
      <4>5. QED
        BY <4>2, <4>3, <4>4
    <3>3. QED
      BY <3>1, <3>2
  <2>2. \A i \in 2..c : i \in 2..(n + 2) \/ i \in (n + 3)..c
    BY <1>1
  <2>3. ASSUME NEW i \in 2..c, NEW k \in DOMAIN m[i].calls PROVE i + k \in 1..c /\ m[i + k].of = m[i].calls[k]
    <3>1. i \in (n + 3)..c
      <4>1. i \notin 2..(n + 2)
        <5> SUFFICES ASSUME i \in 2..(n + 2) PROVE FALSE
          OBVIOUS
        <5>1. m[i].calls = <<>>
          BY <2>1
        <5>2. DOMAIN m[i].calls = {}
          BY <5>1
        <5>3. QED
          BY <5>2
      <4>2. QED
        BY <2>2, <4>1
    <3>2. i + k \in DOMAIN m /\ m[i + k].of = m[i].calls[k]
      BY <1>2, <3>1 DEF InPlace
    <3>3. QED
      BY <3>2 DEF c
  <2>4. ASSUME NEW i \in 2..c, m[i].of # <<>> PROVE \E h \in 2..(i - 1) : m[i].of \in ToSet(m[h].calls)
    <3>1. i \in (n + 3)..c
      BY <1>5, <2>2, <2>4
    <3>2. PICK h \in 1..(i - 1) : m[i].of \in ToSet(m[h].calls)
      BY <1>2, <2>4, <3>1 DEF InPlace
    <3>3. h # 1
      <4> SUFFICES ASSUME h = 1 PROVE FALSE
        OBVIOUS
      <4>1. m[1].calls = <<>>
        BY <1>1 DEF Said
      <4>2. DOMAIN m[1].calls = {}
        BY <4>1
      <4>3. m[i].of \in ToSet(m[1].calls)
        BY <3>2
      <4>4. QED
        BY <4>2, <4>3 DEF ToSet
    <3>4. h \in 2..(i - 1)
      BY <3>3
    <3>5. QED
      BY <3>2, <3>4
  <2>5. ASSUME NEW i \in 2..c, provider = "anthropic" PROVE m[i].said \/ m[i].calls # <<>>
    BY <1>2, <2>1, <2>2, <2>5 DEF InPlace
  <2>6. QED
    BY <2>3, <2>4, <2>5 DEF Takes, c
<1>8. QED
  BY <1>6, <1>7

(* A request is refused only for what was loaded: an answer with calls,    *)
(* whose results are not kept, or for Anthropic an answer an error left    *)
(* empty.  Within a turn every call has its result in its place            *)
(* (ll. 212-265 of run, toAnthropicMessages, toGeminiContents).            *)
THEOREM RefusalsAreCaused == ChatSpec => []RefusalsHaveACause
<1>1. ChatIInv => RefusalsHaveACause
  <2> SUFFICES ASSUME ChatIInv, turn.pc = "model"
               PROVE  Accepts(Request(turn.messages)) <=> \A i \in DOMAIN loadHistory : ~Spoils(loadHistory[i])
    BY DEF RefusalsHaveACause
  <2> DEFINE m == turn.messages
             n == LoadedIn(turn, rows)
             c == Len(rows)
             found == IF c < HistorySize THEN c ELSE HistorySize
  <2>1. Chatting(provider, stream, rows, turn, turns, mishaps, told)
    BY ChattingIs
  <2>2. /\ m \in Seq(ChatMessage) /\ rows \in Seq(Row) /\ Turnlike(rows) /\ turn.left = <<>>
        /\ provider \in AnyProvider
    BY <2>1, StreamHas DEF Chatting, TurnKind, Listened
  <2>3. Whole(turn, rows)
    BY <2>1 DEF Chatting, Busy
  <2>4. rows # <<>> /\ rows[c].message = Said("user")
    BY <2>3 DEF Whole
  <2>5. c \in Nat \ {0} /\ n \in Nat /\ n < c /\ found \in Nat /\ (found = n \/ (found = n + 1 /\ found = c))
    <3>1. c \in Nat \ {0}
      BY <2>2, <2>4
    <3>2. QED
      BY <3>1, ChatBounds DEF LoadedIn
  <2>6. Starts(m, rows, n)
    BY <2>3 DEF Whole
  <2>7. AllInPlace(m, n)
    <3> HIDE DEF n
    <3>1. AllInPlace(m \o Results(turn.left), n)
      BY <2>3 DEF Whole, n
    <3>2. m \o Results(<<>>) = m
      BY <2>2, NothingDue
    <3>3. QED
      BY <2>2, <3>1, <3>2
  <2>8. Prompted(m)
    <3> HIDE DEF n
    <3>1. Len(m) \in Nat /\ Len(m) >= n + 2 /\ m[1] = Said("system") /\ m[n + 2] = Said("user")
          /\ \A i \in 1..n : m[i + 1] = rows[i].message
      BY <2>2, <2>6 DEF Starts
    <3>2. ASSUME NEW i \in 2..Len(m) PROVE m[i].role # "system"
      <4>1. CASE i <= n + 1
        <5> DEFINE j == i - 1
        <5>1. j \in 1..n /\ j + 1 = i /\ j \in DOMAIN rows
          BY <2>2, <2>5, <4>1
        <5> HIDE DEF j
        <5>2. m[i] = rows[j].message /\ rows[j].message.role \in {"user", "assistant"}
          BY <2>2, <3>1, <5>1 DEF Turnlike
        <5>3. QED
          BY <5>2
      <4>2. CASE i = n + 2
        BY <3>1, <4>2 DEF Said
      <4>3. CASE i > n + 2
        <5>1. i \in (n + 3)..Len(m)
          BY <2>5, <3>1, <4>3
        <5>2. QED
          BY <2>7, <5>1 DEF AllInPlace, InPlace
      <4>4. QED
        BY <2>5, <3>1, <4>1, <4>2, <4>3
    <3>3. Len(m) > 0
      BY <2>5, <3>1
    <3>4. QED
      BY <3>1, <3>2, <3>3 DEF Prompted
  <2>9. Accepts(Request(m)) <=> Takes(m)
    <3> DEFINE d == IF provider = "openai" THEN 0 ELSE 1
    <3>1. Mirrors(Request(m), m, d) /\ d \in {0, 1}
      BY <2>2, <2>8, RequestMirrors
    <3> HIDE DEF d
    <3>2. QED
      BY <2>2, <2>8, <3>1, AcceptsIs
  <2>10. Takes(m) <=> \A i \in 1..n : ~Spoils(rows[i].message)
    <3>1. n <= Len(rows)
      BY <2>5
    <3> HIDE DEF n
    <3>2. QED
      BY <2>2, <2>5, <2>6, <2>7, <3>1, TakesIs
  <2>11. DOMAIN loadHistory = 1..found /\ \A i \in 1..found : loadHistory[i] = rows[i].message
    BY DEF loadHistory
  <2> HIDE DEF n, m, found, c
  <2>12. ~Spoils(rows[c].message)
    BY <2>4 DEF Spoils, Said
  <2>13. (\A i \in 1..n : ~Spoils(rows[i].message)) <=> \A i \in 1..found : ~Spoils(rows[i].message)
    <3>1. CASE found = n
      BY <3>1
    <3>2. CASE found = n + 1 /\ found = c
      <4>1. \A i \in 1..found : i \in 1..n \/ i = c
        BY <2>5, <3>2
      <4>2. \A i \in 1..n : i \in 1..found
        BY <2>5, <3>2
      <4>3. QED
        BY <2>12, <4>1, <4>2
    <3>3. QED
      BY <2>5, <3>1, <3>2
  <2>14. QED
    BY <2>9, <2>10, <2>11, <2>13 DEF m
<1>2. QED
  BY <1>1, ChatInductive, PTL
=============================================================================
