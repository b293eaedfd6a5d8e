------------------------------- MODULE Quota -------------------------------
(***************************************************************************)
(* QuotaService and UsageService: the usage rows of one organization in    *)
(* one month, and the cached status that admits or refuses a run.  The     *)
(* caller's steps are AgentRuntime's; run r checks once and records at     *)
(* most once.                                                              *)
(***************************************************************************)
EXTENDS Naturals, FiniteSets

CONSTANTS
  Run,       \* runs of agents
  Null,      \* the limit of a plan without one
  Limit,     \* limits.monthlyTokens of the plan
  Estimate   \* the tokens a run is expected to use

ASSUME QuotaAssumption == Run # {} /\ Estimate \in Nat /\ (Limit = Null \/ Limit \in Nat)

VARIABLES
  usage,     \* usage_records: the tokens of each run that has a row
  cache,     \* the status in Redis, and who put it there
  check,     \* how far enforce and record are, for each run
  overtaken  \* history: a row was inserted between the sum and the set of these runs

quotaVars == <<usage, cache, check, overtaken>>

CheckLabel == {"none", "look", "sum", "fill", "allowed", "refused", "insert", "invalidate", "done", "notRecorded", "notInvalidated"}

QuotaTypeOK ==
  /\ usage \subseteq [by : Run, tokens : Nat \ {0}]
  /\ cache \in [set : BOOLEAN, used : Nat, by : Run]
  /\ check \in [Run -> [pc : CheckLabel, used : Nat]]
  /\ overtaken \subseteq Run

QuotaInit ==
  /\ usage = {}
  /\ cache = [set |-> FALSE, used |-> 0, by |-> CHOOSE r \in Run : TRUE]
  /\ check = [r \in Run |-> [pc |-> "none", used |-> 0]]
  /\ overtaken = {}

(* SUM(total_tokens) of the rows: every token of every row counts once.    *)
TokensOf(u) == {u} \X (1..u.tokens)
Tokens == UNION {TokensOf(u) : u \in usage}
Used == Cardinality(Tokens)

CheckAt(r, label) == check[r].pc = label
CheckGoto(r, label) == check' = [check EXCEPT ![r].pc = label]

Exceeds(used) == Limit # Null /\ used + Estimate > Limit

(* Mutant of Decide: a run that would just use the quota up is refused.    *)
DecideTooSoon(r, used) ==
  check' = [check EXCEPT ![r] = [pc |-> IF Limit # Null /\ used + Estimate >= Limit THEN "refused" ELSE "allowed",
                                 used |-> used]]

Decide(r, used) ==
  check' = [check EXCEPT ![r] = [pc |-> IF Exceeds(used) THEN "refused" ELSE "allowed", used |-> used]]

-----------------------------------------------------------------------------

enforce(r) == CheckAt(r, "none") /\ CheckGoto(r, "look") /\ UNCHANGED <<usage, cache, overtaken>>

Hit(r) == CheckAt(r, "look") /\ cache.set /\ Decide(r, cache.used) /\ UNCHANGED <<usage, cache, overtaken>>
Miss(r) == CheckAt(r, "look") /\ ~cache.set /\ CheckGoto(r, "sum") /\ UNCHANGED <<usage, cache, overtaken>>

Aggregate(r) ==
  /\ CheckAt(r, "sum")
  /\ check' = [check EXCEPT ![r] = [pc |-> "fill", used |-> Used]]
  /\ UNCHANGED <<usage, cache, overtaken>>

Fill(r) ==
  /\ CheckAt(r, "fill")
  /\ cache' = [set |-> TRUE, used |-> check[r].used, by |-> r]
  /\ Decide(r, check[r].used)
  /\ UNCHANGED <<usage, overtaken>>

(* CACHE_TTL.                                                              *)
Expire == cache.set /\ cache' = [cache EXCEPT !.set = FALSE, !.used = 0] /\ UNCHANGED <<usage, check, overtaken>>

record(r) == CheckAt(r, "allowed") /\ CheckGoto(r, "insert") /\ UNCHANGED <<usage, cache, overtaken>>

InsertUsage(r, tokens) ==
  /\ CheckAt(r, "insert")
  /\ usage' = usage \cup {[by |-> r, tokens |-> tokens]}
  /\ overtaken' = overtaken \cup {q \in Run : CheckAt(q, "fill")}
  /\ CheckGoto(r, "invalidate")
  /\ UNCHANGED cache

(* Mutant of invalidate: the cached status is left to expire.              *)
leaveCached(r) == CheckAt(r, "invalidate") /\ CheckGoto(r, "done") /\ UNCHANGED <<usage, cache, overtaken>>

invalidate(r) ==
  /\ CheckAt(r, "invalidate")
  /\ cache' = [cache EXCEPT !.set = FALSE, !.used = 0]
  /\ CheckGoto(r, "done")
  /\ UNCHANGED <<usage, overtaken>>

(* record swallows what its calls reject with.                             *)
RecordFails(r) ==
  /\ \/ CheckAt(r, "insert") /\ CheckGoto(r, "notRecorded")
     \/ CheckAt(r, "invalidate") /\ CheckGoto(r, "notInvalidated")
  /\ UNCHANGED <<usage, cache, overtaken>>

(* What enforce waits for; a rejection rejects the run.                    *)
Checking(r) == check[r].pc \in {"look", "sum", "fill"}
Recording(r) == check[r].pc \in {"insert", "invalidate"}

QuotaStep(r) == Hit(r) \/ Miss(r) \/ Aggregate(r) \/ Fill(r) \/ invalidate(r)

-----------------------------------------------------------------------------

(* The cached status is what the rows sum to, as quota.service.ts:82 has   *)
(* it, but for a row just inserted, one whose invalidation failed, and a   *)
(* sum that another run's row overtook before it was cached: that one      *)
(* survives the invalidation and stays until it expires.                   *)
CacheFollowsRows ==
  cache.set =>
    \/ cache.used = Used
    \/ cache.by \in overtaken
    \/ \E r \in Run : check[r].pc \in {"invalidate", "notInvalidated"}

(* Whatever the cache held, a refused run would have been refused by the   *)
(* rows: staleness can only admit.                                         *)
RefusalsAreRight == \A r \in Run : check[r].pc = "refused" => Exceeds(Used)

-----------------------------------------------------------------------------
(* The inductive invariant behind the two: what a run has summed and not   *)
(* yet cached is the sum of the rows, unless a row overtook it; no sum is  *)
(* ever more than the rows, which are only added to; who has a row has got *)
(* past its insert.                                                        *)

SumsFollowRows == \A r \in Run : CheckAt(r, "fill") => check[r].used = Used \/ r \in overtaken

SumsAreBehind ==
  /\ IsFiniteSet(Tokens)
  /\ cache.set => cache.used <= Used
  /\ \A r \in Run : CheckAt(r, "fill") => check[r].used <= Used

QuotaInv == CacheFollowsRows /\ SumsFollowRows /\ SumsAreBehind /\ RefusalsAreRight
=============================================================================
