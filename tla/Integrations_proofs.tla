------------------------ MODULE Integrations_proofs ------------------------
(***************************************************************************)
(* Proofs about Integrations: when a replaced secret is gone, when an      *)
(* integration keeps its secrets, and when the secrets in use are of one   *)
(* shop, for any number of connectors and overlapping requests.            *)
(***************************************************************************)
EXTENDS Integrations, TLAPS

-----------------------------------------------------------------------------
(* Providers, keys and requests.                                           *)

LEMMA ShopIsNoConnector == "ecommerce" \notin Provider /\ "ecommerce" \in All /\ Provider \subseteq All
  BY ProviderAssumption DEF All

LEMMA KeysOfProviders ==
  ASSUME NEW p \in All
  PROVE  Required(p) \subseteq KeyOf(p) /\ KeyOf(p) \subseteq AnyKey /\ KeyOf(p) # {}
<1>1. p \in {"email", "google_calendar", "crm", "ecommerce"}
  BY ProviderAssumption DEF All
<1>2. Required(p) \subseteq KeyOf(p) /\ KeyOf(p) # {}
  BY <1>1 DEF KeyOf, Required
<1>3. QED
  BY <1>2 DEF AnyKey

LEMMA KeysOfShop == KeyOf("ecommerce") = Required("ecommerce") /\ Required("ecommerce") = {"shop_domain", "access_token"}
  BY DEF KeyOf, Required

LEMMA IdleIsTyped == Idle \in RequestState /\ Idle.pc = "idle" /\ Idle.op = "none" /\ Idle.id = "none"
<1>1. "shop_domain" \in AnyKey /\ "ecommerce" \in All
  BY KeysOfProviders, KeysOfShop, ShopIsNoConnector
<1>2. Unset \in [AnyKey -> Maker] /\ "none" \in Maker
  BY DEF Unset, Maker
<1>3. QED
  BY <1>1, <1>2 DEF Idle, RequestState, Op, Label, Status

LEMMA Stepped ==
  ASSUME TypeOK, NEW r \in Request, NEW new \in RequestState, Step(r, new)
  PROVE  /\ req' \in [Request -> RequestState]
         /\ req'[r] = new
         /\ \A q \in Request \ {r} : req'[q] = req[q]
  BY DEF TypeOK, Step

Ended == [Idle EXCEPT !.pc = "over"]

LEMMA EndedIsTyped == Ended \in RequestState /\ Ended.pc = "over" /\ Ended.op = "none" /\ Ended.id = "none" /\ Ended.on = "ecommerce"
  BY IdleIsTyped DEF Ended, RequestState, Label, Idle

LEMMA EndedIsPlaced == CallsOfOps(Ended)
  BY EndedIsTyped DEF CallsOfOps

(* Operations that conflict are in progress at once only if the history    *)
(* says so.                                                                *)
LEMMA Races ==
  ASSUME IInv, NEW r \in Request, NEW q \in Request, r # q, {req[r].op, req[q].op} \in Conflicts
  PROVE  {req[r].op, req[q].op} \in overlapped
<1>1. "none" \notin {req[r].op, req[q].op}
  BY DEF Conflicts
<1>2. InProgress(r) /\ InProgress(q)
  BY <1>1 DEF IInv, CallsOfOps, InProgress
<1>3. QED
  BY <1>2 DEF IInv, OverlapsAreSeen

(* A request that goes on adds no overlap.                                 *)
LEMMA SeenBefore ==
  ASSUME IInv, NEW r \in Request, InProgress(r), overlapped' = overlapped,
         req'[r].pc \in {"idle", "over"} \/ req'[r].op = req[r].op,
         \A q \in Request \ {r} : req'[q] = req[q]
  PROVE  OverlapsAreSeen'
<1> SUFFICES ASSUME NEW p \in Request, NEW q \in Request, p # q, InProgress(p)', InProgress(q)'
             PROVE  ({{req'[p].op, req'[q].op}} \cap Conflicts) \subseteq overlapped
  BY DEF OverlapsAreSeen, Conflicts
<1>1. InProgress(p) /\ InProgress(q) /\ req'[p].op = req[p].op /\ req'[q].op = req[q].op
  BY DEF InProgress
<1>2. QED
  BY <1>1 DEF IInv, OverlapsAreSeen

-----------------------------------------------------------------------------
(* Steps that write no row.                                                *)

LEMMA RowsKept ==
  ASSUME IInv, NEW r \in Request, NEW new \in RequestState, Step(r, new), UNCHANGED <<rows, superseded>>,
         faults' \in 0..MaxFaults, faults' = 0 => faults = 0,
         overlapped \subseteq overlapped', overlapped' \subseteq Conflicts, OverlapsAreSeen',
         CallsOfOps(new), req[r].pc # "over",
         \/ new.id = "none"
         \/ new.id = integration[new.on].id
         \/ new.id = req[r].id /\ new.on = req[r].on,
         new.pc \in {"idle", "insert"} => req[r].pc = "idle",
         new.op \in {"create", "connect"} => new.pc = "insert",
         faults' # 0 \/ \A p \in All : integration[p].id # "none" => ~Makes(r, p),
         req[r].op = "create" => new.pc = "over",
         new.op = "rotate" /\ new.pc = "write" /\ new.row = "none" =>
           /\ overlapped = {} => RowsOf(new.id, new.key) = {}
           /\ faults = 0 /\ new.on = "ecommerce" /\ integration["ecommerce"].id = new.id =>
                {"connect", "rotate"} \in overlapped
  PROVE  IInv'
<1>1. integration' = integration /\ credential' = credential /\ superseded' = superseded
  BY DEF rows
<1>2. req' \in [Request -> RequestState] /\ req'[r] = new /\ \A q \in Request : q # r => req'[q] = req[q]
  BY Stepped DEF IInv
<1>3. TypeOK'
  BY <1>1, <1>2 DEF IInv, TypeOK
<1>4. \A q \in Request : CallsOfOps(req[q])'
  BY <1>2 DEF IInv, CallsOfOps
<1>5. IdsName'
  <2>1. ASSUME NEW q \in Request, NEW p \in All, req'[q].id # "none", p # req'[q].on
        PROVE  integration[p].id # req'[q].id
    <3>1. CASE q # r
      BY <1>2, <2>1, <3>1 DEF IInv, IdsName
    <3>2. CASE q = r
      <4>1. new.on \in All
        BY DEF RequestState
      <4>2. QED
        BY <1>2, <2>1, <3>2, <4>1 DEF IInv, IdsName
    <3>3. QED
      BY <3>1, <3>2
  <2>2. ASSUME NEW s \in Request, req'[s].pc \in {"idle", "insert"}
        PROVE  /\ \A p \in All : integration[p].id # s
               /\ \A q \in Request : req'[q].id # s
               /\ \A k \in AnyKey, x \in Secret : <<s, k, x>> \notin superseded
    <3>1. req[s].pc \in {"idle", "insert"}
      BY <1>2, <2>2
    <3>2. new.id # s
      <4>1. new.on \in All
        BY DEF RequestState
      <4>2. QED
        BY <3>1, <4>1, EarlierAssumption DEF IInv, IdsName
    <3>3. QED
      BY <1>2, <3>1, <3>2 DEF IInv, IdsName
  <2>3. QED
    BY <1>1, <2>1, <2>2 DEF IInv, IdsName
<1>6. CreateInv'
  <2> SUFFICES ASSUME NEW q \in Request, req'[q].op = "create", req'[q].pc = "store"
               PROVE  /\ req[q].id = q /\ integration[req[q].on].id = q
                      /\ \A k \in MadeWith(req[q].on) \ req[q].left : RowsOf(req[q].id, k) # {}
                      /\ {"create", "rotate"} \notin overlapped =>
                           \A k \in req[q].left :
                             RowsOf(req[q].id, k) = {} /\ \A s \in Secret : <<req[q].id, k, s>> \notin superseded
                      /\ req'[q] = req[q]
    BY <1>1 DEF CreateInv, MadeWith, RowsOf
  <2>1. q # r /\ req'[q] = req[q]
    BY <1>2
  <2>2. QED
    BY <2>1 DEF IInv, CreateInv
<1>7. CompleteInv'
  <2> SUFFICES ASSUME faults' = 0, NEW p \in All, integration[p].id # "none",
                      \A q \in Request : ~Makes(q, p)'
               PROVE  Complete(p)
    BY <1>1 DEF CompleteInv, Complete, MadeWith, RowsOf
  <2>1. ASSUME NEW q \in Request PROVE ~Makes(q, p)
    <3>1. CASE q # r
      BY <1>1, <1>2, <3>1 DEF Makes
    <3>2. CASE q = r
      BY <3>2
    <3>3. QED
      BY <3>1, <3>2
  <2>2. QED
    BY <2>1 DEF IInv, CompleteInv
<1>8. RotateInv'
  <2> SUFFICES ASSUME NEW q \in Request, req'[q].op = "rotate", req'[q].pc = "write", req'[q].row = "none"
               PROVE  /\ overlapped' = {} => RowsOf(req'[q].id, req'[q].key) = {}
                      /\ faults' = 0 /\ req'[q].on = "ecommerce" /\ integration["ecommerce"].id = req'[q].id =>
                           {"connect", "rotate"} \in overlapped'
    BY <1>1 DEF RotateInv, RowsOf
  <2>1. CASE q # r
    BY <1>2, <2>1 DEF IInv, RotateInv
  <2>2. CASE q = r
    BY <1>2, <2>2
  <2>3. QED
    BY <2>1, <2>2
<1>9. ShopInv'
  <2> SUFFICES ASSUME {{"connect"}, {"connect", "rotate"}} \cap overlapped' = {}
               PROVE  /\ \A q \in Request : req'[q].op = "connect" /\ req'[q].pc # "insert" =>
                           /\ req'[q].id = integration["ecommerce"].id => integration["ecommerce"].shop \in {q, "none"}
                           /\ req'[q].pc = "store" => \A c \in credential : c.of # req'[q].id
                      /\ \/ faults' # 0 \/ integration["ecommerce"].shop = "none"
                         \/ \E q \in Request : Makes(q, "ecommerce")'
                         \/ \A c \in credential : c.of = integration["ecommerce"].id => c.by = integration["ecommerce"].shop
    BY <1>1 DEF ShopInv
  <2>1. {{"connect"}, {"connect", "rotate"}} \cap overlapped = {}
    OBVIOUS
  <2>2. ASSUME NEW q \in Request, req'[q].op = "connect", req'[q].pc # "insert"
        PROVE  /\ req'[q].id = integration["ecommerce"].id => integration["ecommerce"].shop \in {q, "none"}
               /\ req'[q].pc = "store" => \A c \in credential : c.of # req'[q].id
    <3>1. q # r /\ req'[q] = req[q]
      BY <1>2, <2>2
    <3>2. QED
      BY <2>1, <2>2, <3>1 DEF IInv, ShopInv
  <2>3. ASSUME faults' = 0, NEW q \in Request, Makes(q, "ecommerce"), integration["ecommerce"].id # "none"
        PROVE  Makes(q, "ecommerce")'
    <3>1. CASE q # r
      BY <1>1, <1>2, <2>3, <3>1 DEF Makes
    <3>2. CASE q = r
      BY <2>3, <3>2, ShopIsNoConnector
    <3>3. QED
      BY <3>1, <3>2
  <2>4. integration["ecommerce"].id = "none" => integration["ecommerce"].shop = "none"
    BY ShopIsNoConnector DEF IInv, IdsName, Absent
  <2>5. \/ faults' # 0 \/ integration["ecommerce"].shop = "none"
        \/ \E q \in Request : Makes(q, "ecommerce")'
        \/ \A c \in credential : c.of = integration["ecommerce"].id => c.by = integration["ecommerce"].shop
    BY <2>1, <2>3, <2>4 DEF IInv, ShopInv
  <2>6. QED
    BY <2>2, <2>5
<1>10. SecretsInv' /\ ReplacedSecretsAreGone'
  <2>1. ASSUME NEW q \in Request, ~(req'[q].pc = "over" \/ (req'[q].op = "create" /\ req'[q].pc = "store"))
        PROVE  ~(req[q].pc = "over" \/ (req[q].op = "create" /\ req[q].pc = "store"))
    BY <1>2, <2>1
  <2>2. overlapped' = {} => overlapped = {}
    OBVIOUS
  <2>3. SecretsInv'
    BY <1>1, <2>1, <2>2 DEF IInv, SecretsInv
  <2>4. ReplacedSecretsAreGone'
    BY <1>1, <2>2 DEF IInv, ReplacedSecretsAreGone
  <2>5. QED
    BY <2>3, <2>4
<1>11. QED
  BY <1>3, <1>4, <1>5, <1>6, <1>7, <1>8, <1>9, <1>10 DEF IInv

-----------------------------------------------------------------------------
(* A request begins.                                                       *)

LEMMA BeginKeeps ==
  ASSUME IInv, NEW r \in Request, NEW new \in RequestState, Begin(r, new), CallsOfOps(new),
         new.pc \in {"insert", "get", "resolve", "read"} \/ (new.pc = "write" /\ new.op = "disconnect"),
         new.id = "none" \/ new.id = integration[new.on].id,
         new.op \in {"create", "connect"} => new.pc = "insert"
  PROVE  IInv'
<1>1. req[r].pc = "idle" /\ req[r].op = "none" /\ Step(r, new) /\ UNCHANGED <<rows, faults, superseded>>
  BY DEF Begin, IInv, CallsOfOps
<1> DEFINE seen == {{new.op, req[q].op} : q \in {s \in Request : InProgress(s)}} \cap Conflicts
<1>2. overlapped' = overlapped \cup seen
  BY DEF Begin
<1>3. req'[r] = new /\ \A q \in Request \ {r} : req'[q] = req[q]
  BY <1>1, Stepped DEF IInv
<1>4. ~InProgress(r)
  BY <1>1 DEF InProgress
<1>5. OverlapsAreSeen'
  <2> SUFFICES ASSUME NEW p \in Request, NEW q \in Request, p # q, InProgress(p)', InProgress(q)',
                      {req'[p].op, req'[q].op} \in Conflicts
               PROVE  {req'[p].op, req'[q].op} \in overlapped'
    BY DEF OverlapsAreSeen, Conflicts
  <2>1. CASE p = r
    <3>1. req'[p].op = new.op /\ req'[q].op = req[q].op /\ InProgress(q)
      BY <1>3, <2>1 DEF InProgress
    <3>2. {new.op, req[q].op} \in seen
      BY <3>1
    <3>3. QED
      BY <1>2, <3>1, <3>2
  <2>2. CASE q = r
    <3>1. req'[q].op = new.op /\ req'[p].op = req[p].op /\ InProgress(p)
      BY <1>3, <2>2 DEF InProgress
    <3>2. {new.op, req[p].op} \in seen
      BY <3>1
    <3>3. {req'[p].op, req'[q].op} = {new.op, req[p].op}
      BY <3>1
    <3>4. QED
      BY <1>2, <3>2, <3>3
  <2>3. CASE p # r /\ q # r
    <3>1. req'[p] = req[p] /\ req'[q] = req[q] /\ InProgress(p) /\ InProgress(q)
      BY <1>3, <2>3 DEF InProgress
    <3>2. QED
      BY <1>2, <3>1 DEF IInv, OverlapsAreSeen
  <2>4. QED
    BY <2>1, <2>2, <2>3
<1>6. overlapped \subseteq overlapped' /\ overlapped' \subseteq Conflicts
  BY <1>2 DEF IInv, TypeOK
<1>7. faults' \in 0..MaxFaults /\ faults' = faults
  BY <1>1 DEF IInv, TypeOK
<1>8. ~(new.op = "rotate" /\ new.pc = "write") /\ new.op # "none"
  BY DEF CallsOfOps
<1>9. \A p \in All : ~Makes(r, p)
  BY <1>1 DEF Makes
<1>10. QED
  BY <1>1, <1>5, <1>6, <1>7, <1>8, <1>9, RowsKept

LEMMA OnIntegrationKeeps ==
  ASSUME IInv, NEW r \in Request, NEW op \in {"update", "rotate", "archive", "test"}, NEW p \in All,
         NEW k \in KeyOf(p), OnIntegration(r, op, p, k)
  PROVE  IInv'
<1> DEFINE new == [Idle EXCEPT !.op = op, !.pc = "get", !.on = p, !.id = integration[p].id, !.key = k]
<1>1. integration[p].id \in Maker /\ k \in AnyKey
  BY KeysOfProviders DEF IInv, TypeOK
<1>2. new \in RequestState
  BY <1>1, IdleIsTyped DEF RequestState, Op, Label
<1>3. /\ new.op = op /\ new.pc = "get" /\ new.on = p /\ new.id = integration[p].id /\ new.key = k
      /\ integration[p].id # "none" /\ Begin(r, new)
  BY DEF Idle, OnIntegration
<1> HIDE DEF new
<1>4. CallsOfOps(new)
  BY <1>3 DEF CallsOfOps
<1>5. QED
  BY <1>2, <1>3, <1>4, BeginKeeps

LEMMA ShopBeginsKeep ==
  ASSUME IInv, NEW r \in Request, connectShopify(r) \/ disconnect(r) \/ getConnector(r)
  PROVE  IInv'
<1>1. "ecommerce" \in All /\ integration["ecommerce"].id \in Maker
  BY ShopIsNoConnector DEF IInv, TypeOK
<1>2. CASE connectShopify(r)
  <2> DEFINE new == [Idle EXCEPT !.op = "connect", !.pc = "insert"]
  <2>1. new \in RequestState
    BY <1>1, IdleIsTyped DEF RequestState, Op, Label
  <2>2. new.op = "connect" /\ new.pc = "insert" /\ new.on = "ecommerce" /\ new.id = "none" /\ Begin(r, new)
    BY <1>2 DEF Idle, connectShopify
  <2> HIDE DEF new
  <2>3. CallsOfOps(new)
    BY <2>2 DEF CallsOfOps
  <2>4. QED
    BY <2>1, <2>2, <2>3, BeginKeeps
<1>3. CASE disconnect(r)
  <2> DEFINE new == [Idle EXCEPT !.op = "disconnect", !.pc = "write", !.id = integration["ecommerce"].id]
  <2>1. new \in RequestState
    BY <1>1, IdleIsTyped DEF RequestState, Op, Label
  <2>2. /\ new.op = "disconnect" /\ new.pc = "write" /\ new.on = "ecommerce" /\ new.id = integration["ecommerce"].id
        /\ integration["ecommerce"].id # "none" /\ Begin(r, new)
    BY <1>3 DEF Idle, disconnect
  <2> HIDE DEF new
  <2>3. CallsOfOps(new)
    BY <2>2 DEF CallsOfOps
  <2>4. QED
    BY <2>1, <2>2, <2>3, BeginKeeps
<1>4. CASE getConnector(r)
  <2> DEFINE new == [Idle EXCEPT !.op = "sav", !.pc = "read", !.id = integration["ecommerce"].id]
  <2>1. new \in RequestState
    BY <1>1, IdleIsTyped DEF RequestState, Op, Label
  <2>2. /\ new.op = "sav" /\ new.pc = "read" /\ new.on = "ecommerce" /\ new.id = integration["ecommerce"].id
        /\ integration["ecommerce"].id # "none" /\ Begin(r, new)
    BY <1>4 DEF Idle, getConnector
  <2> HIDE DEF new
  <2>3. CallsOfOps(new)
    BY <2>2 DEF CallsOfOps
  <2>4. QED
    BY <2>1, <2>2, <2>3, BeginKeeps
<1>5. QED
  BY <1>2, <1>3, <1>4

LEMMA CreateBeginKeeps ==
  ASSUME IInv, NEW r \in Request, NEW p \in All, NEW keys \in SUBSET KeyOf(p), create(r, p, keys)
  PROVE  IInv'
<1> DEFINE new == [Idle EXCEPT !.op = "create", !.pc = "insert", !.on = p, !.left = keys]
<1>1. new \in RequestState
  <2>1. keys \in SUBSET AnyKey
    BY KeysOfProviders
  <2>2. QED
    BY <2>1, IdleIsTyped DEF RequestState, Op, Label
<1>2. new.op = "create" /\ new.pc = "insert" /\ new.on = p /\ new.id = "none" /\ new.left = keys /\ p \in Provider /\ Begin(r, new)
  BY DEF Idle, create
<1> HIDE DEF new
<1>3. CallsOfOps(new)
  BY <1>2 DEF CallsOfOps
<1>4. QED
  BY <1>1, <1>2, <1>3, BeginKeeps

LEMMA SendBeginKeeps ==
  ASSUME IInv, NEW r \in Request, NEW p \in All, findFirstIntegration(r, p)
  PROVE  IInv'
<1> DEFINE new == [Idle EXCEPT !.op = "send", !.pc = "resolve", !.on = p, !.id = integration[p].id]
<1>1. integration[p].id \in Maker
  BY DEF IInv, TypeOK
<1>2. new \in RequestState
  BY <1>1, IdleIsTyped DEF RequestState, Op, Label
<1>3. /\ new.op = "send" /\ new.pc = "resolve" /\ new.on = p /\ new.id = integration[p].id /\ p \in Provider
      /\ integration[p].id # "none" /\ Begin(r, new)
  BY DEF Idle, findFirstIntegration
<1> HIDE DEF new
<1>4. CallsOfOps(new)
  BY <1>3 DEF CallsOfOps
<1>5. QED
  BY <1>2, <1>3, <1>4, BeginKeeps

LEMMA BeginsKeep == ASSUME IInv, NEW r \in Request, Begins(r) PROVE IInv'
<1>1. CASE connectShopify(r) \/ disconnect(r) \/ getConnector(r)
  BY <1>1, ShopBeginsKeep
<1>2. ASSUME NEW p \in All, NEW keys \in Brought(p), create(r, p, keys) PROVE IInv'
  <2>1. keys \in SUBSET KeyOf(p)
    BY KeysOfProviders DEF Brought
  <2>2. QED
    BY <1>2, <2>1, CreateBeginKeeps
<1>3. ASSUME NEW p \in All, update(r, p) \/ archive(r, p) \/ test(r, p) PROVE IInv'
  <2>1. (CHOOSE k \in KeyOf(p) : TRUE) \in KeyOf(p)
    BY KeysOfProviders
  <2>2. QED
    BY <1>3, <2>1, OnIntegrationKeeps DEF update, archive, test
<1>4. ASSUME NEW p \in All, NEW k \in KeyOf(p), rotateCredential(r, p, k) PROVE IInv'
  BY <1>4, OnIntegrationKeeps DEF rotateCredential
<1>5. ASSUME NEW p \in All, findFirstIntegration(r, p) PROVE IInv'
  BY <1>5, SendBeginKeeps
<1>6. QED
  BY <1>1, <1>2, <1>3, <1>4, <1>5 DEF Begins

-----------------------------------------------------------------------------
(* A request reads, or calls out.                                          *)

(* A request that writes no row goes on, or ends.                          *)
LEMMA ReadKeeps ==
  ASSUME IInv, NEW r \in Request, NEW new \in RequestState, Step(r, new), UNCHANGED <<rows, superseded, faults, overlapped>>,
         CallsOfOps(new), InProgress(r), req[r].op \notin {"create", "connect"},
         \/ new.op = "none"
         \/ new.op = req[r].op /\ new.on = req[r].on /\ new.id = req[r].id,
         new.op = "rotate" /\ new.pc = "write" /\ new.row = "none" =>
           /\ overlapped = {} => RowsOf(new.id, new.key) = {}
           /\ faults = 0 /\ new.on = "ecommerce" /\ integration["ecommerce"].id = new.id =>
                {"connect", "rotate"} \in overlapped,
         new.pc # "idle"
  PROVE  IInv'
<1>1. req'[r] = new /\ \A q \in Request \ {r} : req'[q] = req[q]
  BY Stepped DEF IInv
<1>2. new.op = "none" => new.pc = "over" /\ new.id = "none"
  BY DEF CallsOfOps
<1>3. OverlapsAreSeen'
  BY <1>1, <1>2, SeenBefore
<1>4. faults' \in 0..MaxFaults /\ overlapped' \subseteq Conflicts
  BY DEF IInv, TypeOK
<1>5. /\ new.pc # "insert" /\ new.op \notin {"create", "connect"} /\ req[r].pc # "over"
      /\ \A p \in All : ~Makes(r, p)
  BY DEF CallsOfOps, InProgress, Makes
<1>6. QED
  BY <1>2, <1>3, <1>4, <1>5, RowsKept

LEMMA EndKeeps ==
  ASSUME IInv, NEW r \in Request, End(r), UNCHANGED <<rows, superseded, faults, overlapped>>, InProgress(r),
         req[r].op \notin {"create", "connect"}
  PROVE  IInv'
<1>1. Step(r, Ended)
  BY DEF End, Ended
<1>2. QED
  BY <1>1, EndedIsTyped, EndedIsPlaced, ReadKeeps

LEMMA GetKeeps == ASSUME IInv, NEW r \in Request, get(r) PROVE IInv'
<1>1. req[r].pc = "get" /\ UNCHANGED <<rows, superseded, faults, overlapped>>
  BY DEF get, At, Keep
<1>2. CallsOfOps(req[r]) /\ InProgress(r)
  BY <1>1 DEF IInv, InProgress
<1>3. req[r].op \notin {"create", "connect", "none"} /\ req[r].id # "none"
  BY <1>1, <1>2 DEF CallsOfOps
<1>4. CASE End(r)
  BY <1>1, <1>2, <1>3, <1>4, EndKeeps
<1>5. CASE ~End(r)
  <2> DEFINE label == CASE req[r].op = "rotate" -> "find" [] req[r].op = "test" -> "resolve" [] OTHER -> "write"
             new == [req[r] EXCEPT !.pc = label]
  <2>1. Step(r, new) /\ (req[r].op = "test" => req[r].on \in Provider)
    BY <1>5 DEF get, Goto
  <2>2. label \in Label \ {"idle", "insert", "over", "store", "clear"}
        /\ (label = "find" <=> req[r].op = "rotate")
    BY DEF Label
  <2> HIDE DEF label
  <2>3. new \in RequestState
    BY <2>2 DEF IInv, TypeOK, RequestState
  <2>4. /\ new.pc = label /\ new.op = req[r].op /\ new.on = req[r].on /\ new.id = req[r].id /\ new.key = req[r].key
        /\ new.left = req[r].left
    BY DEF IInv, TypeOK, RequestState
  <2> HIDE DEF new
  <2>5. CallsOfOps(new)
    BY <1>2, <1>3, <2>1, <2>2, <2>4 DEF CallsOfOps
  <2>6. QED
    BY <1>1, <1>2, <1>3, <2>1, <2>2, <2>3, <2>4, <2>5, ReadKeeps
<1>6. QED
  BY <1>4, <1>5

(* What a rotation knows when it finds no row: a shop that nobody connects *)
(* has both its secrets.                                                   *)
LEMMA FoundNone ==
  ASSUME IInv, NEW r \in Request, req[r].pc = "find", RowsOf(req[r].id, req[r].key) = {}, faults = 0,
         req[r].on = "ecommerce", integration["ecommerce"].id = req[r].id
  PROVE  {"connect", "rotate"} \in overlapped
<1>1. CallsOfOps(req[r]) /\ req[r].op = "rotate" /\ req[r].id # "none" /\ req[r].key \in KeyOf("ecommerce")
  BY DEF IInv, CallsOfOps
<1>2. ~Complete("ecommerce")
  BY <1>1, KeysOfShop DEF Complete, MadeWith
<1>3. PICK q \in Request : Makes(q, "ecommerce")
  BY <1>1, <1>2, ShopIsNoConnector DEF IInv, CompleteInv
<1>4. q # r /\ req[q].id = integration["ecommerce"].id
  BY <1>1, <1>3 DEF Makes
<1>5. req[q].op # "create"
  <2> SUFFICES ASSUME req[q].op = "create" PROVE FALSE
    OBVIOUS
  <2>1. req[q].on # "ecommerce"
    BY ShopIsNoConnector DEF IInv, CallsOfOps
  <2>2. QED
    BY <1>1, <1>4, <2>1, ShopIsNoConnector DEF IInv, IdsName
<1>6. {req[q].op, req[r].op} = {"connect", "rotate"}
  BY <1>1, <1>3, <1>5 DEF Makes
<1>7. QED
  BY <1>4, <1>6, Races DEF Conflicts

LEMMA FindCredentialKeeps == ASSUME IInv, NEW r \in Request, FindCredential(r) PROVE IInv'
<1> DEFINE found == RowsOf(req[r].id, req[r].key)
<1>1. req[r].pc = "find" /\ UNCHANGED <<rows, superseded, faults, overlapped>>
  BY DEF FindCredential, At, Keep
<1>2. PICK by \in IF found = {} THEN {"none"} ELSE {c.by : c \in found} :
        Step(r, [req[r] EXCEPT !.pc = "write", !.row = by])
  BY DEF FindCredential
<1>3. CallsOfOps(req[r]) /\ req[r].op = "rotate" /\ InProgress(r)
  BY <1>1 DEF IInv, CallsOfOps, InProgress
<1>4. by \in Maker /\ (by = "none" => found = {})
  BY <1>2, EarlierAssumption DEF IInv, TypeOK, RowsOf, CredentialRow, Maker, Secret
<1> DEFINE new == [req[r] EXCEPT !.pc = "write", !.row = by]
<1>5. new \in RequestState
  BY ZenonT(40), <1>4 DEF IInv, TypeOK, RequestState, Label
<1>6. /\ new.pc = "write" /\ new.op = req[r].op /\ new.on = req[r].on /\ new.id = req[r].id /\ new.key = req[r].key
      /\ new.left = req[r].left /\ new.row = by /\ Step(r, new)
  BY <1>2 DEF IInv, TypeOK, RequestState
<1> HIDE DEF new
<1>7. CallsOfOps(new)
  BY <1>1, <1>3, <1>6 DEF CallsOfOps
<1>8. by = "none" /\ faults = 0 /\ req[r].on = "ecommerce" /\ integration["ecommerce"].id = req[r].id =>
        {"connect", "rotate"} \in overlapped
  BY <1>1, <1>4, FoundNone
<1>9. QED
  BY <1>1, <1>3, <1>4, <1>5, <1>6, <1>7, <1>8, ReadKeeps

(* What only calls out goes on to another call.                            *)
LEMMA CallsOutKeeps ==
  ASSUME IInv, NEW r \in Request, UNCHANGED <<rows, superseded, faults, overlapped>>,
         req[r].pc \in {"resolve", "read", "call"},
         \/ End(r)
         \/ \E label \in {"read", "call", "record"}, c \in [AnyKey -> Maker], ok \in BOOLEAN :
              Step(r, [req[r] EXCEPT !.pc = label, !.ok = ok, !.credentials = c])
  PROVE  IInv'
<1>1. CallsOfOps(req[r]) /\ InProgress(r)
  BY DEF IInv, InProgress
<1>2. req[r].op \notin {"create", "connect", "none", "rotate"}
  BY <1>1 DEF CallsOfOps
<1>3. CASE End(r)
  BY <1>1, <1>2, <1>3, EndKeeps
<1>4. ASSUME NEW label \in {"read", "call", "record"}, NEW c \in [AnyKey -> Maker], NEW ok \in BOOLEAN,
             Step(r, [req[r] EXCEPT !.pc = label, !.ok = ok, !.credentials = c])
      PROVE  IInv'
  <2> DEFINE new == [req[r] EXCEPT !.pc = label, !.ok = ok, !.credentials = c]
  <2>1. new \in RequestState
    BY ZenonT(40) DEF IInv, TypeOK, RequestState, Label
  <2>2. /\ new.pc = label /\ new.op = req[r].op /\ new.on = req[r].on /\ new.id = req[r].id /\ new.key = req[r].key
        /\ new.left = req[r].left /\ Step(r, new)
    BY <1>4 DEF IInv, TypeOK, RequestState
  <2> HIDE DEF new
  <2>3. CallsOfOps(new)
    BY <1>1, <1>2, <2>2 DEF CallsOfOps
  <2>4. QED
    BY <1>1, <1>2, <2>1, <2>2, <2>3, ReadKeeps
<1>5. QED
  BY <1>3, <1>4

LEMMA CallingKeeps ==
  ASSUME IInv, NEW r \in Request, resolve(r) \/ ReadCredentials(r) \/ Call(r) \/ CallShop(r)
  PROVE  IInv'
<1>1. req[r] \in RequestState /\ Unset \in [AnyKey -> Maker]
  BY DEF IInv, TypeOK, Unset, Maker
<1>2. CASE resolve(r)
  <2>1. req[r].pc = "resolve" /\ UNCHANGED <<rows, superseded, faults, overlapped>>
    BY <1>2 DEF resolve, At, Keep
  <2>2. CASE End(r)
    BY <2>1, <2>2, CallsOutKeeps
  <2>3. CASE Goto(r, "read")
    <3>1. [req[r] EXCEPT !.pc = "read"] =
          [req[r] EXCEPT !.pc = "read", !.ok = req[r].ok, !.credentials = req[r].credentials]
      BY <1>1 DEF RequestState
    <3>2. req[r].ok \in BOOLEAN /\ req[r].credentials \in [AnyKey -> Maker]
      BY <1>1 DEF RequestState
    <3>3. Step(r, [req[r] EXCEPT !.pc = "read", !.ok = req[r].ok, !.credentials = req[r].credentials])
      BY <2>3, <3>1 DEF Goto
    <3>4. QED
      BY <2>1, <3>2, <3>3, CallsOutKeeps
  <2>4. QED
    BY <1>2, <2>2, <2>3 DEF resolve
<1>3. CASE ReadCredentials(r)
  <2>1. req[r].pc = "read" /\ UNCHANGED <<rows, superseded, faults, overlapped>>
    BY <1>3 DEF ReadCredentials, At, Keep
  <2>2. PICK c \in Readings(req[r].id) : Step(r, [req[r] EXCEPT !.pc = "call", !.credentials = c])
    BY <1>3 DEF ReadCredentials
  <2>3. c \in [AnyKey -> Maker]
    BY DEF Readings
  <2>4. [req[r] EXCEPT !.pc = "call", !.credentials = c] = [req[r] EXCEPT !.pc = "call", !.ok = req[r].ok, !.credentials = c]
    BY <1>1 DEF RequestState
  <2>5. req[r].ok \in BOOLEAN
    BY <1>1 DEF RequestState
  <2>6. Step(r, [req[r] EXCEPT !.pc = "call", !.ok = req[r].ok, !.credentials = c])
    BY <2>2, <2>4
  <2>7. QED
    BY <2>1, <2>3, <2>5, <2>6, CallsOutKeeps
<1>4. CASE Call(r)
  <2>1. req[r].pc = "call" /\ UNCHANGED <<rows, superseded, faults, overlapped>>
    BY <1>4 DEF Call, At, Keep
  <2>2. PICK ok \in Outcomes(req[r].op, req[r].on, req[r].credentials) :
          IF req[r].op = "test" THEN Step(r, [req[r] EXCEPT !.pc = "record", !.ok = ok, !.credentials = Unset]) ELSE End(r)
    BY <1>4 DEF Call
  <2>3. CASE End(r)
    BY <2>1, <2>3, CallsOutKeeps
  <2>4. CASE req[r].op = "test" /\ Step(r, [req[r] EXCEPT !.pc = "record", !.ok = ok, !.credentials = Unset])
    <3>0. req[r].on \in {"email", "google_calendar", "crm"}
      BY <2>1, <2>4, ProviderAssumption DEF IInv, CallsOfOps
    <3>1. ok \in BOOLEAN
      BY <2>2, <3>0 DEF Outcomes, SmtpOutcomes, CrmOutcomes, CalendarOutcomes
    <3>2. QED
      BY <1>1, <2>1, <2>4, <3>1, CallsOutKeeps
  <2>5. QED
    BY <2>2, <2>3, <2>4
<1>5. CASE CallShop(r)
  <2>1. req[r].pc = "read" /\ End(r) /\ UNCHANGED <<rows, superseded, faults, overlapped>>
    BY <1>5 DEF CallShop, At, Keep
  <2>2. QED
    BY <2>1, CallsOutKeeps
<1>6. QED
  BY <1>2, <1>3, <1>4, <1>5

LEMMA RejectKeeps == ASSUME IInv, NEW r \in Request, Reject(r) PROVE IInv'
<1>1. /\ InProgress(r) /\ faults < MaxFaults /\ faults' = faults + 1
      /\ Step(r, Ended) /\ UNCHANGED <<rows, superseded, overlapped>>
  BY DEF Reject, Keep, End, Ended
<1>2. faults \in 0..MaxFaults /\ overlapped \subseteq Conflicts
  BY DEF IInv, TypeOK
<1>3. faults' \in 0..MaxFaults /\ faults' # 0
  BY <1>1, <1>2, FaultsAssumption
<1>4. req'[r] = Ended /\ \A q \in Request \ {r} : req'[q] = req[q]
  BY <1>1, EndedIsTyped, Stepped DEF IInv
<1>5. OverlapsAreSeen'
  BY <1>1, <1>4, EndedIsTyped, SeenBefore
<1>6. req[r].pc # "over"
  BY <1>1 DEF InProgress
<1>7. QED
  BY <1>1, <1>2, <1>3, <1>5, <1>6, EndedIsTyped, EndedIsPlaced, RowsKept

-----------------------------------------------------------------------------
(* Steps that write the row of an integration.                             *)

(* An integration keeps its id and loses, or keeps, its shop.              *)
LEMMA SameIdsKeep ==
  ASSUME IInv, NEW r \in Request, End(r), InProgress(r), req[r].op \notin {"create", "connect"},
         UNCHANGED <<credential, superseded, faults, overlapped>>,
         integration' \in [All -> [id : Maker, status : Status, shop : Maker, with : SUBSET AnyKey]],
         \A p \in All : /\ integration'[p].id = integration[p].id
                        /\ integration[p].id = "none" => integration'[p] = integration[p]
                        /\ integration'[p].shop \in {integration[p].shop, "none"}
                        /\ integration'[p].with = integration[p].with
  PROVE  IInv'
<1>1. req' \in [Request -> RequestState] /\ req'[r] = Ended /\ \A q \in Request : q # r => req'[q] = req[q]
  BY EndedIsTyped, Stepped DEF IInv, End, Ended
<1>2. TypeOK'
  BY <1>1 DEF IInv, TypeOK
<1>3. \A q \in Request : CallsOfOps(req[q])'
  BY <1>1, EndedIsPlaced DEF IInv, CallsOfOps
<1>4. OverlapsAreSeen'
  BY <1>1, EndedIsTyped, SeenBefore
<1>5. Ended.id = "none" /\ Ended.pc = "over" /\ Ended.op = "none" /\ "none" \notin Request
  BY EndedIsTyped, EarlierAssumption
<1>6. IdsName'
  BY <1>1, <1>5 DEF IInv, IdsName
<1>14. \A o \in All : MadeWith(o)' = MadeWith(o)
  BY DEF MadeWith
<1>15. \A q \in Request : req'[q].on \in All
  BY <1>1 DEF RequestState
<1>7. CreateInv'
  <2> SUFFICES ASSUME NEW q \in Request, req'[q].op = "create", req'[q].pc = "store"
               PROVE  /\ req[q].id = q /\ integration'[req[q].on].id = q
                      /\ \A k \in MadeWith(req[q].on) \ req[q].left : RowsOf(req[q].id, k) # {}
                      /\ {"create", "rotate"} \notin overlapped =>
                           \A k \in req[q].left :
                             RowsOf(req[q].id, k) = {} /\ \A s \in Secret : <<req[q].id, k, s>> \notin superseded
                      /\ req'[q] = req[q]
    BY <1>14, <1>15 DEF CreateInv, RowsOf
  <2>1. q # r /\ req'[q] = req[q] /\ req[q].on \in All
    BY <1>1, <1>5 DEF IInv, TypeOK, RequestState
  <2>2. QED
    BY SMTT(30), <2>1 DEF IInv, CreateInv
<1>8. \A q \in Request, p \in All : integration[p].id # "none" => (Makes(q, p)' <=> Makes(q, p))
  BY <1>1, <1>5 DEF Makes
<1>9. CompleteInv'
  BY <1>8, <1>14 DEF IInv, CompleteInv, Complete, RowsOf
<1>10. RotateInv'
  <2> SUFFICES ASSUME NEW q \in Request, req'[q].op = "rotate", req'[q].pc = "write", req'[q].row = "none"
               PROVE  /\ overlapped = {} => RowsOf(req'[q].id, req'[q].key) = {}
                      /\ faults = 0 /\ req'[q].on = "ecommerce" /\ integration["ecommerce"].id = req'[q].id =>
                           {"connect", "rotate"} \in overlapped
    BY ShopIsNoConnector DEF RotateInv, RowsOf
  <2>1. q # r
    BY <1>1, <1>5
  <2>2. QED
    BY <1>1, <2>1 DEF IInv, RotateInv
<1>11. ShopInv'
  <2> SUFFICES ASSUME {{"connect"}, {"connect", "rotate"}} \cap overlapped = {}
               PROVE  /\ \A q \in Request : req'[q].op = "connect" /\ req'[q].pc # "insert" =>
                           /\ req'[q].id = integration["ecommerce"].id => integration'["ecommerce"].shop \in {q, "none"}
                           /\ req'[q].pc = "store" => \A c \in credential : c.of # req'[q].id
                      /\ \/ faults # 0 \/ integration'["ecommerce"].shop = "none"
                         \/ \E q \in Request : Makes(q, "ecommerce")'
                         \/ \A c \in credential : c.of = integration["ecommerce"].id => c.by = integration'["ecommerce"].shop
    BY ShopIsNoConnector DEF ShopInv
  <2>1. ASSUME NEW q \in Request, req'[q].op = "connect", req'[q].pc # "insert"
        PROVE  /\ req'[q].id = integration["ecommerce"].id => integration'["ecommerce"].shop \in {q, "none"}
               /\ req'[q].pc = "store" => \A c \in credential : c.of # req'[q].id
    <3>1. q # r /\ req'[q] = req[q]
      BY <1>1, <1>5, <2>1
    <3>2. QED
      BY <2>1, <3>1, ShopIsNoConnector DEF IInv, ShopInv
  <2>2. integration["ecommerce"].id = "none" => integration["ecommerce"].shop = "none"
    BY ShopIsNoConnector DEF IInv, IdsName, Absent
  <2>3. \/ faults # 0 \/ integration["ecommerce"].shop = "none"
        \/ \E q \in Request : Makes(q, "ecommerce")
        \/ \A c \in credential : c.of = integration["ecommerce"].id => c.by = integration["ecommerce"].shop
    BY DEF IInv, ShopInv
  <2>4. QED
    BY <1>8, <2>1, <2>2, <2>3, ShopIsNoConnector
<1>12. SecretsInv' /\ ReplacedSecretsAreGone'
  <2>1. ASSUME NEW q \in Request, ~(req'[q].pc = "over" \/ (req'[q].op = "create" /\ req'[q].pc = "store"))
        PROVE  ~(req[q].pc = "over" \/ (req[q].op = "create" /\ req[q].pc = "store"))
    BY <1>1, <1>5, <2>1
  <2>2. SecretsInv'
    BY <2>1 DEF IInv, SecretsInv
  <2>3. QED
    BY <2>2 DEF IInv, ReplacedSecretsAreGone
<1>13. QED
  BY <1>2, <1>3, <1>4, <1>6, <1>7, <1>9, <1>10, <1>11, <1>12 DEF IInv

LEMMA WriteIntegrationKeeps ==
  ASSUME IInv, NEW r \in Request, WriteIntegration(r) \/ RecordTest(r)
  PROVE  IInv'
<1>1. req[r] \in RequestState /\ CallsOfOps(req[r]) /\ integration \in [All -> [id : Maker, status : Status, shop : Maker, with : SUBSET AnyKey]]
  BY DEF IInv, TypeOK
<1>2. req[r].on \in All /\ "none" \in Maker
  BY <1>1 DEF RequestState, Maker
<1>3. /\ End(r) /\ UNCHANGED <<credential, superseded, faults, overlapped>>
      /\ req[r].pc \in {"write", "record"} /\ InProgress(r)
  BY DEF WriteIntegration, RecordTest, At, InProgress
<1>4. req[r].op \notin {"create", "connect"}
  BY <1>1, <1>3 DEF CallsOfOps
<1>5. CASE integration' = integration
  BY <1>1, <1>3, <1>4, <1>5, SameIdsKeep
<1>6. CASE /\ There(req[r].on, req[r].id)
           /\ \/ \E s \in Status : integration' = [integration EXCEPT ![req[r].on].status = s]
              \/ integration' = [integration EXCEPT ![req[r].on].shop = "none"]
  <2>1. integration[req[r].on].id # "none"
    BY <1>6 DEF There
  <2> DEFINE old == integration[req[r].on]
  <2>2. old \in [id : Maker, status : Status, shop : Maker, with : SUBSET AnyKey]
    BY <1>1, <1>2
  <2>3. PICK row \in [id : Maker, status : Status, shop : Maker, with : SUBSET AnyKey] :
          /\ row.id = old.id /\ row.shop \in {old.shop, "none"} /\ row.with = old.with
          /\ integration' = [integration EXCEPT ![req[r].on] = row]
    <3>1. CASE \E s \in Status : integration' = [integration EXCEPT ![req[r].on].status = s]
      <4>1. PICK s \in Status : integration' = [integration EXCEPT ![req[r].on] = [old EXCEPT !.status = s]]
        BY <3>1
      <4>2. [old EXCEPT !.status = s] \in [id : Maker, status : Status, shop : Maker, with : SUBSET AnyKey]
            /\ [old EXCEPT !.status = s].id = old.id /\ [old EXCEPT !.status = s].shop = old.shop
            /\ [old EXCEPT !.status = s].with = old.with
        BY <2>2
      <4>3. QED
        BY <4>1, <4>2
    <3>2. CASE integration' = [integration EXCEPT ![req[r].on].shop = "none"]
      <4>1. integration' = [integration EXCEPT ![req[r].on] = [old EXCEPT !.shop = "none"]]
        BY <3>2
      <4>2. [old EXCEPT !.shop = "none"] \in [id : Maker, status : Status, shop : Maker, with : SUBSET AnyKey]
            /\ [old EXCEPT !.shop = "none"].id = old.id /\ [old EXCEPT !.shop = "none"].shop = "none"
            /\ [old EXCEPT !.shop = "none"].with = old.with
        BY <1>2, <2>2
      <4>3. QED
        BY <4>1, <4>2
    <3>3. QED
      BY <1>6, <3>1, <3>2
  <2>4. integration' \in [All -> [id : Maker, status : Status, shop : Maker, with : SUBSET AnyKey]]
    BY <1>1, <1>2, <2>3
  <2>5. \A p \in All : /\ integration'[p].id = integration[p].id
                       /\ integration[p].id = "none" => integration'[p] = integration[p]
                       /\ integration'[p].shop \in {integration[p].shop, "none"}
                       /\ integration'[p].with = integration[p].with
    BY <1>1, <1>2, <2>1, <2>3
  <2>6. QED
    BY <1>3, <1>4, <2>4, <2>5, SameIdsKeep
<1>7. "INACTIVE" \in Status /\ "ACTIVE" \in Status /\ "ERROR" \in Status
  BY DEF Status
<1>8. QED
  BY <1>5, <1>6, <1>7 DEF WriteIntegration, RecordTest

LEMMA InsertIntegrationKeeps ==
  ASSUME IInv, NEW r \in Request, InsertIntegration(r)
  PROVE  IInv'
<1> DEFINE p == req[r].on
<1>1. /\ req[r].pc = "insert" /\ req[r].op = "create" /\ InProgress(r)
      /\ UNCHANGED <<credential, superseded, faults, overlapped>>
  BY DEF InsertIntegration, At, InProgress
<1>2. CallsOfOps(req[r]) /\ req[r] \in RequestState /\ TypeOK
  BY DEF IInv, TypeOK
<1>3. p \in Provider /\ p \in All /\ p # "ecommerce" /\ req[r].id = "none"
  BY <1>1, <1>2, ShopIsNoConnector DEF CallsOfOps
<1>4. overlapped \subseteq Conflicts /\ faults \in 0..MaxFaults
  BY <1>2 DEF TypeOK
<1>5. CASE integration[p].id # "none"
  <2>1. Step(r, Ended) /\ UNCHANGED <<rows, superseded>>
    BY <1>1, <1>5 DEF InsertIntegration, End, Ended, rows
  <2>2. req'[r] = Ended /\ \A q \in Request \ {r} : req'[q] = req[q]
    BY <2>1, <1>2, EndedIsTyped, Stepped
  <2>3. OverlapsAreSeen'
    BY <1>1, <2>2, EndedIsTyped, SeenBefore
  <2>4. \A o \in All : integration[o].id # "none" => ~Makes(r, o)
    BY <1>3 DEF Makes
  <2>5. QED
    BY <1>1, <1>3, <1>4, <2>1, <2>3, <2>4, EndedIsTyped, EndedIsPlaced, RowsKept
<1>6. CASE integration[p].id = "none"
  <2> DEFINE keys == req[r].left
             stores == [req[r] EXCEPT !.pc = "store", !.id = r]
             new == IF keys # {} THEN stores ELSE Ended
             row == Made(r, p, keys)
  <2>1. new \in RequestState /\ row \in [id : Maker, status : Status, shop : Maker, with : SUBSET AnyKey]
    <3>1. stores \in RequestState
      BY <1>2 DEF RequestState, Label, Maker, Secret
    <3>2. row \in [id : Maker, status : Status, shop : Maker, with : SUBSET AnyKey]
      BY <1>2, <1>3 DEF Made, RequestState, Maker, Secret, Status
    <3>3. QED
      BY <3>1, <3>2, EndedIsTyped
  <2>2. /\ new.pc = "store" => new.id = r /\ new.op = "create" /\ new.on = p /\ new.left = keys
        /\ new.pc # "store" => new = Ended /\ keys = {}
        /\ new.pc \in {"store", "over"} /\ new.id \in {r, "none"} /\ new.op \in {"create", "none"}
        /\ new.id = r => new.on = p
        /\ row.id = r /\ row # Absent /\ row.with = keys
    <3>1. stores.pc = "store" /\ stores.id = r /\ stores.op = "create" /\ stores.on = p /\ stores.left = keys
      BY <1>1, <1>2 DEF RequestState
    <3>2. row.id = r /\ row # Absent /\ row.with = keys
      BY <1>3, EarlierAssumption DEF Made, Absent
    <3>3. Ended.pc = "over" /\ Ended.id = "none" /\ Ended.op = "none" /\ r # "none"
      BY EndedIsTyped, EarlierAssumption
    <3>4. QED
      BY <3>1, <3>2, <3>3
  <2>3. Step(r, new) /\ integration' = [integration EXCEPT ![p] = row]
    BY <1>6 DEF InsertIntegration, End, Ended
  <2> HIDE DEF new, row, keys
  <2>4. req' \in [Request -> RequestState] /\ req'[r] = new /\ \A q \in Request : q # r => req'[q] = req[q]
    BY <1>2, <2>1, <2>3, Stepped
  <2>5. /\ integration' \in [All -> [id : Maker, status : Status, shop : Maker, with : SUBSET AnyKey]]
        /\ integration'[p] = row /\ \A o \in All : o # p => integration'[o] = integration[o]
    BY <1>2, <1>3, <2>1, <2>3 DEF TypeOK
  <2>6. /\ \A o \in All : integration[o].id # r
        /\ \A q \in Request : req[q].id # r
        /\ \A k \in AnyKey, s \in Secret : <<r, k, s>> \notin superseded
        /\ r # "none"
    BY <1>1, EarlierAssumption DEF IInv, IdsName
  <2>7. \A c \in credential : c.of # "none" /\ c.of # r /\ c \in CredentialRow /\ c.of \in Secret
    BY <1>2, <2>6, EarlierAssumption DEF TypeOK, CredentialRow, Secret
  <2>8. TypeOK'
    <3>1. ASSUME NEW c \in credential PROVE \E o \in All : integration'[o].id = c.of
      <4>1. PICK o \in All : integration[o].id = c.of
        BY <1>2 DEF TypeOK
      <4>2. o # p
        BY <1>6, <2>7, <4>1
      <4>3. QED
        BY <2>5, <4>1, <4>2
    <3>2. QED
      BY <1>1, <1>2, <2>4, <2>5, <3>1 DEF TypeOK
  <2>9. \A q \in Request : CallsOfOps(req[q])'
    <3>1. CallsOfOps(new)
      <4>1. CASE new.pc = "store"
        BY <1>1, <1>2, <1>3, <2>2, <2>6, <4>1 DEF CallsOfOps
      <4>2. CASE new.pc # "store"
        BY <2>2, <4>2, EndedIsPlaced
      <4>3. QED
        BY <4>1, <4>2
    <3>2. QED
      BY <2>4, <3>1 DEF IInv, CallsOfOps
  <2>10. OverlapsAreSeen'
    BY <1>1, <2>2, <2>4, SeenBefore
  <2>11. IdsName'
    <3>1. \A s, o \in All : s # o /\ integration'[s].id # "none" => integration'[s].id # integration'[o].id
      BY <2>2, <2>5, <2>6 DEF IInv, IdsName
    <3>2. \A o \in All : integration'[o].id = "none" => integration'[o] = Absent
      BY <2>2, <2>5, <2>6 DEF IInv, IdsName
    <3>3. \A q \in Request, o \in All : req'[q].id # "none" /\ o # req'[q].on => integration'[o].id # req'[q].id
      BY <2>2, <2>4, <2>5, <2>6 DEF IInv, IdsName
    <3>4. ASSUME NEW s \in Request, req'[s].pc \in {"idle", "insert"}
          PROVE  /\ \A o \in All : integration'[o].id # s
                 /\ \A q \in Request : req'[q].id # s
                 /\ \A k \in AnyKey, x \in Secret : <<s, k, x>> \notin superseded
      <4>1. s # r /\ req[s].pc \in {"idle", "insert"} /\ s # "none"
        BY <2>2, <2>4, <3>4, EarlierAssumption
      <4>2. QED
        BY <2>2, <2>4, <2>5, <4>1 DEF IInv, IdsName
    <3>5. QED
      BY <1>1, <3>1, <3>2, <3>3, <3>4 DEF IdsName
  <2> DEFINE Its(o) == IF o = "ecommerce" THEN Required(o) ELSE integration'[o].with
  <2>18. (\A o \in All : MadeWith(o)' = Its(o)) /\ \A q \in Request : req'[q].on \in All
    BY <2>4 DEF MadeWith, RequestState
  <2> HIDE DEF Its
  <2>12. CreateInv'
    <3> SUFFICES ASSUME NEW q \in Request, req'[q].op = "create", req'[q].pc = "store"
                 PROVE  /\ req'[q].id = q /\ integration'[req'[q].on].id = q
                        /\ \A k \in Its(req'[q].on) \ req'[q].left : RowsOf(req'[q].id, k) # {}
                        /\ {"create", "rotate"} \notin overlapped =>
                             \A k \in req'[q].left :
                               RowsOf(req'[q].id, k) = {} /\ \A s \in Secret : <<req'[q].id, k, s>> \notin superseded
      BY <1>1, <2>18 DEF CreateInv, RowsOf
    <3>1. CASE q = r
      <4>1. req'[q].left \subseteq AnyKey /\ \A k \in AnyKey : RowsOf(r, k) = {}
        BY <2>1, <2>4, <2>7, <3>1 DEF RowsOf, RequestState
      <4>2. req'[q].on = p /\ req'[q].left = keys /\ req'[q].id = r
        BY <2>2, <2>4, <3>1
      <4>3. Its(p) = keys
        BY <1>3, <2>2, <2>5 DEF Its
      <4>4. QED
        BY <2>2, <2>5, <2>6, <3>1, <4>1, <4>2, <4>3
    <3>2. CASE q # r
      <4>1. req'[q] = req[q] /\ req[q].on \in All
        BY <1>2, <2>4, <3>2 DEF TypeOK, RequestState
      <4>2. req[q].id = q /\ integration[req[q].on].id = q
        BY <4>1 DEF IInv, CreateInv
      <4>3. integration'[req[q].on].id = q
        BY <1>6, <2>5, <4>1, <4>2, EarlierAssumption
      <4>4. req[q].on # p
        BY <1>6, <4>2, EarlierAssumption
      <4>5. Its(req[q].on) = MadeWith(req[q].on)
        BY <2>5, <4>1, <4>4 DEF MadeWith, Its
      <4>6. QED
        BY <4>1, <4>2, <4>3, <4>5 DEF IInv, CreateInv
    <3>3. QED
      BY <3>1, <3>2
  <2>13. CompleteInv'
    <3> SUFFICES ASSUME faults = 0, NEW o \in All, integration'[o].id # "none", \A q \in Request : ~Makes(q, o)'
                 PROVE  \A k \in Its(o) : RowsOf(integration'[o].id, k) # {}
      BY <1>1, <2>18 DEF CompleteInv, Complete, RowsOf
    <3>1. CASE o = p
      <4>1. new.pc # "store"
        BY <2>2, <2>4, <2>5, <3>1 DEF Makes
      <4>2. Its(o) = {}
        BY <1>3, <2>2, <2>4, <2>5, <3>1, <4>1 DEF Its
      <4>3. QED
        BY <4>2
    <3>2. CASE o # p
      <4>1. integration'[o] = integration[o] /\ Its(o) = MadeWith(o)
        BY <2>5, <3>2 DEF MadeWith, Its
      <4>2. \A q \in Request : ~Makes(q, o)
        BY <1>3, <2>4, <4>1 DEF Makes
      <4>3. QED
        BY <4>1, <4>2 DEF IInv, CompleteInv, Complete
    <3>3. QED
      BY <3>1, <3>2
  <2>14. RotateInv'
    BY <1>1, <1>3, <2>2, <2>4, <2>5, ShopIsNoConnector DEF IInv, RotateInv, RowsOf
  <2>15. ShopInv'
    <3>1. integration'["ecommerce"] = integration["ecommerce"]
      BY <1>3, <2>5, ShopIsNoConnector
    <3>2. \A q \in Request : req'[q].op = "connect" => req'[q] = req[q]
      BY <2>2, <2>4
    <3>3. ASSUME NEW q \in Request, Makes(q, "ecommerce"), integration["ecommerce"].id # "none" PROVE Makes(q, "ecommerce")'
      BY <1>3, <2>4, <3>1, <3>3 DEF Makes
    <3>4. integration["ecommerce"].id = "none" => integration["ecommerce"].shop = "none"
      BY ShopIsNoConnector DEF IInv, IdsName, Absent
    <3>5. QED
      BY <1>1, <3>1, <3>2, <3>3, <3>4 DEF IInv, ShopInv
  <2>16. SecretsInv' /\ ReplacedSecretsAreGone'
    <3>1. ASSUME NEW q \in Request, ~(req'[q].pc = "over" \/ (req'[q].op = "create" /\ req'[q].pc = "store"))
          PROVE  ~(req[q].pc = "over" \/ (req[q].op = "create" /\ req[q].pc = "store"))
      BY <1>1, <2>2, <2>4, <3>1
    <3>2. SecretsInv'
      BY <1>1, <3>1 DEF IInv, SecretsInv
    <3>3. QED
      BY <1>1, <3>2 DEF IInv, ReplacedSecretsAreGone
  <2>17. QED
    BY <2>8, <2>9, <2>10, <2>11, <2>12, <2>13, <2>14, <2>15, <2>16 DEF IInv
<1>7. QED
  BY <1>5, <1>6

LEMMA UpsertShopKeeps ==
  ASSUME IInv, NEW r \in Request, UpsertShop(r)
  PROVE  IInv'
<1> DEFINE old == integration["ecommerce"]
           id == IF old.id = "none" THEN r ELSE old.id
           new == [req[r] EXCEPT !.pc = "clear", !.id = id]
           row == [id |-> id, status |-> "ACTIVE", shop |-> r, with |-> {}]
<1>1. /\ req[r].pc = "insert" /\ req[r].op = "connect" /\ InProgress(r)
      /\ UNCHANGED <<credential, superseded, faults, overlapped>>
      /\ Step(r, new) /\ integration' = [integration EXCEPT !["ecommerce"] = row]
  BY DEF UpsertShop, At, InProgress
<1>2. /\ CallsOfOps(req[r]) /\ req[r] \in RequestState /\ TypeOK
      /\ "ecommerce" \in All /\ "ecommerce" \notin Provider /\ r # "none"
  BY ShopIsNoConnector, EarlierAssumption DEF IInv, TypeOK
<1>3. /\ \A o \in All : integration[o].id # r
      /\ \A q \in Request : req[q].id # r
      /\ \A k \in AnyKey, s \in Secret : <<r, k, s>> \notin superseded
  BY <1>1 DEF IInv, IdsName
<1>4. old.id \in Maker /\ id \in Secret /\ id # "none" /\ (old.id # "none" => id = old.id) /\ (id = r \/ id = old.id)
  BY <1>2 DEF TypeOK, Maker, Secret
<1>5. new \in RequestState /\ row \in [id : Maker, status : Status, shop : Maker, with : SUBSET AnyKey]
  BY <1>2, <1>4 DEF RequestState, Label, Maker, Secret, Status
<1>6. /\ new.pc = "clear" /\ new.id = id /\ new.op = "connect" /\ new.on = "ecommerce"
      /\ row.id = id /\ row.shop = r
  BY <1>1, <1>2 DEF RequestState, CallsOfOps
<1> HIDE DEF new, row, id
<1>7. req' \in [Request -> RequestState] /\ req'[r] = new /\ \A q \in Request : q # r => req'[q] = req[q]
  BY <1>1, <1>2, <1>5, Stepped
<1>8. /\ integration' \in [All -> [id : Maker, status : Status, shop : Maker, with : SUBSET AnyKey]]
      /\ integration'["ecommerce"] = row /\ \A o \in All : o # "ecommerce" => integration'[o] = integration[o]
  BY <1>1, <1>2, <1>5 DEF TypeOK
<1>9. TypeOK'
  <2>1. ASSUME NEW c \in credential PROVE \E o \in All : integration'[o].id = c.of
    <3>1. PICK o \in All : integration[o].id = c.of
      BY <1>2 DEF TypeOK
    <3>2. c.of \in Secret
      BY <1>2 DEF TypeOK, CredentialRow
    <3>3. c.of # "none"
      BY <3>2, EarlierAssumption DEF Secret
    <3>4. integration'[o].id = c.of
      BY <1>4, <1>6, <1>8, <3>1, <3>3
    <3>5. QED
      BY <3>4
  <2>2. QED
    BY <1>1, <1>2, <1>7, <1>8, <2>1 DEF TypeOK
<1>10. \A q \in Request : CallsOfOps(req[q])'
  <2>1. CallsOfOps(new)
    BY <1>4, <1>6 DEF CallsOfOps
  <2>2. QED
    BY <1>7, <2>1 DEF IInv, CallsOfOps
<1>11. OverlapsAreSeen'
  BY <1>1, <1>6, <1>7, SeenBefore
<1>12. \A o \in All : o # "ecommerce" => integration[o].id # id
  BY <1>2, <1>3, <1>4 DEF IInv, IdsName
<1>13. IdsName'
  <2>1. \A s, o \in All : s # o /\ integration'[s].id # "none" => integration'[s].id # integration'[o].id
    BY <1>6, <1>8, <1>12 DEF IInv, IdsName
  <2>2. \A o \in All : integration'[o].id = "none" => integration'[o] = Absent
    BY <1>4, <1>6, <1>8 DEF IInv, IdsName
  <2>3. ASSUME NEW q \in Request, NEW o \in All, req'[q].id # "none", o # req'[q].on
        PROVE  integration'[o].id # req'[q].id
    <3>1. CASE q = r
      BY <1>6, <1>7, <1>8, <1>12, <2>3, <3>1
    <3>2. CASE q # r /\ o # "ecommerce"
      BY <1>7, <1>8, <2>3, <3>2 DEF IInv, IdsName
    <3>3. CASE q # r /\ o = "ecommerce"
      BY <1>3, <1>4, <1>6, <1>7, <1>8, <2>3, <3>3 DEF IInv, IdsName
    <3>4. QED
      BY <3>1, <3>2, <3>3
  <2>4. ASSUME NEW s \in Request, req'[s].pc \in {"idle", "insert"}
        PROVE  /\ \A o \in All : integration'[o].id # s
               /\ \A q \in Request : req'[q].id # s
               /\ \A k \in AnyKey, x \in Secret : <<s, k, x>> \notin superseded
    <3>1. s # r /\ req[s].pc \in {"idle", "insert"}
      BY <1>6, <1>7, <2>4
    <3>2. id # s
      BY <1>2, <1>4, <3>1 DEF IInv, IdsName
    <3>3. QED
      BY <1>6, <1>7, <1>8, <3>1, <3>2 DEF IInv, IdsName
  <2>5. QED
    BY <1>1, <2>1, <2>2, <2>3, <2>4 DEF IdsName
<1>20. (\A o \in All : MadeWith(o)' = MadeWith(o)) /\ \A q \in Request : req'[q].on \in All
  BY <1>7, <1>8 DEF MadeWith, RequestState
<1>14. CreateInv'
  <2> SUFFICES ASSUME NEW q \in Request, req'[q].op = "create", req'[q].pc = "store"
               PROVE  /\ req'[q].id = q /\ integration'[req'[q].on].id = q
                      /\ \A k \in MadeWith(req'[q].on) \ req'[q].left : RowsOf(req'[q].id, k) # {}
                      /\ {"create", "rotate"} \notin overlapped =>
                           \A k \in req'[q].left :
                             RowsOf(req'[q].id, k) = {} /\ \A s \in Secret : <<req'[q].id, k, s>> \notin superseded
    BY <1>1, <1>20 DEF CreateInv, RowsOf
  <2>1. req'[q] = req[q] /\ req[q].on \in All /\ req[q].on # "ecommerce"
    <3>1. q # r
      BY <1>6, <1>7
    <3>2. CallsOfOps(req[q]) /\ req[q] \in RequestState
      BY <1>2 DEF IInv, TypeOK
    <3>3. QED
      BY <1>2, <1>7, <3>1, <3>2, ShopIsNoConnector DEF CallsOfOps
  <2>2. QED
    BY SMTT(30), <1>8, <2>1 DEF IInv, CreateInv
<1>15. CompleteInv'
  <2> SUFFICES ASSUME faults = 0, NEW o \in All, integration'[o].id # "none", \A q \in Request : ~Makes(q, o)'
               PROVE  \A k \in MadeWith(o) : RowsOf(integration'[o].id, k) # {}
    BY <1>1, <1>20 DEF CompleteInv, Complete, RowsOf
  <2>1. o # "ecommerce"
    BY <1>6, <1>7, <1>8 DEF Makes
  <2>2. integration'[o] = integration[o] /\ req[r].id = "none"
    BY <1>1, <1>2, <1>8, <2>1 DEF CallsOfOps
  <2>3. \A q \in Request : ~Makes(q, o)
    BY <1>7, <2>2 DEF Makes
  <2>4. QED
    BY <2>2, <2>3 DEF IInv, CompleteInv, Complete
<1>16. RotateInv'
  <2> SUFFICES ASSUME NEW q \in Request, req'[q].op = "rotate", req'[q].pc = "write", req'[q].row = "none"
               PROVE  /\ overlapped = {} => RowsOf(req'[q].id, req'[q].key) = {}
                      /\ faults = 0 /\ req'[q].on = "ecommerce" /\ integration'["ecommerce"].id = req'[q].id =>
                           {"connect", "rotate"} \in overlapped
    BY <1>1 DEF RotateInv, RowsOf
  <2>1. q # r /\ req'[q] = req[q]
    BY <1>6, <1>7
  <2>2. integration'["ecommerce"].id = req[q].id => integration["ecommerce"].id = req[q].id
    BY <1>3, <1>4, <1>6, <1>8
  <2>3. QED
    BY <2>1, <2>2 DEF IInv, RotateInv
<1>17. ShopInv'
  <2> SUFFICES ASSUME {{"connect"}, {"connect", "rotate"}} \cap overlapped = {}
               PROVE  /\ \A q \in Request : req'[q].op = "connect" /\ req'[q].pc # "insert" =>
                           /\ req'[q].id = integration'["ecommerce"].id => integration'["ecommerce"].shop \in {q, "none"}
                           /\ req'[q].pc = "store" => \A c \in credential : c.of # req'[q].id
                      /\ \E q \in Request : Makes(q, "ecommerce")'
    BY <1>1 DEF ShopInv
  <2>1. ASSUME NEW q \in Request, req'[q].op = "connect" PROVE q = r
    <3> SUFFICES ASSUME q # r PROVE FALSE
      OBVIOUS
    <3>1. {req[q].op, req[r].op} = {"connect"}
      BY <1>1, <1>7, <2>1
    <3>2. QED
      BY <3>1, Races DEF Conflicts
  <2>2. Makes(r, "ecommerce")'
    BY <1>6, <1>7, <1>8 DEF Makes
  <2>3. QED
    BY <1>6, <1>7, <1>8, <2>1, <2>2
<1>18. SecretsInv' /\ ReplacedSecretsAreGone'
  <2>1. ASSUME NEW q \in Request, ~(req'[q].pc = "over" \/ (req'[q].op = "create" /\ req'[q].pc = "store"))
        PROVE  ~(req[q].pc = "over" \/ (req[q].op = "create" /\ req[q].pc = "store"))
    BY <1>1, <1>7, <2>1
  <2>2. SecretsInv'
    BY <1>1, <2>1 DEF IInv, SecretsInv
  <2>3. QED
    BY <1>1, <2>2 DEF IInv, ReplacedSecretsAreGone
<1>19. QED
  BY <1>9, <1>10, <1>11, <1>13, <1>14, <1>15, <1>16, <1>17, <1>18 DEF IInv

-----------------------------------------------------------------------------
(* Steps that write credentials.                                           *)

LEMMA Superseded ==
  ASSUME TypeOK, NEW id, NEW keys, TakePlaceOf(id, keys)
  PROVE  /\ superseded' \subseteq Secret \X AnyKey \X Secret
         /\ superseded \subseteq superseded'
         /\ \A i \in Secret, k \in AnyKey, x \in Secret : <<i, k, x>> \in superseded' =>
              \/ <<i, k, x>> \in superseded
              \/ i = id /\ k \in keys /\ \E c \in RowsOf(id, k) : c.secret = x
         /\ (\A k \in keys : RowsOf(id, k) = {}) => superseded' = superseded
<1> DEFINE placed == {c \in credential : c.of = id /\ c.key \in keys}
           triples == {<<c.of, c.key, c.secret>> : c \in placed}
<1>1. superseded' = superseded \cup triples
  BY DEF TakePlaceOf
<1>2. \A c \in placed : c.of \in Secret /\ c.key \in AnyKey /\ c.secret \in Secret /\ c \in RowsOf(id, c.key)
  BY DEF TypeOK, CredentialRow, RowsOf
<1>3. triples \subseteq Secret \X AnyKey \X Secret
  BY <1>2
<1>4. ASSUME NEW i \in Secret, NEW k \in AnyKey, NEW x \in Secret, <<i, k, x>> \in triples
      PROVE  i = id /\ k \in keys /\ \E c \in RowsOf(id, k) : c.secret = x
  <2>1. PICK c \in placed : <<i, k, x>> = <<c.of, c.key, c.secret>>
    BY <1>4
  <2>2. i = c.of /\ k = c.key /\ x = c.secret
    BY <2>1
  <2>3. QED
    BY <1>2, <2>2
<1>5. (\A k \in keys : RowsOf(id, k) = {}) => triples = {}
  BY <1>2
<1> HIDE DEF placed, triples
<1>6. superseded' \subseteq Secret \X AnyKey \X Secret /\ superseded \subseteq superseded'
  BY <1>1, <1>3 DEF TypeOK
<1>7. \A i \in Secret, k \in AnyKey, x \in Secret : <<i, k, x>> \in superseded' =>
        \/ <<i, k, x>> \in superseded
        \/ i = id /\ k \in keys /\ \E c \in RowsOf(id, k) : c.secret = x
  BY <1>1, <1>4
<1>8. QED
  BY <1>1, <1>5, <1>6, <1>7

LEMMA Inserted ==
  ASSUME TypeOK, NEW r \in Request, NEW id \in Secret, NEW keys \in SUBSET AnyKey, Insert(r, id, keys)
  PROVE  /\ credential' \subseteq CredentialRow /\ credential \subseteq credential'
         /\ \A c \in credential' : c \in credential \/ (c.of = id /\ c.key \in keys /\ c.by = r /\ c.secret = r)
         /\ \A k \in keys : \E c \in credential' : c.of = id /\ c.key = k
         /\ \A c, d \in credential' \ credential : c.key = d.key => c = d
<1> DEFINE Row(k) == [of |-> id, key |-> k, by |-> r, secret |-> r]
<1>1. credential' = credential \cup {Row(k) : k \in keys}
  BY DEF Insert
<1>2. \A k \in keys : Row(k) \in CredentialRow /\ Row(k).of = id /\ Row(k).key = k /\ Row(k).by = r /\ Row(k).secret = r
  BY DEF CredentialRow, Secret
<1> HIDE DEF Row
<1>3. credential \subseteq CredentialRow
  BY DEF TypeOK
<1>4. QED
  BY <1>1, <1>2, <1>3

(* What the writes of credentials have in common.                          *)
LEMMA CredentialsWritten ==
  ASSUME IInv, NEW r \in Request, NEW new \in RequestState, Step(r, new), UNCHANGED <<integration, faults, overlapped>>,
         InProgress(r), CallsOfOps(new), new.pc \notin {"idle", "insert"},
         \/ new.op = "none"
         \/ new.op = req[r].op /\ new.id = req[r].id /\ new.on = req[r].on,
         credential' \subseteq CredentialRow,
         \A c \in credential' : \/ \E d \in credential : c.of = d.of /\ c.secret = d.secret
                                \/ c.secret = r /\ \E p \in All : integration[p].id = c.of,
         new.pc = "over" \/ (new.op = "create" /\ new.pc = "store") \/ credential' \subseteq credential,
         superseded' \subseteq Secret \X AnyKey \X Secret,
         \A i \in Secret, k \in AnyKey, x \in Secret : <<i, k, x>> \in superseded' =>
           \/ <<i, k, x>> \in superseded
           \/ \E c \in credential : c.of = i /\ c.secret = x
  PROVE  /\ TypeOK' /\ OverlapsAreSeen' /\ IdsName' /\ \A q \in Request : CallsOfOps(req[q])'
         /\ \A q \in Request : ~(req'[q].pc = "over" \/ (req'[q].op = "create" /\ req'[q].pc = "store")) =>
              /\ \A c \in credential' : c.secret # q
              /\ \A i \in Secret, k \in AnyKey : <<i, k, q>> \notin superseded'
<1>1. req' \in [Request -> RequestState] /\ req'[r] = new /\ \A q \in Request : q # r => req'[q] = req[q]
  BY Stepped DEF IInv
<1>2. TypeOK'
  <2>1. \A c \in credential' : \E p \in All : integration[p].id = c.of
    BY DEF IInv, TypeOK
  <2>2. QED
    BY <1>1, <2>1 DEF IInv, TypeOK
<1>3. new.op = "none" => new.pc = "over" /\ new.id = "none"
  BY DEF CallsOfOps
<1>4. OverlapsAreSeen'
  BY <1>1, <1>3, SeenBefore
<1>5. \A q \in Request : CallsOfOps(req[q])'
  BY <1>1 DEF IInv, CallsOfOps
<1>6. IdsName'
  <2>1. ASSUME NEW q \in Request, NEW p \in All, req'[q].id # "none", p # req'[q].on
        PROVE  integration[p].id # req'[q].id
    BY <1>1, <1>3, <2>1 DEF IInv, IdsName
  <2>2. ASSUME NEW s \in Request, req'[s].pc \in {"idle", "insert"}
        PROVE  /\ \A p \in All : integration[p].id # s
               /\ \A q \in Request : req'[q].id # s
               /\ \A k \in AnyKey, x \in Secret : <<s, k, x>> \notin superseded'
    <3>1. s # r /\ req[s].pc \in {"idle", "insert"} /\ s # "none" /\ s \in Secret
      BY <1>1, <2>2, EarlierAssumption DEF Secret
    <3>2. \A p \in All : integration[p].id # s
      BY <3>1 DEF IInv, IdsName
    <3>3. \A q \in Request : req'[q].id # s
      BY <1>1, <1>3, <3>1 DEF IInv, IdsName
    <3>4. \A c \in credential : c.of # s
      BY <3>2 DEF IInv, TypeOK
    <3>5. \A k \in AnyKey, x \in Secret : <<s, k, x>> \notin superseded
      BY <3>1 DEF IInv, IdsName
    <3>6. QED
      BY <3>1, <3>2, <3>3, <3>4, <3>5
  <2>3. QED
    BY <2>1, <2>2 DEF IInv, IdsName
<1>7. ASSUME NEW q \in Request, ~(req'[q].pc = "over" \/ (req'[q].op = "create" /\ req'[q].pc = "store"))
      PROVE  /\ \A c \in credential' : c.secret # q
             /\ \A i \in Secret, k \in AnyKey : <<i, k, q>> \notin superseded'
  <2>1. ~(req[q].pc = "over" \/ (req[q].op = "create" /\ req[q].pc = "store"))
    BY <1>1, <1>3, <1>7 DEF InProgress, CallsOfOps
  <2>2. (\A c \in credential : c.secret # q) /\ \A i \in Secret, k \in AnyKey : <<i, k, q>> \notin superseded
    BY <2>1 DEF IInv, SecretsInv
  <2>3. q \in Secret
    BY DEF Secret
  <2>4. \A c \in credential' : c.secret # q
    <3>1. CASE q = r
      BY <1>1, <1>7, <2>2, <3>1
    <3>2. CASE q # r
      BY <2>2, <3>2
    <3>3. QED
      BY <3>1, <3>2
  <2>5. QED
    BY <2>2, <2>3, <2>4
<1>8. QED
  BY <1>2, <1>4, <1>5, <1>6, <1>7

(* The rows among S of an integration and a key.                           *)
Kind(S, id, k) == {c \in S : c.of = id /\ c.key = k}

LEMMA StoreCredentialKeeps ==
  ASSUME IInv, NEW r \in Request, StoreCredential(r)
  PROVE  IInv'
<1>1. /\ req[r].pc = "store" /\ req[r].op = "create" /\ InProgress(r)
      /\ UNCHANGED <<integration, faults, overlapped>>
  BY DEF StoreCredential, At, InProgress
<1>2. CallsOfOps(req[r]) /\ req[r] \in RequestState /\ TypeOK
  BY DEF IInv, TypeOK
<1> DEFINE p == req[r].on
<1>3. /\ p \in Provider /\ p \in All /\ p # "ecommerce" /\ "ecommerce" \in All
      /\ req[r].id = r /\ integration[p].id = r /\ r # "none" /\ r \in Secret /\ req[r].left \subseteq AnyKey
  BY <1>1, <1>2, ShopIsNoConnector, EarlierAssumption DEF CallsOfOps, IInv, CreateInv, RequestState, Secret
<1>4. PICK k \in req[r].left :
        /\ TakePlaceOf(r, {k}) /\ Insert(r, r, {k})
        /\ IF req[r].left = {k} THEN End(r) ELSE Step(r, [req[r] EXCEPT !.left = @ \ {k}])
  BY <1>3 DEF StoreCredential
<1>5. /\ credential' \subseteq CredentialRow /\ credential \subseteq credential'
      /\ \A c \in credential' : c \in credential \/ (c.of = r /\ c.key = k /\ c.by = r /\ c.secret = r)
      /\ \E c \in credential' : c.of = r /\ c.key = k
      /\ \A c, d \in credential' \ credential : c.key = d.key => c = d
  <2>1. {k} \in SUBSET AnyKey
    BY <1>3
  <2>2. QED
    BY <1>2, <1>3, <1>4, <2>1, Inserted
<1>6. /\ superseded' \subseteq Secret \X AnyKey \X Secret
      /\ \A i \in Secret, l \in AnyKey, x \in Secret : <<i, l, x>> \in superseded' =>
           \/ <<i, l, x>> \in superseded
           \/ i = r /\ l = k /\ \E c \in RowsOf(r, k) : c.secret = x
      /\ RowsOf(r, k) = {} => superseded' = superseded
  BY <1>2, <1>4, Superseded
<1> DEFINE new == IF req[r].left = {k} THEN Ended ELSE [req[r] EXCEPT !.left = @ \ {k}]
<1>7. new \in RequestState /\ Step(r, new)
  <2>1. CASE req[r].left = {k}
    BY <1>4, <2>1, EndedIsTyped DEF End, Ended
  <2>2. CASE req[r].left # {k}
    <3>1. req[r].left \ {k} \in SUBSET AnyKey
      BY <1>3
    <3>2. QED
      BY <1>2, <1>4, <2>2, <3>1 DEF RequestState
  <2>3. QED
    BY <2>1, <2>2
<1>8. \/ new = Ended /\ req[r].left = {k}
      \/ /\ new.pc = "store" /\ new.op = "create" /\ new.on = p /\ new.id = r /\ new.key = req[r].key
         /\ new.left = req[r].left \ {k}
  BY <1>1, <1>2, <1>3 DEF RequestState
<1> HIDE DEF new
<1>9. CallsOfOps(new) /\ new.pc \notin {"idle", "insert"}
  BY <1>3, <1>8, EndedIsPlaced, EndedIsTyped DEF CallsOfOps
<1>10. req' \in [Request -> RequestState] /\ req'[r] = new /\ \A q \in Request : q # r => req'[q] = req[q]
  BY <1>2, <1>7, Stepped
<1>11. /\ TypeOK' /\ OverlapsAreSeen' /\ IdsName' /\ \A q \in Request : CallsOfOps(req[q])'
       /\ \A q \in Request : ~(req'[q].pc = "over" \/ (req'[q].op = "create" /\ req'[q].pc = "store")) =>
            /\ \A c \in credential' : c.secret # q
            /\ \A i \in Secret, l \in AnyKey : <<i, l, q>> \notin superseded'
  <2>1. \/ new.op = "none"
        \/ new.op = req[r].op /\ new.id = req[r].id /\ new.on = req[r].on
    BY <1>1, <1>3, <1>8, EndedIsTyped
  <2>2. \A c \in credential' : \/ \E d \in credential : c.of = d.of /\ c.secret = d.secret
                               \/ c.secret = r /\ \E o \in All : integration[o].id = c.of
    BY <1>3, <1>5
  <2>3. new.pc = "over" \/ (new.op = "create" /\ new.pc = "store") \/ credential' \subseteq credential
    BY <1>8, EndedIsTyped
  <2>4. \A i \in Secret, l \in AnyKey, x \in Secret : <<i, l, x>> \in superseded' =>
          \/ <<i, l, x>> \in superseded
          \/ \E c \in credential : c.of = i /\ c.secret = x
    BY <1>6 DEF RowsOf
  <2>5. QED
    BY <1>1, <1>5, <1>6, <1>7, <1>9, <2>1, <2>2, <2>3, <2>4, CredentialsWritten
<1>12. /\ \A i, l : /\ RowsOf(i, l) \subseteq Kind(credential', i, l)
                    /\ (i # r \/ l # k) => Kind(credential', i, l) = RowsOf(i, l)
       /\ Kind(credential', r, k) # {}
  BY <1>5 DEF RowsOf, Kind
<1>13. CreateInv'
  <2> SUFFICES ASSUME NEW q \in Request, req'[q].op = "create", req'[q].pc = "store"
               PROVE  /\ req'[q].id = q /\ integration[req'[q].on].id = q
                      /\ \A l \in MadeWith(req'[q].on) \ req'[q].left : Kind(credential', req'[q].id, l) # {}
                      /\ {"create", "rotate"} \notin overlapped =>
                           \A l \in req'[q].left :
                             Kind(credential', req'[q].id, l) = {} /\ \A s \in Secret : <<req'[q].id, l, s>> \notin superseded'
    BY <1>1 DEF CreateInv, MadeWith, RowsOf, Kind
  <2>1. q \in Secret /\ req'[q].left \subseteq AnyKey
    BY <1>10 DEF Secret, RequestState
  <2>2. CASE q = r
    <3>1. new.op = "create" /\ new.id = r /\ new.on = p /\ new.left = req[r].left \ {k}
      BY <1>8, <1>10, <2>2, EndedIsTyped
    <3>2. \A l \in MadeWith(p) \ req[r].left : RowsOf(r, l) # {}
      BY <1>1, <1>3 DEF IInv, CreateInv
    <3>3. \A l \in MadeWith(p) \ new.left : Kind(credential', r, l) # {}
      BY <1>12, <3>1, <3>2
    <3>4. ASSUME {"create", "rotate"} \notin overlapped, NEW l \in new.left
          PROVE  Kind(credential', r, l) = {} /\ \A s \in Secret : <<r, l, s>> \notin superseded'
      <4>1. l # k /\ l \in req[r].left /\ l \in AnyKey
        BY <1>3, <3>1, <3>4
      <4>2. RowsOf(r, l) = {} /\ \A s \in Secret : <<r, l, s>> \notin superseded
        BY <1>1, <1>3, <3>4, <4>1 DEF IInv, CreateInv
      <4>3. QED
        BY <1>3, <1>6, <1>12, <4>1, <4>2
    <3>5. QED
      BY <1>3, <1>10, <2>2, <3>1, <3>3, <3>4
  <2>3. CASE q # r
    <3>1. req'[q] = req[q] /\ req[q].id = q
      BY <1>10, <2>3 DEF IInv, CreateInv
    <3>2. \A l : Kind(credential', q, l) = RowsOf(q, l)
      BY <1>12, <2>3
    <3>3. \A l \in AnyKey, s \in Secret : <<q, l, s>> \in superseded' => <<q, l, s>> \in superseded
      BY <1>6, <2>1, <2>3
    <3>4. QED
      BY <2>1, <3>1, <3>2, <3>3 DEF IInv, CreateInv
  <2>4. QED
    BY <2>2, <2>3
<1>14. CompleteInv'
  <2> SUFFICES ASSUME faults = 0, NEW o \in All, integration[o].id # "none", \A q \in Request : ~Makes(q, o)'
               PROVE  \A l \in MadeWith(o) : Kind(credential', integration[o].id, l) # {}
    BY <1>1 DEF CompleteInv, Complete, MadeWith, RowsOf, Kind
  <2>1. CASE Makes(r, o)
    <3>1. o = p
      BY <1>3, <2>1 DEF IInv, IdsName, Makes
    <3>2. req[r].left = {k}
      BY <1>1, <1>3, <1>8, <1>10, <3>1 DEF Makes
    <3>3. \A l \in MadeWith(p) \ {k} : RowsOf(r, l) # {}
      BY <1>1, <1>3, <3>2 DEF IInv, CreateInv
    <3>4. \A l \in MadeWith(p) : Kind(credential', r, l) # {}
      BY <1>12, <3>3
    <3>5. QED
      BY <1>3, <3>1, <3>4
  <2>2. CASE ~Makes(r, o)
    <3>1. \A q \in Request : ~Makes(q, o)
      BY <1>1, <1>10, <2>2 DEF Makes
    <3>2. Complete(o)
      BY <3>1 DEF IInv, CompleteInv
    <3>3. \A l : RowsOf(integration[o].id, l) \subseteq Kind(credential', integration[o].id, l)
      BY <1>12
    <3>4. QED
      BY <3>2, <3>3 DEF Complete
  <2>3. QED
    BY <2>1, <2>2
<1>15. RotateInv'
  <2> SUFFICES ASSUME NEW q \in Request, req'[q].op = "rotate", req'[q].pc = "write", req'[q].row = "none"
               PROVE  /\ overlapped # {}
                      /\ faults = 0 /\ req'[q].on = "ecommerce" /\ integration["ecommerce"].id = req'[q].id =>
                           {"connect", "rotate"} \in overlapped
    BY <1>1 DEF RotateInv, RowsOf
  <2>1. q # r /\ req'[q] = req[q]
    BY <1>8, <1>10, EndedIsTyped
  <2>2. {req[r].op, req[q].op} = {"create", "rotate"}
    BY <1>1, <2>1
  <2>3. overlapped # {}
    BY <2>1, <2>2, Races DEF Conflicts
  <2>4. QED
    BY <2>1, <2>3 DEF IInv, RotateInv
<1>16. ShopInv'
  <2> SUFFICES ASSUME {{"connect"}, {"connect", "rotate"}} \cap overlapped = {}
               PROVE  /\ \A q \in Request : req'[q].op = "connect" /\ req'[q].pc # "insert" =>
                           /\ req'[q].id = integration["ecommerce"].id => integration["ecommerce"].shop \in {q, "none"}
                           /\ req'[q].pc = "store" => \A c \in credential' : c.of # req'[q].id
                      /\ \/ faults # 0 \/ integration["ecommerce"].shop = "none"
                         \/ \E q \in Request : Makes(q, "ecommerce")'
                         \/ \A c \in credential' : c.of = integration["ecommerce"].id => c.by = integration["ecommerce"].shop
    BY <1>1 DEF ShopInv
  <2>1. integration["ecommerce"].id # r
    BY <1>3 DEF IInv, IdsName
  <2>2. ASSUME NEW q \in Request, req'[q].op = "connect", req'[q].pc # "insert"
        PROVE  /\ req'[q].id = integration["ecommerce"].id => integration["ecommerce"].shop \in {q, "none"}
               /\ req'[q].pc = "store" => \A c \in credential' : c.of # req'[q].id
    <3>1. q # r /\ req'[q] = req[q]
      BY <1>8, <1>10, <2>2, EndedIsTyped
    <3>2. CallsOfOps(req[q])
      BY DEF IInv
    <3>3. req[q].id # r
      BY <1>3, <2>2, <3>1, <3>2 DEF IInv, IdsName, CallsOfOps
    <3>4. QED
      BY <1>5, <2>2, <3>1, <3>3 DEF IInv, ShopInv
  <2>3. \A q \in Request : Makes(q, "ecommerce") => Makes(q, "ecommerce")'
    BY <1>1, <1>3, <1>10, <2>1 DEF Makes
  <2>4. QED
    BY <1>5, <2>1, <2>2, <2>3 DEF IInv, ShopInv
<1>17. ASSUME overlapped = {}
       PROVE  /\ \A c, d \in credential' : c.of = d.of /\ c.key = d.key => c = d
              /\ \A c \in credential' : <<c.of, c.key, c.secret>> \notin superseded'
  <2>1. RowsOf(r, k) = {} /\ \A s \in Secret : <<r, k, s>> \notin superseded
    BY <1>1, <1>3, <1>17 DEF IInv, CreateInv
  <2>2. \A c, d \in credential : c.of = d.of /\ c.key = d.key => c = d
    BY <1>17 DEF IInv, SecretsInv
  <2>3. \A c \in credential : ~(c.of = r /\ c.key = k)
    BY <2>1 DEF RowsOf
  <2>4. \A c \in credential : <<c.of, c.key, c.secret>> \notin superseded
    BY <1>17 DEF IInv, ReplacedSecretsAreGone
  <2>5. superseded' = superseded
    BY <1>6, <2>1
  <2>6. QED
    BY <1>3, <1>5, <2>1, <2>2, <2>3, <2>4, <2>5
<1>18. SecretsInv' /\ ReplacedSecretsAreGone'
  BY <1>1, <1>11, <1>17 DEF SecretsInv, ReplacedSecretsAreGone
<1>19. QED
  BY <1>11, <1>13, <1>14, <1>15, <1>16, <1>18 DEF IInv

(* What a rotation writes, to the row it found or to a new one.            *)
LEMMA RotationWrites ==
  ASSUME IInv, NEW r \in Request, RotateCredential(r), ~UNCHANGED <<credential, superseded>>
  PROVE  LET id == req[r].id
             key == req[r].key
         IN  /\ credential' \subseteq CredentialRow /\ id \in Secret /\ key \in AnyKey
             /\ \E o \in All : integration[o].id = id
             /\ TakePlaceOf(id, {key})
             /\ \A c \in credential' :
                  \/ c \in credential
                  \/ /\ c.of = id /\ c.key = key /\ c.secret = r
                     /\ \/ \E d \in credential : d.of = id /\ d.by = c.by
                        \/ req[r].row = "none" /\ There(req[r].on, id)
             /\ \A i, l : Kind(credential, i, l) # {} => Kind(credential', i, l) # {}
             /\ overlapped = {} =>
                  /\ \A c, d \in credential' : c.of = d.of /\ c.key = d.key => c = d
                  /\ \A c \in credential' : c.of = id /\ c.key = key => c.secret = r
<1> DEFINE id == req[r].id
           key == req[r].key
           found == {c \in RowsOf(id, key) : c.by = req[r].row}
<1>1. TypeOK /\ req[r] \in RequestState /\ req[r].pc = "write" /\ req[r].op = "rotate"
  BY DEF IInv, TypeOK, RotateCredential, At
<1>2. /\ key \in AnyKey /\ r \in Secret /\ req[r].on \in All
      /\ \A c \in credential : c \in CredentialRow /\ c.of \in Secret /\ \E o \in All : integration[o].id = c.of
  BY <1>1 DEF RequestState, Secret, TypeOK, CredentialRow
<1>3. TakePlaceOf(id, {key})
  BY DEF RotateCredential
<1>4. overlapped = {} => \A c, d \in credential : c.of = d.of /\ c.key = d.key => c = d
  BY DEF IInv, SecretsInv
<1>5. CASE req[r].row = "none"
  <2>1. There(req[r].on, id) /\ Insert(r, id, {key})
    BY <1>5 DEF RotateCredential
  <2>2. id \in Secret /\ integration[req[r].on].id = id
    BY <1>1, <1>2, <2>1 DEF There, TypeOK, Maker
  <2>3. /\ credential' \subseteq CredentialRow /\ credential \subseteq credential'
        /\ \A c \in credential' : c \in credential \/ (c.of = id /\ c.key \in {key} /\ c.by = r /\ c.secret = r)
        /\ \A k \in {key} : \E c \in credential' : c.of = id /\ c.key = k
        /\ \A c, d \in credential' \ credential : c.key = d.key => c = d
    <3>1. {key} \in SUBSET AnyKey
      BY <1>2
    <3>2. QED
      BY <1>1, <2>1, <2>2, <3>1, Inserted
  <2>4. overlapped = {} => \A c \in credential : ~(c.of = id /\ c.key = key)
    BY <1>1, <1>5 DEF IInv, RotateInv, RowsOf
  <2>5. overlapped = {} =>
          /\ \A c, d \in credential' : c.of = d.of /\ c.key = d.key => c = d
          /\ \A c \in credential' : c.of = id /\ c.key = key => c.secret = r
    BY <1>4, <2>3, <2>4
  <2>6. \A i, l : Kind(credential, i, l) # {} => Kind(credential', i, l) # {}
    BY <2>3 DEF Kind
  <2>7. QED
    BY <1>2, <1>3, <1>5, <2>1, <2>2, <2>3, <2>5, <2>6
<1>6. CASE req[r].row # "none"
  <2> DEFINE moved == {[c EXCEPT !.secret = r] : c \in found}
  <2>1. found # {} /\ credential' = (credential \ found) \cup moved
    BY <1>6 DEF RotateCredential
  <2>2. \A c \in found : c \in credential /\ c.of = id /\ c.key = key
    BY DEF RowsOf
  <2>3. \A c \in found : /\ [c EXCEPT !.secret = r] \in CredentialRow
                         /\ [c EXCEPT !.secret = r].of = id /\ [c EXCEPT !.secret = r].key = key
                         /\ [c EXCEPT !.secret = r].secret = r /\ [c EXCEPT !.secret = r].by = c.by
    BY <1>2, <2>2 DEF CredentialRow
  <2>4. \A m \in moved : /\ m \in CredentialRow /\ m.of = id /\ m.key = key /\ m.secret = r
                         /\ \E d \in found : m.by = d.by /\ m = [d EXCEPT !.secret = r]
    BY <2>3
  <2>5. moved # {}
    BY <2>1
  <2>6. overlapped = {} => /\ \A c \in credential : c.of = id /\ c.key = key => c \in found
                           /\ \A c, d \in found : c = d
    BY <1>4, <2>1, <2>2
  <2> HIDE DEF found, moved
  <2>7. id \in Secret /\ \E o \in All : integration[o].id = id
    BY <1>2, <2>1, <2>2
  <2>8. credential' \subseteq CredentialRow
    BY <1>2, <2>1, <2>4
  <2>9. \A c \in credential' :
          \/ c \in credential
          \/ c.of = id /\ c.key = key /\ c.secret = r /\ \E d \in credential : d.of = id /\ d.by = c.by
    BY <2>1, <2>2, <2>4
  <2>10. \A i, l : Kind(credential, i, l) # {} => Kind(credential', i, l) # {}
    <3> SUFFICES ASSUME NEW i, NEW l, NEW c \in credential, c.of = i, c.key = l
                 PROVE  \E d \in credential' : d.of = i /\ d.key = l
      BY DEF Kind
    <3>1. CASE c \in found
      BY <2>1, <2>2, <2>4, <2>5, <3>1
    <3>2. CASE c \notin found
      BY <2>1, <3>2
    <3>3. QED
      BY <3>1, <3>2
  <2>11. overlapped = {} =>
           /\ \A c, d \in credential' : c.of = d.of /\ c.key = d.key => c = d
           /\ \A c \in credential' : c.of = id /\ c.key = key => c.secret = r
    <3> SUFFICES ASSUME overlapped = {}
                 PROVE  /\ \A c, d \in credential' : c.of = d.of /\ c.key = d.key => c = d
                        /\ \A c \in credential' : c.of = id /\ c.key = key => c.secret = r
      OBVIOUS
    <3>1. \A c, d \in moved : c = d
      BY <2>4, <2>6
    <3>2. \A c \in credential \ found : ~(c.of = id /\ c.key = key)
      BY <2>6
    <3>3. QED
      BY <1>4, <2>1, <2>4, <3>1, <3>2
  <2>12. QED
    BY <1>2, <1>3, <2>7, <2>8, <2>9, <2>10, <2>11
<1>7. QED
  BY <1>5, <1>6

LEMMA RotateCredentialKeeps ==
  ASSUME IInv, NEW r \in Request, RotateCredential(r)
  PROVE  IInv'
<1>1. /\ req[r].pc = "write" /\ req[r].op = "rotate" /\ InProgress(r) /\ End(r)
      /\ UNCHANGED <<integration, faults, overlapped>>
  BY DEF RotateCredential, At, InProgress
<1>2. CASE UNCHANGED <<credential, superseded>>
  BY <1>1, <1>2, EndKeeps DEF rows
<1>3. CASE ~UNCHANGED <<credential, superseded>>
  <2> DEFINE id == req[r].id
             key == req[r].key
  <2>1. /\ credential' \subseteq CredentialRow /\ id \in Secret /\ key \in AnyKey
        /\ \E o \in All : integration[o].id = id
        /\ TakePlaceOf(id, {key})
        /\ \A c \in credential' :
             \/ c \in credential
             \/ /\ c.of = id /\ c.key = key /\ c.secret = r
                /\ \/ \E d \in credential : d.of = id /\ d.by = c.by
                   \/ req[r].row = "none" /\ There(req[r].on, id)
        /\ \A i, l : Kind(credential, i, l) # {} => Kind(credential', i, l) # {}
        /\ overlapped = {} =>
             /\ \A c, d \in credential' : c.of = d.of /\ c.key = d.key => c = d
             /\ \A c \in credential' : c.of = id /\ c.key = key => c.secret = r
    BY <1>3, RotationWrites
  <2>2. TypeOK /\ CallsOfOps(req[r])
    BY DEF IInv
  <2> HIDE DEF id, key
  <2>3. /\ superseded' \subseteq Secret \X AnyKey \X Secret
        /\ \A i \in Secret, l \in AnyKey, x \in Secret : <<i, l, x>> \in superseded' =>
             \/ <<i, l, x>> \in superseded
             \/ i = id /\ l = key /\ \E c \in RowsOf(id, key) : c.secret = x
    BY <2>1, <2>2, Superseded
  <2>4. Step(r, Ended)
    BY <1>1 DEF End, Ended
  <2>5. req'[r] = Ended /\ \A q \in Request : q # r => req'[q] = req[q]
    BY <2>2, <2>4, EndedIsTyped, Stepped
  <2>6. /\ TypeOK' /\ OverlapsAreSeen' /\ IdsName' /\ \A q \in Request : CallsOfOps(req[q])'
        /\ \A q \in Request : ~(req'[q].pc = "over" \/ (req'[q].op = "create" /\ req'[q].pc = "store")) =>
             /\ \A c \in credential' : c.secret # q
             /\ \A i \in Secret, l \in AnyKey : <<i, l, q>> \notin superseded'
    <3>1. \A i \in Secret, l \in AnyKey, x \in Secret : <<i, l, x>> \in superseded' =>
            \/ <<i, l, x>> \in superseded
            \/ \E c \in credential : c.of = i /\ c.secret = x
      BY <2>3 DEF RowsOf
    <3>2. \A c \in credential' : \/ \E d \in credential : c.of = d.of /\ c.secret = d.secret
                                 \/ c.secret = r /\ \E o \in All : integration[o].id = c.of
      BY <2>1
    <3>3. QED
      BY <1>1, <2>1, <2>3, <2>4, <3>1, <3>2, EndedIsTyped, EndedIsPlaced, CredentialsWritten
  <2>7. ASSUME NEW q \in Request, req[q].op \in {"create", "connect", "rotate"}, q # r
        PROVE  {"rotate", req[q].op} \in overlapped
    <3>1. {req[r].op, req[q].op} \in Conflicts
      BY <1>1, <2>7 DEF Conflicts
    <3>2. QED
      BY <1>1, <2>7, <3>1, Races
  <2>8. \A q \in Request : \A o : Makes(q, o)' <=> Makes(q, o)
    BY <1>1, <2>5, EndedIsTyped DEF Makes
  <2>9. CreateInv'
    <3> SUFFICES ASSUME NEW q \in Request, req'[q].op = "create", req'[q].pc = "store"
                 PROVE  /\ req'[q].id = q /\ integration[req'[q].on].id = q
                        /\ \A l \in MadeWith(req'[q].on) \ req'[q].left : Kind(credential', req'[q].id, l) # {}
                        /\ {"create", "rotate"} \in overlapped
      BY <1>1 DEF CreateInv, MadeWith, RowsOf, Kind
    <3>1. q # r /\ req'[q] = req[q]
      BY <2>5, EndedIsTyped
    <3>2. \A l \in MadeWith(req[q].on) \ req[q].left : Kind(credential, req[q].id, l) # {}
      BY <3>1 DEF IInv, CreateInv, RowsOf, Kind
    <3>3. {"create", "rotate"} \in overlapped
      BY <2>7, <3>1
    <3>4. QED
      BY <2>1, <3>1, <3>2, <3>3 DEF IInv, CreateInv
  <2>10. CompleteInv'
    <3> SUFFICES ASSUME faults = 0, NEW o \in All, integration[o].id # "none", \A q \in Request : ~Makes(q, o)'
                 PROVE  \A l \in MadeWith(o) : Kind(credential', integration[o].id, l) # {}
      BY <1>1 DEF CompleteInv, Complete, MadeWith, RowsOf, Kind
    <3>1. \A l \in MadeWith(o) : Kind(credential, integration[o].id, l) # {}
      BY <2>8 DEF IInv, CompleteInv, Complete, MadeWith, RowsOf, Kind
    <3>2. QED
      BY <2>1, <3>1
  <2>11. RotateInv'
    <3> SUFFICES ASSUME NEW q \in Request, req'[q].op = "rotate", req'[q].pc = "write", req'[q].row = "none"
                 PROVE  /\ overlapped # {}
                        /\ faults = 0 /\ req'[q].on = "ecommerce" /\ integration["ecommerce"].id = req'[q].id =>
                             {"connect", "rotate"} \in overlapped
      BY <1>1 DEF RotateInv, RowsOf
    <3>1. q # r /\ req'[q] = req[q]
      BY <2>5, EndedIsTyped
    <3>2. overlapped # {}
      BY <2>7, <3>1
    <3>3. QED
      BY <3>1, <3>2 DEF IInv, RotateInv
  <2>12. ShopInv'
    <3> SUFFICES ASSUME {{"connect"}, {"connect", "rotate"}} \cap overlapped = {}
                 PROVE  /\ \A q \in Request : req'[q].op # "connect"
                        /\ \/ faults # 0 \/ integration["ecommerce"].shop = "none"
                           \/ \E q \in Request : Makes(q, "ecommerce")'
                           \/ \A c \in credential' : c.of = integration["ecommerce"].id => c.by = integration["ecommerce"].shop
      BY <1>1 DEF ShopInv
    <3>1. \A q \in Request : req'[q].op # "connect"
      BY <2>5, <2>7, EndedIsTyped
    <3>2. ASSUME faults = 0, req[r].row = "none", There(req[r].on, id)
          PROVE  integration["ecommerce"].id # id
      <4>1. CASE req[r].on = "ecommerce"
        BY <1>1, <3>2, <4>1 DEF IInv, RotateInv, id
      <4>2. CASE req[r].on # "ecommerce"
        BY <3>2, <4>2, ShopIsNoConnector DEF There, IInv, IdsName, id
      <4>3. QED
        BY <4>1, <4>2
    <3>3. \/ faults # 0 \/ integration["ecommerce"].shop = "none"
          \/ \E q \in Request : Makes(q, "ecommerce")
          \/ \A c \in credential : c.of = integration["ecommerce"].id => c.by = integration["ecommerce"].shop
      BY DEF IInv, ShopInv
    <3>4. QED
      BY <2>1, <2>8, <3>1, <3>2, <3>3
  <2>13. ASSUME overlapped = {}
         PROVE  \A c \in credential' : <<c.of, c.key, c.secret>> \notin superseded'
    <3>1. \A l \in AnyKey, i \in Secret : <<i, l, r>> \notin superseded
      BY <1>1 DEF IInv, SecretsInv
    <3>2. \A c \in credential : c.secret # r
      BY <1>1 DEF IInv, SecretsInv
    <3>3. \A c \in credential : <<c.of, c.key, c.secret>> \notin superseded
      BY <2>13 DEF IInv, ReplacedSecretsAreGone
    <3>4. r \in Secret
      BY DEF Secret
    <3>5. ASSUME NEW c \in credential' PROVE <<c.of, c.key, c.secret>> \notin superseded'
      <4>1. c.of \in Secret /\ c.key \in AnyKey /\ c.secret \in Secret
        BY <2>1 DEF CredentialRow
      <4>2. CASE c.of = id /\ c.key = key
        <5>1. c.secret = r
          BY <2>1, <2>13, <4>2
        <5>2. \A d \in RowsOf(id, key) : d.secret # r
          BY <3>2 DEF RowsOf
        <5>3. QED
          BY <2>3, <3>1, <4>1, <5>1, <5>2
      <4>3. CASE ~(c.of = id /\ c.key = key)
        BY <2>1, <2>3, <3>3, <4>1, <4>3
      <4>4. QED
        BY <4>2, <4>3
    <3>6. QED
      BY <3>5
  <2>14. SecretsInv' /\ ReplacedSecretsAreGone'
    BY <1>1, <2>1, <2>6, <2>13 DEF SecretsInv, ReplacedSecretsAreGone
  <2>15. QED
    BY <2>6, <2>9, <2>10, <2>11, <2>12, <2>14 DEF IInv
<1>4. QED
  BY <1>2, <1>3

(* The rows of a shop are no connector's.                                  *)
LEMMA ShopsApart ==
  ASSUME IInv, NEW r \in Request, req[r].on = "ecommerce", req[r].id # "none"
  PROVE  /\ \A p \in All : p # "ecommerce" => integration[p].id # req[r].id
         /\ \A q \in Request : req[q].op = "create" /\ req[q].pc = "store" => q # req[r].id
<1>1. \A p \in All : p # "ecommerce" => integration[p].id # req[r].id
  BY DEF IInv, IdsName
<1>2. ASSUME NEW q \in Request, req[q].op = "create", req[q].pc = "store" PROVE q # req[r].id
  <2>1. integration[req[q].on].id = q /\ CallsOfOps(req[q])
    BY <1>2 DEF IInv, CreateInv
  <2>2. req[q].on \in All /\ req[q].on # "ecommerce"
    BY <1>2, <2>1, ShopIsNoConnector DEF CallsOfOps
  <2>3. QED
    BY <1>1, <2>1, <2>2
<1>3. QED
  BY <1>1, <1>2

LEMMA ClearCredentialsKeeps ==
  ASSUME IInv, NEW r \in Request, ClearCredentials(r)
  PROVE  IInv'
<1> DEFINE id == req[r].id
           new == [req[r] EXCEPT !.pc = "store"]
<1>1. /\ req[r].pc = "clear" /\ InProgress(r) /\ UNCHANGED <<integration, faults, overlapped>>
      /\ Step(r, new) /\ TakePlaceOf(id, Required("ecommerce"))
      /\ credential' = {c \in credential : c.of # id}
  BY DEF ClearCredentials, At, InProgress, Goto
<1>2. TypeOK /\ CallsOfOps(req[r]) /\ req[r] \in RequestState
  BY DEF IInv, TypeOK
<1>3. req[r].op = "connect" /\ req[r].on = "ecommerce" /\ id # "none"
  BY <1>1, <1>2 DEF CallsOfOps
<1>4. /\ new \in RequestState /\ new.pc = "store" /\ new.op = "connect" /\ new.on = "ecommerce" /\ new.id = id
  BY <1>2, <1>3 DEF RequestState, Label
<1>5. /\ superseded' \subseteq Secret \X AnyKey \X Secret
      /\ \A i \in Secret, l \in AnyKey, x \in Secret : <<i, l, x>> \in superseded' =>
           \/ <<i, l, x>> \in superseded
           \/ i = id /\ \E c \in credential : c.of = id /\ c.secret = x
  BY <1>1, <1>2, Superseded DEF RowsOf
<1>6. /\ \A p \in All : p # "ecommerce" => integration[p].id # id
      /\ \A q \in Request : req[q].op = "create" /\ req[q].pc = "store" => q # id
  BY <1>3, ShopsApart
<1> HIDE DEF new, id
<1>7. req'[r] = new /\ \A q \in Request : q # r => req'[q] = req[q]
  BY <1>1, <1>2, <1>4, Stepped
<1>8. \A c \in credential' : c \in credential /\ c.of # id /\ c \in CredentialRow
  BY <1>1, <1>2 DEF TypeOK
<1>9. \A i, l : i # id => Kind(credential', i, l) = Kind(credential, i, l)
  BY <1>1 DEF Kind
<1>10. /\ TypeOK' /\ OverlapsAreSeen' /\ IdsName' /\ \A q \in Request : CallsOfOps(req[q])'
       /\ \A q \in Request : ~(req'[q].pc = "over" \/ (req'[q].op = "create" /\ req'[q].pc = "store")) =>
            /\ \A c \in credential' : c.secret # q
            /\ \A i \in Secret, l \in AnyKey : <<i, l, q>> \notin superseded'
  <2>1. CallsOfOps(new)
    BY <1>3, <1>4 DEF CallsOfOps
  <2>2. new.op = req[r].op /\ new.id = req[r].id /\ new.on = req[r].on
    BY <1>3, <1>4 DEF id
  <2>3. \A i \in Secret, l \in AnyKey, x \in Secret : <<i, l, x>> \in superseded' =>
          \/ <<i, l, x>> \in superseded
          \/ \E c \in credential : c.of = i /\ c.secret = x
    BY <1>5
  <2>4. credential' \subseteq CredentialRow /\ credential' \subseteq credential
    BY <1>8
  <2>5. QED
    BY <1>1, <1>4, <1>5, <1>8, <2>1, <2>2, <2>3, <2>4, CredentialsWritten
<1>11. \A q \in Request : \A o : Makes(q, o)' <=> Makes(q, o)
  BY <1>1, <1>3, <1>4, <1>7 DEF Makes, id
<1>12. CreateInv'
  <2> SUFFICES ASSUME NEW q \in Request, req'[q].op = "create", req'[q].pc = "store"
               PROVE  /\ req'[q].id = q /\ integration[req'[q].on].id = q
                      /\ \A l \in MadeWith(req'[q].on) \ req'[q].left : Kind(credential', req'[q].id, l) # {}
                      /\ {"create", "rotate"} \notin overlapped =>
                           \A l \in req'[q].left :
                             Kind(credential', req'[q].id, l) = {} /\ \A s \in Secret : <<req'[q].id, l, s>> \notin superseded'
    BY <1>1 DEF CreateInv, MadeWith, RowsOf, Kind
  <2>1. req'[q] = req[q] /\ q # id /\ req[q].id = q /\ q \in Secret
    BY <1>4, <1>6, <1>7 DEF IInv, CreateInv, Secret
  <2>2. req[q].left \subseteq AnyKey
    BY <1>2 DEF TypeOK, RequestState
  <2>3. \A l : Kind(credential', q, l) = RowsOf(q, l)
    BY <1>9, <2>1 DEF Kind, RowsOf
  <2>4. \A l \in AnyKey, s \in Secret : <<q, l, s>> \in superseded' => <<q, l, s>> \in superseded
    BY <1>5, <2>1
  <2>5. QED
    BY <2>1, <2>2, <2>3, <2>4 DEF IInv, CreateInv
<1>13. CompleteInv'
  <2> SUFFICES ASSUME faults = 0, NEW o \in All, integration[o].id # "none", \A q \in Request : ~Makes(q, o)'
               PROVE  \A l \in MadeWith(o) : Kind(credential', integration[o].id, l) # {}
    BY <1>1 DEF CompleteInv, Complete, MadeWith, RowsOf, Kind
  <2>1. \A l \in MadeWith(o) : Kind(credential, integration[o].id, l) # {}
    BY <1>11 DEF IInv, CompleteInv, Complete, MadeWith, RowsOf, Kind
  <2>2. integration[o].id # id
    BY <1>3, <1>11 DEF Makes, id
  <2>3. QED
    BY <1>9, <2>1, <2>2
<1>14. RotateInv'
  <2>1. \A i, l : RowsOf(i, l) = {} => Kind(credential', i, l) = {}
    BY <1>8 DEF RowsOf, Kind
  <2> SUFFICES ASSUME NEW q \in Request, req'[q].op = "rotate", req'[q].pc = "write", req'[q].row = "none"
               PROVE  /\ overlapped = {} => Kind(credential', req'[q].id, req'[q].key) = {}
                      /\ faults = 0 /\ req'[q].on = "ecommerce" /\ integration["ecommerce"].id = req'[q].id =>
                           {"connect", "rotate"} \in overlapped
    BY <1>1 DEF RotateInv, RowsOf, Kind
  <2>2. req'[q] = req[q]
    BY <1>4, <1>7
  <2>3. QED
    BY <2>1, <2>2 DEF IInv, RotateInv
<1>15. ShopInv'
  <2> SUFFICES ASSUME {{"connect"}, {"connect", "rotate"}} \cap overlapped = {}
               PROVE  /\ \A q \in Request : req'[q].op = "connect" /\ req'[q].pc # "insert" =>
                           /\ req'[q].id = integration["ecommerce"].id => integration["ecommerce"].shop \in {q, "none"}
                           /\ req'[q].pc = "store" => \A c \in credential' : c.of # req'[q].id
                      /\ \/ faults # 0 \/ integration["ecommerce"].shop = "none"
                         \/ \E q \in Request : Makes(q, "ecommerce")'
                         \/ \A c \in credential' : c.of = integration["ecommerce"].id => c.by = integration["ecommerce"].shop
    BY <1>1 DEF ShopInv
  <2>1. ASSUME NEW q \in Request, req'[q].op = "connect", req'[q].pc # "insert"
        PROVE  /\ req'[q].id = integration["ecommerce"].id => integration["ecommerce"].shop \in {q, "none"}
               /\ req'[q].pc = "store" => \A c \in credential' : c.of # req'[q].id
    <3>1. CASE q = r
      BY <1>1, <1>3, <1>4, <1>7, <1>8, <3>1 DEF IInv, ShopInv, id
    <3>2. CASE q # r
      BY <1>7, <1>8, <2>1, <3>2 DEF IInv, ShopInv
    <3>3. QED
      BY <3>1, <3>2
  <2>2. \/ faults # 0 \/ integration["ecommerce"].shop = "none"
        \/ \E q \in Request : Makes(q, "ecommerce")
        \/ \A c \in credential : c.of = integration["ecommerce"].id => c.by = integration["ecommerce"].shop
    BY DEF IInv, ShopInv
  <2>3. QED
    BY <1>8, <1>11, <2>1, <2>2
<1>16. ASSUME overlapped = {}
       PROVE  /\ \A c, d \in credential' : c.of = d.of /\ c.key = d.key => c = d
              /\ \A c \in credential' : <<c.of, c.key, c.secret>> \notin superseded'
  <2>1. \A c, d \in credential' : c.of = d.of /\ c.key = d.key => c = d
    BY <1>8, <1>16 DEF IInv, SecretsInv
  <2>2. ASSUME NEW c \in credential' PROVE <<c.of, c.key, c.secret>> \notin superseded'
    <3>1. c.of \in Secret /\ c.key \in AnyKey /\ c.secret \in Secret
      BY <1>8 DEF CredentialRow
    <3>2. <<c.of, c.key, c.secret>> \notin superseded
      BY <1>8, <1>16 DEF IInv, ReplacedSecretsAreGone
    <3>3. QED
      BY <1>5, <1>8, <3>1, <3>2
  <2>3. QED
    BY <2>1, <2>2
<1>17. SecretsInv' /\ ReplacedSecretsAreGone'
  BY <1>1, <1>10, <1>16 DEF SecretsInv, ReplacedSecretsAreGone
<1>18. QED
  BY <1>10, <1>12, <1>13, <1>14, <1>15, <1>17 DEF IInv

(* The shop is stored for is gone: nothing is written.                     *)
LEMMA StoreShopRefused ==
  ASSUME IInv, NEW r \in Request, StoreShop(r), ~There("ecommerce", req[r].id)
  PROVE  IInv'
<1>1. /\ req[r].pc = "store" /\ req[r].op = "connect" /\ InProgress(r) /\ Step(r, Ended)
      /\ UNCHANGED <<rows, superseded, faults, overlapped>>
  BY DEF StoreShop, At, InProgress, End, Ended, rows
<1>2. TypeOK /\ CallsOfOps(req[r])
  BY DEF IInv
<1>3. req[r].on = "ecommerce" /\ req[r].id # "none"
  BY <1>1, <1>2 DEF CallsOfOps
<1>4. \A p \in All : integration[p].id # req[r].id
  BY <1>3, ShopsApart DEF There
<1>5. \A p \in All : integration[p].id # "none" => ~Makes(r, p)
  BY <1>4 DEF Makes
<1>6. req'[r] = Ended /\ \A q \in Request \ {r} : req'[q] = req[q]
  BY <1>1, <1>2, EndedIsTyped, Stepped
<1>7. OverlapsAreSeen'
  BY <1>1, <1>6, EndedIsTyped, SeenBefore
<1>8. faults \in 0..MaxFaults /\ overlapped \subseteq Conflicts /\ req[r].pc # "over"
  BY <1>1, <1>2 DEF TypeOK
<1>9. QED
  BY <1>1, <1>5, <1>7, <1>8, EndedIsTyped, EndedIsPlaced, RowsKept

LEMMA StoreShopKeeps ==
  ASSUME IInv, NEW r \in Request, StoreShop(r), There("ecommerce", req[r].id)
  PROVE  IInv'
<1> DEFINE id == req[r].id
           keys == Required("ecommerce")
<1>1. /\ req[r].pc = "store" /\ req[r].op = "connect" /\ InProgress(r)
      /\ UNCHANGED <<integration, faults, overlapped>>
      /\ Step(r, Ended) /\ TakePlaceOf(id, keys) /\ Insert(r, id, keys)
  BY DEF StoreShop, At, InProgress, End, Ended
<1>2. TypeOK /\ CallsOfOps(req[r]) /\ req[r] \in RequestState /\ "ecommerce" \in All
  BY ShopIsNoConnector DEF IInv, TypeOK
<1>3. /\ req[r].on = "ecommerce" /\ id # "none" /\ id \in Secret /\ integration["ecommerce"].id = id
      /\ keys \in SUBSET AnyKey
  BY <1>1, <1>2, KeysOfProviders DEF CallsOfOps, RequestState, Maker, There
<1>4. /\ superseded' \subseteq Secret \X AnyKey \X Secret
      /\ \A i \in Secret, l \in AnyKey, x \in Secret : <<i, l, x>> \in superseded' =>
           \/ <<i, l, x>> \in superseded
           \/ i = id /\ \E c \in credential : c.of = id /\ c.secret = x
      /\ (\A k \in keys : RowsOf(id, k) = {}) => superseded' = superseded
  BY <1>1, <1>2, Superseded DEF RowsOf
<1>5. /\ credential' \subseteq CredentialRow /\ credential \subseteq credential'
      /\ \A c \in credential' : c \in credential \/ (c.of = id /\ c.key \in keys /\ c.by = r /\ c.secret = r)
      /\ \A k \in keys : \E c \in credential' : c.of = id /\ c.key = k
      /\ \A c, d \in credential' \ credential : c.key = d.key => c = d
  BY <1>1, <1>2, <1>3, Inserted
<1>6. /\ \A p \in All : p # "ecommerce" => integration[p].id # id
      /\ \A q \in Request : req[q].op = "create" /\ req[q].pc = "store" => q # id
  BY <1>3, ShopsApart
<1>7. req'[r] = Ended /\ \A q \in Request : q # r => req'[q] = req[q]
  BY <1>1, <1>2, EndedIsTyped, Stepped
<1>8. {{"connect"}, {"connect", "rotate"}} \cap overlapped = {} => \A c \in credential : c.of # id
  BY <1>1 DEF IInv, ShopInv
<1> HIDE DEF id, keys
<1>9. \A i, l : /\ i # id => Kind(credential', i, l) = Kind(credential, i, l)
                /\ Kind(credential, i, l) # {} => Kind(credential', i, l) # {}
  BY <1>5 DEF Kind
<1>10. /\ TypeOK' /\ OverlapsAreSeen' /\ IdsName' /\ \A q \in Request : CallsOfOps(req[q])'
       /\ \A q \in Request : ~(req'[q].pc = "over" \/ (req'[q].op = "create" /\ req'[q].pc = "store")) =>
            /\ \A c \in credential' : c.secret # q
            /\ \A i \in Secret, l \in AnyKey : <<i, l, q>> \notin superseded'
  <2>1. \A c \in credential' : \/ \E d \in credential : c.of = d.of /\ c.secret = d.secret
                               \/ c.secret = r /\ \E o \in All : integration[o].id = c.of
    BY <1>2, <1>3, <1>5
  <2>2. \A i \in Secret, l \in AnyKey, x \in Secret : <<i, l, x>> \in superseded' =>
          \/ <<i, l, x>> \in superseded
          \/ \E c \in credential : c.of = i /\ c.secret = x
    BY <1>4
  <2>3. QED
    BY <1>1, <1>4, <1>5, <2>1, <2>2, EndedIsTyped, EndedIsPlaced, CredentialsWritten
<1>11. ASSUME NEW q \in Request, req[q].op \in {"connect", "rotate"}, q # r
       PROVE  {"connect", req[q].op} \in overlapped
  <2>1. {req[r].op, req[q].op} \in Conflicts
    BY <1>1, <1>11 DEF Conflicts
  <2>2. QED
    BY <1>1, <1>11, <2>1, Races
<1>12. \A q \in Request : \A o \in All : o # "ecommerce" => (Makes(q, o)' <=> Makes(q, o))
  BY <1>1, <1>6, <1>7, EndedIsTyped DEF Makes, id
<1>13. CreateInv'
  <2> SUFFICES ASSUME NEW q \in Request, req'[q].op = "create", req'[q].pc = "store"
               PROVE  /\ req'[q].id = q /\ integration[req'[q].on].id = q
                      /\ \A l \in MadeWith(req'[q].on) \ req'[q].left : Kind(credential', req'[q].id, l) # {}
                      /\ {"create", "rotate"} \notin overlapped =>
                           \A l \in req'[q].left :
                             Kind(credential', req'[q].id, l) = {} /\ \A s \in Secret : <<req'[q].id, l, s>> \notin superseded'
    BY <1>1 DEF CreateInv, MadeWith, RowsOf, Kind
  <2>1. req'[q] = req[q] /\ q # id /\ req[q].id = q /\ q \in Secret
    BY <1>6, <1>7, EndedIsTyped DEF IInv, CreateInv, Secret
  <2>2. req[q].left \subseteq AnyKey
    BY <1>2 DEF TypeOK, RequestState
  <2>3. \A l : Kind(credential', q, l) = RowsOf(q, l)
    BY <1>9, <2>1 DEF Kind, RowsOf
  <2>4. \A l \in AnyKey, s \in Secret : <<q, l, s>> \in superseded' => <<q, l, s>> \in superseded
    BY <1>4, <2>1
  <2>5. QED
    BY <2>1, <2>2, <2>3, <2>4 DEF IInv, CreateInv
<1>14. CompleteInv'
  <2> SUFFICES ASSUME faults = 0, NEW o \in All, integration[o].id # "none", \A q \in Request : ~Makes(q, o)'
               PROVE  \A l \in MadeWith(o) : Kind(credential', integration[o].id, l) # {}
    BY <1>1 DEF CompleteInv, Complete, MadeWith, RowsOf, Kind
  <2>1. CASE o = "ecommerce"
    BY <1>3, <1>5, <2>1 DEF MadeWith, Kind, keys
  <2>2. CASE o # "ecommerce"
    <3>1. \A l \in MadeWith(o) : Kind(credential, integration[o].id, l) # {}
      BY <1>12, <2>2 DEF IInv, CompleteInv, Complete, MadeWith, RowsOf, Kind
    <3>2. QED
      BY <1>9, <3>1
  <2>3. QED
    BY <2>1, <2>2
<1>15. RotateInv'
  <2> SUFFICES ASSUME NEW q \in Request, req'[q].op = "rotate", req'[q].pc = "write", req'[q].row = "none"
               PROVE  {"connect", "rotate"} \in overlapped
    BY <1>1 DEF RotateInv
  <2>1. q # r /\ req[q].op = "rotate"
    BY <1>7, EndedIsTyped
  <2>2. QED
    BY <1>11, <2>1
<1>16. ShopInv'
  <2> SUFFICES ASSUME {{"connect"}, {"connect", "rotate"}} \cap overlapped = {}
               PROVE  /\ \A q \in Request : req'[q].op # "connect"
                      /\ \/ integration["ecommerce"].shop = "none"
                         \/ \A c \in credential' : c.of = integration["ecommerce"].id => c.by = integration["ecommerce"].shop
    BY <1>1 DEF ShopInv
  <2>1. \A q \in Request : req'[q].op # "connect"
    <3> SUFFICES ASSUME NEW q \in Request, req'[q].op = "connect" PROVE FALSE
      OBVIOUS
    <3>1. q # r /\ req[q].op = "connect"
      BY <1>7, EndedIsTyped
    <3>2. {"connect", "connect"} \in overlapped
      BY <1>11, <3>1
    <3>3. QED
      BY <3>2
  <2>2. integration["ecommerce"].shop \in {r, "none"}
    BY <1>1, <1>3 DEF IInv, ShopInv, id
  <2>3. QED
    BY <1>3, <1>5, <1>8, <2>1, <2>2
<1>17. ASSUME overlapped = {}
       PROVE  /\ \A c, d \in credential' : c.of = d.of /\ c.key = d.key => c = d
              /\ \A c \in credential' : <<c.of, c.key, c.secret>> \notin superseded'
  <2>1. \A c \in credential : c.of # id
    BY <1>8, <1>17
  <2>2. \A c, d \in credential : c.of = d.of /\ c.key = d.key => c = d
    BY <1>17 DEF IInv, SecretsInv
  <2>3. superseded' = superseded
    BY <1>4, <2>1 DEF RowsOf
  <2>4. \A i \in Secret, l \in AnyKey : <<i, l, r>> \notin superseded
    BY <1>1 DEF IInv, SecretsInv
  <2>5. \A c \in credential : <<c.of, c.key, c.secret>> \notin superseded
    BY <1>17 DEF IInv, ReplacedSecretsAreGone
  <2>6. \A c \in credential' : c.of \in Secret /\ c.key \in AnyKey
    BY <1>5 DEF CredentialRow
  <2>7. \A c, d \in credential' : c.of = d.of /\ c.key = d.key => c = d
    BY <1>5, <2>1, <2>2
  <2>8. QED
    BY <1>5, <2>3, <2>4, <2>5, <2>6, <2>7
<1>18. SecretsInv' /\ ReplacedSecretsAreGone'
  BY <1>1, <1>10, <1>17 DEF SecretsInv, ReplacedSecretsAreGone
<1>19. QED
  BY <1>10, <1>13, <1>14, <1>15, <1>16, <1>18 DEF IInv

LEMMA DeleteShopKeeps ==
  ASSUME IInv, NEW r \in Request, DeleteShop(r)
  PROVE  IInv'
<1> DEFINE id == req[r].id
<1>1. /\ req[r].pc = "write" /\ req[r].op = "disconnect" /\ InProgress(r) /\ End(r) /\ Step(r, Ended)
      /\ UNCHANGED <<superseded, faults, overlapped>>
      /\ credential' = {c \in credential : c.of # id}
      /\ integration' = IF There("ecommerce", id) THEN [integration EXCEPT !["ecommerce"] = Absent] ELSE integration
  BY DEF DeleteShop, At, InProgress, End, Ended
<1>2. TypeOK /\ CallsOfOps(req[r]) /\ "ecommerce" \in All
  BY ShopIsNoConnector DEF IInv
<1>3. req[r].on = "ecommerce" /\ id # "none"
  BY <1>1, <1>2 DEF CallsOfOps
<1>4. /\ \A p \in All : p # "ecommerce" => integration[p].id # id
      /\ \A q \in Request : req[q].op = "create" /\ req[q].pc = "store" => q # id
  BY <1>3, ShopsApart
<1>5. CASE ~There("ecommerce", id)
  <2>1. \A p \in All : integration[p].id # id
    BY <1>3, <1>4, <1>5 DEF There
  <2>2. credential' = credential
    BY <1>1, <1>2, <2>1 DEF TypeOK
  <2>3. QED
    BY <1>1, <1>5, <2>2, EndKeeps DEF rows
<1>6. CASE There("ecommerce", id)
  <2> HIDE DEF id
  <2>1. Absent \in [id : Maker, status : Status, shop : Maker, with : SUBSET AnyKey] /\ Absent.id = "none" /\ Absent.shop = "none"
    BY DEF Absent, Maker, Status
  <2>2. /\ integration' \in [All -> [id : Maker, status : Status, shop : Maker, with : SUBSET AnyKey]]
        /\ integration'["ecommerce"] = Absent /\ \A o \in All : o # "ecommerce" => integration'[o] = integration[o]
        /\ integration["ecommerce"].id = id
    BY <1>1, <1>2, <1>6, <2>1 DEF TypeOK, There
  <2>3. req' \in [Request -> RequestState] /\ req'[r] = Ended /\ \A q \in Request : q # r => req'[q] = req[q]
    BY <1>1, <1>2, EndedIsTyped, Stepped
  <2>4. \A c \in credential' : c \in credential /\ c.of # id
    BY <1>1
  <2>5. \A i, l : /\ i # id => Kind(credential', i, l) = Kind(credential, i, l)
                  /\ Kind(credential, i, l) = {} => Kind(credential', i, l) = {}
    BY <1>1 DEF Kind
  <2>6. TypeOK'
    <3>1. ASSUME NEW c \in credential' PROVE \E o \in All : integration'[o].id = c.of
      <4>1. PICK o \in All : integration[o].id = c.of
        BY <1>2, <2>4 DEF TypeOK
      <4>2. QED
        BY <2>2, <2>4, <4>1
    <3>2. QED
      BY <1>1, <1>2, <2>2, <2>3, <2>4, <3>1 DEF TypeOK
  <2>7. \A q \in Request : CallsOfOps(req[q])'
    BY <2>3, EndedIsPlaced DEF IInv, CallsOfOps
  <2>8. OverlapsAreSeen'
    BY <1>1, <2>3, EndedIsTyped, SeenBefore
  <2>9. IdsName'
    <3>1. \A s, o \in All : s # o /\ integration'[s].id # "none" => integration'[s].id # integration'[o].id
      BY <2>1, <2>2 DEF IInv, IdsName
    <3>2. \A o \in All : integration'[o].id = "none" => integration'[o] = Absent
      BY <2>2 DEF IInv, IdsName
    <3>3. \A q \in Request, o \in All : req'[q].id # "none" /\ o # req'[q].on => integration'[o].id # req'[q].id
      BY <2>1, <2>2, <2>3, EndedIsTyped DEF IInv, IdsName
    <3>4. ASSUME NEW s \in Request, req'[s].pc \in {"idle", "insert"}
          PROVE  /\ \A o \in All : integration'[o].id # s
                 /\ \A q \in Request : req'[q].id # s
                 /\ \A k \in AnyKey, x \in Secret : <<s, k, x>> \notin superseded
      <4>1. s # r /\ req[s].pc \in {"idle", "insert"} /\ s # "none"
        BY <2>3, <3>4, EndedIsTyped, EarlierAssumption
      <4>2. QED
        BY <2>1, <2>2, <2>3, <4>1, EndedIsTyped DEF IInv, IdsName
    <3>5. QED
      BY <1>1, <3>1, <3>2, <3>3, <3>4 DEF IdsName
  <2>16. \A q \in Request : req'[q].on \in All
    BY <2>3 DEF RequestState
  <2>17. \A o \in All : MadeWith(o)' = IF o = "ecommerce" THEN Required(o) ELSE integration[o].with
    BY <2>2 DEF MadeWith
  <2>18. \A o \in All : MadeWith(o)' = MadeWith(o)
    BY <2>17 DEF MadeWith
  <2>10. CreateInv'
    <3> SUFFICES ASSUME NEW q \in Request, req'[q].op = "create", req'[q].pc = "store"
                 PROVE  /\ req'[q].id = q /\ integration'[req'[q].on].id = q
                        /\ \A l \in MadeWith(req'[q].on) \ req'[q].left : Kind(credential', req'[q].id, l) # {}
                        /\ {"create", "rotate"} \notin overlapped =>
                             \A l \in req'[q].left :
                               Kind(credential', req'[q].id, l) = {} /\ \A s \in Secret : <<req'[q].id, l, s>> \notin superseded
      BY <1>1, <2>16, <2>18 DEF CreateInv, RowsOf, Kind
    <3>1. req'[q] = req[q] /\ q # id /\ req[q].id = q /\ CallsOfOps(req[q])
      BY <1>4, <2>3, EndedIsTyped DEF IInv, CreateInv
    <3>2. req[q].on \in All /\ req[q].on # "ecommerce"
      BY <3>1, ShopIsNoConnector DEF CallsOfOps
    <3>3. \A l : Kind(credential', q, l) = RowsOf(q, l)
      BY <2>5, <3>1 DEF Kind, RowsOf
    <3>4. QED
      BY SMTT(30), <2>2, <3>1, <3>2, <3>3 DEF IInv, CreateInv
  <2>11. CompleteInv'
    <3> SUFFICES ASSUME faults = 0, NEW o \in All, integration'[o].id # "none", \A q \in Request : ~Makes(q, o)'
                 PROVE  \A l \in MadeWith(o) : Kind(credential', integration'[o].id, l) # {}
      BY <1>1, <2>18 DEF CompleteInv, Complete, RowsOf, Kind
    <3>1. integration'[o] = integration[o] /\ integration[o].id # id
      BY <1>4, <2>1, <2>2
    <3>2. \A q \in Request : ~Makes(q, o)
      BY <1>1, <2>3, <3>1 DEF Makes
    <3>3. \A l \in MadeWith(o) : Kind(credential, integration[o].id, l) # {}
      BY <3>1, <3>2 DEF IInv, CompleteInv, Complete, MadeWith, RowsOf, Kind
    <3>4. QED
      BY <2>5, <3>1, <3>3
  <2>12. RotateInv'
    <3> SUFFICES ASSUME NEW q \in Request, req'[q].op = "rotate", req'[q].pc = "write", req'[q].row = "none"
                 PROVE  /\ overlapped = {} => Kind(credential', req'[q].id, req'[q].key) = {}
                        /\ integration'["ecommerce"].id # req'[q].id
      BY <1>1 DEF RotateInv, RowsOf, Kind
    <3>1. req'[q] = req[q] /\ CallsOfOps(req[q])
      BY <2>3, EndedIsTyped DEF IInv
    <3>2. integration'["ecommerce"].id # req[q].id
      BY <2>1, <2>2, <3>1 DEF CallsOfOps
    <3>3. overlapped = {} => Kind(credential, req[q].id, req[q].key) = {}
      BY <3>1 DEF IInv, RotateInv, RowsOf, Kind
    <3>4. QED
      BY <2>5, <3>1, <3>2, <3>3
  <2>13. ShopInv'
    <3> SUFFICES ASSUME {{"connect"}, {"connect", "rotate"}} \cap overlapped = {},
                        NEW q \in Request, req'[q].op = "connect", req'[q].pc # "insert"
                 PROVE  /\ req'[q].id # integration'["ecommerce"].id
                        /\ req'[q].pc = "store" => \A c \in credential' : c.of # req'[q].id
      BY <1>1, <2>1, <2>2 DEF ShopInv
    <3>1. req'[q] = req[q] /\ CallsOfOps(req[q])
      BY <2>3, EndedIsTyped DEF IInv
    <3>2. req[q].id # "none"
      BY <3>1 DEF CallsOfOps
    <3>3. QED
      BY <2>1, <2>2, <2>4, <3>1, <3>2 DEF IInv, ShopInv
  <2>14. SecretsInv' /\ ReplacedSecretsAreGone'
    <3>1. ASSUME NEW q \in Request, ~(req'[q].pc = "over" \/ (req'[q].op = "create" /\ req'[q].pc = "store"))
          PROVE  ~(req[q].pc = "over" \/ (req[q].op = "create" /\ req[q].pc = "store"))
      BY <2>3, <3>1, EndedIsTyped
    <3>2. SecretsInv'
      BY <1>1, <2>4, <3>1 DEF IInv, SecretsInv
    <3>3. QED
      BY <1>1, <2>4, <3>2 DEF IInv, ReplacedSecretsAreGone
  <2>15. QED
    BY <2>6, <2>7, <2>8, <2>9, <2>10, <2>11, <2>12, <2>13, <2>14 DEF IInv
<1>7. QED
  BY <1>5, <1>6

-----------------------------------------------------------------------------
(* The invariant is inductive, and what it implies.                        *)

LEMMA InitHolds == Init => IInv
<1> SUFFICES ASSUME Init PROVE IInv
  OBVIOUS
<1> DEFINE secrets(l) == {[of |-> Earlier, key |-> k, by |-> Earlier, secret |-> Earlier] : k \in l}
<1>1. PICK p \in All, keys \in SUBSET AnyKey, there \in BOOLEAN :
        /\ keys \in Brought(p)
        /\ integration = [q \in All |-> IF there /\ q = p THEN Made(Earlier, p, keys) ELSE Absent]
        /\ credential = IF there THEN secrets(keys) ELSE {}
  <2>1. CASE integration = [q \in All |-> Absent] /\ credential = {}
    <3>1. Required("ecommerce") \in Brought("ecommerce") /\ Required("ecommerce") \in SUBSET AnyKey
      BY KeysOfProviders, ShopIsNoConnector DEF Brought
    <3>2. integration = [q \in All |-> IF FALSE /\ q = "ecommerce" THEN Made(Earlier, "ecommerce", Required("ecommerce")) ELSE Absent]
      BY <2>1
    <3>3. credential = IF FALSE THEN secrets(Required("ecommerce")) ELSE {}
      BY <2>1
    <3> HIDE DEF secrets
    <3>4. QED
      BY <3>1, <3>2, <3>3, ShopIsNoConnector
  <2>2. ASSUME NEW p \in All, NEW keys \in Brought(p),
               integration = [q \in All |-> IF q = p THEN Made(Earlier, p, keys) ELSE Absent],
               credential = secrets(keys)
        PROVE  \E q \in All, l \in SUBSET AnyKey, there \in BOOLEAN :
                 /\ l \in Brought(q)
                 /\ integration = [o \in All |-> IF there /\ o = q THEN Made(Earlier, q, l) ELSE Absent]
                 /\ credential = IF there THEN secrets(l) ELSE {}
    <3>1. keys \in SUBSET AnyKey
      BY KeysOfProviders DEF Brought
    <3>2. integration = [q \in All |-> IF TRUE /\ q = p THEN Made(Earlier, p, keys) ELSE Absent]
      BY <2>2
    <3>3. credential = IF TRUE THEN secrets(keys) ELSE {}
      BY <2>2
    <3> HIDE DEF secrets
    <3>4. QED
      BY <3>1, <3>2, <3>3
  <2>3. (integration = [q \in All |-> Absent] /\ credential = {})
        \/ \E p \in All : \E keys \in Brought(p) :
             /\ integration = [q \in All |-> IF q = p THEN Made(Earlier, p, keys) ELSE Absent]
             /\ credential = secrets(keys)
    BY DEF Init
  <2> HIDE DEF secrets
  <2>4. QED
    BY <2>1, <2>2, <2>3
<1> DEFINE old(q) == Made(Earlier, q, keys)
<1>2. \A r \in Request : req[r] = Idle
  BY DEF Init
<1>3. req \in [Request -> RequestState] /\ faults = 0 /\ superseded = {} /\ overlapped = {}
  BY IdleIsTyped DEF Init
<1>4. Earlier \in Secret /\ Secret \subseteq Maker /\ "none" \in Maker /\ Earlier # "none" /\ Earlier \notin Request
  BY EarlierAssumption DEF Secret, Maker
<1>5. /\ Absent \in [id : Maker, status : Status, shop : Maker, with : SUBSET AnyKey] /\ Absent.id = "none" /\ Absent.shop = "none"
      /\ old(p) \in [id : Maker, status : Status, shop : Maker, with : SUBSET AnyKey] /\ old(p).id = Earlier
      /\ old(p).shop \in {Earlier, "none"} /\ (p # "ecommerce" => old(p).with = keys)
  BY <1>4 DEF Absent, Made, Status
<1>6. \A o \in All : /\ there /\ o = p => integration[o] = old(p)
                     /\ ~(there /\ o = p) => integration[o] = Absent
  BY <1>1
<1>21. DOMAIN integration = All /\ integration = [q \in All |-> integration[q]]
  BY <1>1
<1> HIDE DEF old
<1>7. \A c \in credential :
        there /\ c.of = Earlier /\ c.by = Earlier /\ c.secret = Earlier /\ c \in CredentialRow
  BY <1>1, <1>4 DEF CredentialRow
<1>8. there => \A k \in keys : RowsOf(Earlier, k) # {}
  <2> SUFFICES ASSUME there, NEW k \in keys PROVE RowsOf(Earlier, k) # {}
    OBVIOUS
  <2>1. [of |-> Earlier, key |-> k, by |-> Earlier, secret |-> Earlier] \in credential
    BY <1>1
  <2>2. QED
    BY <2>1 DEF RowsOf
<1>9. \A c, d \in credential : c.of = d.of /\ c.key = d.key => c = d
  BY <1>1
<1> HIDE DEF secrets
<1>10. TypeOK
  <2>1. \A c \in credential : \E o \in All : integration[o].id = c.of
    BY <1>5, <1>6, <1>7
  <2>2. integration \in [All -> [id : Maker, status : Status, shop : Maker, with : SUBSET AnyKey]]
    BY <1>5, <1>6, <1>21
  <2>3. credential \subseteq CredentialRow /\ faults \in 0..MaxFaults
    BY <1>3, <1>7, FaultsAssumption
  <2>4. QED
    BY <1>3, <2>1, <2>2, <2>3 DEF TypeOK
<1>11. \A r \in Request : req[r].pc = "idle" /\ req[r].op = "none" /\ req[r].id = "none"
  BY <1>2, IdleIsTyped
<1>12. OverlapsAreSeen
  BY <1>11 DEF OverlapsAreSeen, InProgress
<1>13. IdsName
  <2>1. \A q, o \in All : q # o /\ integration[q].id # "none" => integration[q].id # integration[o].id
    BY <1>4, <1>5, <1>6
  <2>2. \A o \in All : integration[o].id = "none" => integration[o] = Absent
    BY <1>4, <1>5, <1>6
  <2>3. \A r \in Request, o \in All : integration[o].id # r
    BY <1>4, <1>5, <1>6, EarlierAssumption
  <2>4. QED
    BY <1>3, <1>11, <2>1, <2>2, <2>3, EarlierAssumption DEF IdsName
<1>14. CompleteInv
  <2> SUFFICES ASSUME NEW o \in All, integration[o].id # "none" PROVE Complete(o)
    BY DEF CompleteInv
  <2>1. there /\ o = p /\ integration[o].id = Earlier
    BY <1>5, <1>6
  <2>2. MadeWith(o) = keys
    <3>1. CASE o = "ecommerce"
      BY <1>1, <2>1, <3>1 DEF MadeWith, Brought
    <3>2. CASE o # "ecommerce"
      BY <1>5, <1>6, <2>1, <3>2 DEF MadeWith
    <3>3. QED
      BY <3>1, <3>2
  <2>3. QED
    BY <1>8, <2>1, <2>2 DEF Complete
<1>15. ShopInv
  <2>1. integration["ecommerce"].shop = "none" \/ \A c \in credential : c.by = integration["ecommerce"].shop
    <3>1. integration["ecommerce"].shop \in {Earlier, "none"}
      BY <1>5, <1>6, ShopIsNoConnector
    <3>2. QED
      BY <1>7, <3>1
  <2>2. QED
    BY <1>11, <2>1 DEF ShopInv
<1>16. SecretsInv
  BY <1>3, <1>4, <1>7, <1>9 DEF SecretsInv
<1>17. CreateInv /\ RotateInv /\ ReplacedSecretsAreGone
  BY <1>3, <1>11 DEF CreateInv, RotateInv, ReplacedSecretsAreGone
<1>18. CallsOfOps(Idle)
  BY IdleIsTyped DEF CallsOfOps
<1>19. \A r \in Request : CallsOfOps(req[r])
  BY <1>2, <1>18
<1>20. QED
  BY <1>10, <1>12, <1>13, <1>14, <1>15, <1>16, <1>17, <1>19 DEF IInv

LEMMA StutterKeeps == IInv /\ UNCHANGED vars => IInv'
<1> SUFFICES ASSUME IInv, UNCHANGED vars PROVE IInv'
  OBVIOUS
<1>1. /\ integration' = integration /\ credential' = credential /\ req' = req /\ faults' = faults
      /\ superseded' = superseded /\ overlapped' = overlapped
  BY DEF vars, rows
<1>2. TypeOK' /\ OverlapsAreSeen' /\ IdsName' /\ ReplacedSecretsAreGone' /\ \A r \in Request : CallsOfOps(req[r])'
  BY <1>1 DEF IInv, TypeOK, OverlapsAreSeen, IdsName, ReplacedSecretsAreGone, CallsOfOps, InProgress
<1>3. CreateInv' /\ RotateInv' /\ SecretsInv'
  BY <1>1 DEF IInv, CreateInv, RotateInv, SecretsInv, MadeWith, RowsOf
<1>4. CompleteInv' /\ ShopInv'
  BY <1>1 DEF IInv, CompleteInv, Complete, MadeWith, ShopInv, Makes, RowsOf
<1>5. QED
  BY <1>2, <1>3, <1>4 DEF IInv

LEMMA NextKeeps == IInv /\ Next => IInv'
<1> SUFFICES ASSUME IInv, Next PROVE IInv'
  OBVIOUS
<1>1. PICK r \in Request : Begins(r) \/ Continues(r)
  BY DEF Next
<1>2. CASE Begins(r)
  BY <1>2, BeginsKeep
<1>3. CASE Continues(r)
  <2>1. CASE StoreShop(r)
    BY <2>1, StoreShopRefused, StoreShopKeeps
  <2>2. CASE InsertIntegration(r) \/ StoreCredential(r) \/ get(r) \/ FindCredential(r) \/ RotateCredential(r)
    BY <2>2, InsertIntegrationKeeps, StoreCredentialKeeps, GetKeeps, FindCredentialKeeps, RotateCredentialKeeps
  <2>3. CASE WriteIntegration(r) \/ RecordTest(r) \/ resolve(r) \/ ReadCredentials(r) \/ Call(r) \/ CallShop(r)
    BY <2>3, WriteIntegrationKeeps, CallingKeeps
  <2>4. CASE UpsertShop(r) \/ ClearCredentials(r) \/ DeleteShop(r) \/ Reject(r)
    BY <2>4, UpsertShopKeeps, ClearCredentialsKeeps, DeleteShopKeeps, RejectKeeps
  <2>5. QED
    BY <1>3, <2>1, <2>2, <2>3, <2>4 DEF Continues
<1>4. QED
  BY <1>1, <1>2, <1>3

LEMMA Inductive == Spec => []IInv
<1>1. IInv /\ [Next]_vars => IInv'
  BY NextKeeps, StutterKeeps
<1>2. QED
  BY InitHolds, <1>1, PTL DEF Spec

(* Who makes an integration is in progress on its provider.                *)
LEMMA QuietIsUnmade ==
  ASSUME IInv, NEW p \in All, Quiet(p), integration[p].id # "none"
  PROVE  \A r \in Request : ~Makes(r, p)
<1> SUFFICES ASSUME NEW r \in Request, Makes(r, p) PROVE FALSE
  OBVIOUS
<1>1. req[r].op \in {"create", "connect"} /\ req[r].id = integration[p].id
  BY DEF Makes
<1>2. InProgress(r)
  BY <1>1 DEF IInv, CallsOfOps, InProgress
<1>3. req[r].on = p
  BY <1>1 DEF IInv, IdsName
<1>4. QED
  BY <1>1, <1>2, <1>3 DEF Quiet

LEMMA SecretsKept == IInv => SecretsAreKept
<1> SUFFICES ASSUME IInv, faults = 0, NEW p \in All, integration[p].id # "none", Quiet(p)
             PROVE  Complete(p)
  BY DEF SecretsAreKept, Complete
<1>1. QED
  BY QuietIsUnmade DEF IInv, CompleteInv

LEMMA ShopKept == IInv /\ FirstSecrets => ShopIsOneShop
<1> SUFFICES ASSUME IInv, FirstSecrets, faults = 0, {{"connect"}, {"connect", "rotate"}} \cap overlapped = {},
                    Quiet("ecommerce"), integration["ecommerce"].shop # "none",
                    NEW c \in credential, c.of = integration["ecommerce"].id
             PROVE  /\ c.by = integration["ecommerce"].shop
                    /\ c.secret = integration["ecommerce"].shop
                       \/ <<c.of, c.key, integration["ecommerce"].shop>> \in superseded
  BY DEF ShopIsOneShop
<1>1. integration["ecommerce"].id # "none"
  BY ShopIsNoConnector DEF IInv, IdsName, Absent
<1>2. c.by = integration["ecommerce"].shop
  BY <1>1, QuietIsUnmade, ShopIsNoConnector DEF IInv, ShopInv
<1>3. QED
  BY <1>2 DEF FirstSecrets

(* What a step inserts has the secret it comes with, and what it replaces  *)
(* is noted; otherwise rows only go.                                       *)
LEMMA FirstSecretsStart == Init => FirstSecrets
  BY DEF Init, FirstSecrets

LEMMA InsertedAreFirst ==
  ASSUME FirstSecrets, NEW r, NEW id, NEW keys, Insert(r, id, keys), superseded \subseteq superseded'
  PROVE  FirstSecrets'
<1> SUFFICES ASSUME NEW c \in credential' PROVE c.secret = c.by \/ <<c.of, c.key, c.by>> \in superseded'
  BY DEF FirstSecrets
<1>1. CASE c \in credential
  BY <1>1 DEF FirstSecrets
<1>2. CASE c \notin credential
  <2>1. PICK k \in keys : c = [of |-> id, key |-> k, by |-> r, secret |-> r]
    BY <1>2 DEF Insert
  <2>2. QED
    BY <2>1
<1>3. QED
  BY <1>1, <1>2

LEMMA FirstSecretsRotate ==
  ASSUME FirstSecrets, TypeOK, NEW r \in Request, RotateCredential(r)
  PROVE  FirstSecrets'
<1> DEFINE q == req[r]
           found == {c \in RowsOf(q.id, q.key) : c.by = q.row}
<1>1. CASE UNCHANGED <<credential, superseded>>
  BY <1>1 DEF FirstSecrets
<1>2. CASE TakePlaceOf(q.id, {q.key}) /\ Insert(r, q.id, {q.key})
  BY <1>2, InsertedAreFirst DEF TakePlaceOf
<1>3. CASE /\ TakePlaceOf(q.id, {q.key})
           /\ credential' = (credential \ found) \cup {[c EXCEPT !.secret = r] : c \in found}
  <2>1. superseded \subseteq superseded' /\ \A c \in found : <<c.of, c.key, c.secret>> \in superseded'
    BY <1>3 DEF TakePlaceOf, RowsOf
  <2> SUFFICES ASSUME NEW c \in credential' PROVE c.secret = c.by \/ <<c.of, c.key, c.by>> \in superseded'
    BY DEF FirstSecrets
  <2>2. CASE c \in credential \ found
    BY <2>1, <2>2 DEF FirstSecrets
  <2>3. CASE c \notin credential \ found
    <3>1. PICK d \in found : c = [d EXCEPT !.secret = r]
      BY <1>3, <2>3
    <3>2. d \in credential /\ d \in CredentialRow
      BY DEF RowsOf, TypeOK
    <3>3. c.of = d.of /\ c.key = d.key /\ c.by = d.by
      BY <3>1, <3>2 DEF CredentialRow
    <3>4. d.secret = d.by \/ <<d.of, d.key, d.by>> \in superseded
      BY <3>2 DEF FirstSecrets
    <3>5. <<d.of, d.key, d.secret>> \in superseded'
      BY <2>1
    <3>6. QED
      BY <2>1, <3>3, <3>4, <3>5
  <2>4. QED
    BY <2>2, <2>3
<1>4. QED
  BY <1>1, <1>2, <1>3 DEF RotateCredential

LEMMA FirstSecretsKept ==
  ASSUME FirstSecrets, TypeOK, [Next]_vars
  PROVE  FirstSecrets'
<1>1. ASSUME credential' \subseteq credential, superseded \subseteq superseded' PROVE FirstSecrets'
  BY <1>1 DEF FirstSecrets
<1>2. CASE UNCHANGED vars
  BY <1>1, <1>2 DEF vars, rows
<1>3. ASSUME NEW r \in Request, Begins(r) PROVE FirstSecrets'
  <2>1. UNCHANGED rows /\ superseded' = superseded
    BY <1>3 DEF Begins, connectShopify, disconnect, getConnector, create, update, archive, test, findFirstIntegration,
         rotateCredential, OnIntegration, Begin
  <2>2. QED
    BY <1>1, <2>1 DEF rows
<1>4. ASSUME NEW r \in Request, StoreCredential(r) \/ StoreShop(r) PROVE FirstSecrets'
  <2>1. CASE StoreCredential(r)
    <3>1. PICK k \in req[r].left : TakePlaceOf(req[r].id, {k}) /\ Insert(r, req[r].id, {k})
      BY <2>1 DEF StoreCredential
    <3>2. QED
      BY <3>1, InsertedAreFirst DEF TakePlaceOf
  <2>2. CASE StoreShop(r) /\ There("ecommerce", req[r].id)
    <3>1. TakePlaceOf(req[r].id, Required("ecommerce")) /\ Insert(r, req[r].id, Required("ecommerce"))
      BY <2>2 DEF StoreShop
    <3>2. QED
      BY <3>1, InsertedAreFirst DEF TakePlaceOf
  <2>3. CASE StoreShop(r) /\ ~There("ecommerce", req[r].id)
    BY <1>1, <2>3 DEF StoreShop
  <2>4. QED
    BY <1>4, <2>1, <2>2, <2>3
<1>5. ASSUME NEW r \in Request, ClearCredentials(r) \/ DeleteShop(r) PROVE FirstSecrets'
  BY <1>1, <1>5 DEF ClearCredentials, DeleteShop, TakePlaceOf
<1>6. ASSUME NEW r \in Request,
             \/ InsertIntegration(r) \/ get(r) \/ FindCredential(r) \/ WriteIntegration(r) \/ resolve(r) \/ ReadCredentials(r)
             \/ Call(r) \/ RecordTest(r) \/ UpsertShop(r) \/ CallShop(r) \/ Reject(r)
      PROVE  FirstSecrets'
  <2>1. credential' = credential /\ superseded' = superseded
    BY <1>6 DEF InsertIntegration, get, FindCredential, WriteIntegration, resolve, ReadCredentials, Call, RecordTest,
         UpsertShop, CallShop, Reject, Keep, rows
  <2>2. QED
    BY <1>1, <2>1
<1>7. ASSUME NEW r \in Request, Continues(r) PROVE FirstSecrets'
  BY <1>4, <1>5, <1>6, <1>7, FirstSecretsRotate DEF Continues
<1>8. QED
  BY <1>2, <1>3, <1>7 DEF Next

(* However many requests overlap, a credential row holds nothing that has  *)
(* been replaced: only two rotations, two connects, or a rotation and what *)
(* first stores the secrets, at once, leave a second row of a kind that    *)
(* can still be read (IntegrationsService.rotateCredential,                *)
(* EcommerceController.connectShopify).                                    *)
THEOREM ReplacedSecretsGo == Spec => []ReplacedSecretsAreGone
<1>1. IInv => ReplacedSecretsAreGone
  BY DEF IInv
<1>2. QED
  BY Inductive, <1>1, PTL

(* Without a rejected call, an integration that nobody is making still has *)
(* each secret it was made with, whatever rotates, tests, connects and     *)
(* disconnects at once (IntegrationsService.create, rotateCredential,      *)
(* EcommerceController.connectShopify); whether they are all its tools     *)
(* need, create does not ask.                                              *)
THEOREM IntegrationsAreWhole == Spec => []IntegrationsInv
<1>1. IInv => IntegrationsInv
  BY SecretsKept DEF IInv, IntegrationsInv
<1>2. QED
  BY Inductive, <1>1, PTL

(* The credentials in use came with the domain that is shown, and hold the *)
(* secrets they came with or ones that a rotation put in their place,      *)
(* unless a connect overlapped another or a rotation, or was rejected      *)
(* (EcommerceController.connectShopify).                                   *)
THEOREM ShopsAreApart == Spec => []ShopIsOneShop
<1>1. IInv => TypeOK
  BY DEF IInv
<1>2. Init => FirstSecrets
  BY FirstSecretsStart
<1>3. FirstSecrets /\ TypeOK /\ [Next]_vars => FirstSecrets'
  BY FirstSecretsKept
<1>4. IInv /\ FirstSecrets => ShopIsOneShop
  BY ShopKept
<1>5. QED
  BY Inductive, <1>1, <1>2, <1>3, <1>4, PTL DEF Spec

=============================================================================
