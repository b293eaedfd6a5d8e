---------------------------- MODULE Integrations ----------------------------
(***************************************************************************)
(* The integrations of an organization and their credentials: the          *)
(* IntegrationsService, the EcommerceController, which keeps the shop in   *)
(* the same two tables by calls of its own, and the tools that call out    *)
(* with what is stored there.  A secret, and an integration, is named for  *)
(* the request that brought it.                                            *)
(***************************************************************************)
EXTENDS Naturals, FiniteSets

CONSTANTS
  Provider,    \* providers of registered connectors that are in use
  Request,     \* HTTP requests and tool calls
  Earlier,     \* brought what was stored before
  MaxFaults    \* bound: calls that reject, or die with the process

ASSUME ProviderAssumption == Provider \subseteq {"email", "google_calendar", "crm"}
ASSUME EarlierAssumption == Earlier \notin Request /\ "none" \notin Request \cup {Earlier}
ASSUME FaultsAssumption == MaxFaults \in Nat

All == Provider \cup {"ecommerce"}
Secret == Request \cup {Earlier}

(* What a connector needs of its credentials, and what else it makes use   *)
(* of; host, port and user of an SMTP server go with its password.         *)
Required(p) ==
  CASE p = "email" -> {"pass"}
    [] p = "google_calendar" -> {"accessToken"}
    [] p = "crm" -> {"apiKey"}
    [] p = "ecommerce" -> {"shop_domain", "access_token"}

KeyOf(p) == Required(p) \cup (IF p = "google_calendar" THEN {"refreshToken"} ELSE {})
AnyKey == UNION {KeyOf(p) : p \in All}

VARIABLES
  integration, \* the rows of integrations, by provider; with is history:
               \* the names of the credentials a connector's was made with
  credential,  \* the rows of integration_credentials
  req,         \* where each request is, and what it holds
  faults,
  superseded,  \* history: secrets that a later write took the place of
  overlapped   \* history: which Conflicts have been in progress at once

rows == <<integration, credential>>
vars == <<rows, req, faults, superseded, overlapped>>

Op == {"none", "create", "update", "rotate", "archive", "test", "send", "connect", "disconnect", "sav"}
Label == {"idle", "get", "insert", "store", "find", "write", "resolve", "read", "call", "record", "clear", "over"}
Status == {"ACTIVE", "INACTIVE", "ERROR"}
Maker == Secret \cup {"none"}

Absent == [id |-> "none", status |-> "INACTIVE", shop |-> "none", with |-> {}]
CredentialRow == [of : Secret, key : AnyKey, by : Secret, secret : Secret]

(* Pairs of operations of which one may decide on what the other changes.  *)
Conflicts == {{"rotate"}, {"connect"}, {"connect", "rotate"}, {"create", "rotate"}}

RequestState ==
  [op : Op, pc : Label, on : All, id : Maker, key : AnyKey, row : Maker, left : SUBSET AnyKey,
   credentials : [AnyKey -> Maker], ok : BOOLEAN]

TypeOK ==
  /\ integration \in [All -> [id : Maker, status : Status, shop : Maker, with : SUBSET AnyKey]]
  /\ credential \subseteq CredentialRow
  /\ \A c \in credential : \E p \in All : integration[p].id = c.of
  /\ req \in [Request -> RequestState]
  /\ faults \in 0..MaxFaults
  /\ superseded \subseteq Secret \X AnyKey \X Secret /\ overlapped \subseteq Conflicts

-----------------------------------------------------------------------------

Unset == [k \in AnyKey |-> "none"]

Idle ==
  [op |-> "none", pc |-> "idle", on |-> "ecommerce", id |-> "none", key |-> "shop_domain", row |-> "none",
   left |-> {}, credentials |-> Unset, ok |-> FALSE]

(* What an integration may be made with: of a connector whatever it is     *)
(* given, whether its tools can do with that or not.  Names that nobody    *)
(* reads are left out: an object of them alone is as good as empty.        *)
Brought(p) == IF p = "ecommerce" THEN {Required(p)} ELSE SUBSET KeyOf(p)

(* A connector, or the shop, may have been set up before.                  *)
Made(id, p, keys) ==
  IF p = "ecommerce" THEN [id |-> id, status |-> "ACTIVE", shop |-> id, with |-> {}]
  ELSE [id |-> id, status |-> "ACTIVE", shop |-> "none", with |-> keys]

Init ==
  /\ \/ integration = [q \in All |-> Absent] /\ credential = {}
     \/ \E p \in All : \E keys \in Brought(p) :
          /\ integration = [q \in All |-> IF q = p THEN Made(Earlier, p, keys) ELSE Absent]
          /\ credential = {[of |-> Earlier, key |-> k, by |-> Earlier, secret |-> Earlier] : k \in keys}
  /\ req = [r \in Request |-> Idle]
  /\ faults = 0 /\ superseded = {} /\ overlapped = {}

InProgress(r) == req[r].pc \notin {"idle", "over"}

Step(r, fields) == req' = [req EXCEPT ![r] = fields]
End(r) == Step(r, [Idle EXCEPT !.pc = "over"])
Goto(r, label) == Step(r, [req[r] EXCEPT !.pc = label])

Begin(r, fields) ==
  /\ req[r].pc = "idle"
  /\ Step(r, fields)
  /\ overlapped' = overlapped \cup ({{fields.op, req[q].op} : q \in {s \in Request : InProgress(s)}} \cap Conflicts)
  /\ UNCHANGED <<rows, faults, superseded>>

At(r, label) == req[r].pc = label /\ UNCHANGED <<faults, overlapped>>
Keep == UNCHANGED <<rows, superseded>>

-----------------------------------------------------------------------------
(* The two tables.                                                         *)

There(p, id) == id # "none" /\ integration[p].id = id

RowsOf(id, k) == {c \in credential : c.of = id /\ c.key = k}

(* Secrets stored for an integration under these names, before a new one.  *)
TakePlaceOf(id, keys) ==
  superseded' = superseded \cup {<<c.of, c.key, c.secret>> : c \in {d \in credential : d.of = id /\ d.key \in keys}}

Insert(r, id, keys) == credential' = credential \cup {[of |-> id, key |-> k, by |-> r, secret |-> r] : k \in keys}

-----------------------------------------------------------------------------
(* IntegrationsService.                                                    *)

create(r, p, keys) ==
  /\ p \in Provider
  /\ Begin(r, [Idle EXCEPT !.op = "create", !.pc = "insert", !.on = p, !.left = keys])

(* One integration per provider; ACTIVE from the start.                    *)
InsertIntegration(r) ==
  LET p == req[r].on
      keys == req[r].left
      free == integration[p].id = "none"
  IN /\ At(r, "insert") /\ req[r].op = "create"
     /\ integration' = IF free THEN [integration EXCEPT ![p] = Made(r, p, keys)] ELSE integration
     /\ IF free /\ keys # {} THEN Step(r, [req[r] EXCEPT !.pc = "store", !.id = r]) ELSE End(r)
     /\ UNCHANGED <<credential, superseded>>

(* Mutant of StoreCredential: only the first of them is stored.            *)
StoreFirst(r) ==
  /\ At(r, "store") /\ req[r].op = "create"
  /\ \E k \in req[r].left :
       /\ TakePlaceOf(req[r].id, {k}) /\ Insert(r, req[r].id, {k})
       /\ End(r)
  /\ UNCHANGED integration

(* The credentials are stored one by one.                                  *)
StoreCredential(r) ==
  /\ At(r, "store") /\ req[r].op = "create"
  /\ \E k \in req[r].left :
       /\ TakePlaceOf(req[r].id, {k}) /\ Insert(r, req[r].id, {k})
       /\ IF req[r].left = {k} THEN End(r) ELSE Step(r, [req[r] EXCEPT !.left = @ \ {k}])
  /\ UNCHANGED integration

(* The operations on an integration there is, by its id.                   *)
OnIntegration(r, op, p, k) ==
  /\ integration[p].id # "none"
  /\ Begin(r, [Idle EXCEPT !.op = op, !.pc = "get", !.on = p, !.id = integration[p].id, !.key = k])

update(r, p) == OnIntegration(r, "update", p, CHOOSE k \in KeyOf(p) : TRUE)
rotateCredential(r, p, k) == OnIntegration(r, "rotate", p, k)
archive(r, p) == OnIntegration(r, "archive", p, CHOOSE k \in KeyOf(p) : TRUE)
test(r, p) == OnIntegration(r, "test", p, CHOOSE k \in KeyOf(p) : TRUE)

(* The shop is no connector: nothing is tested.                            *)
get(r) ==
  LET q == req[r] IN
  /\ At(r, "get")
  /\ IF ~There(q.on, q.id) \/ (q.op = "test" /\ q.on \notin Provider) THEN End(r)
     ELSE Goto(r, CASE q.op = "rotate" -> "find" [] q.op = "test" -> "resolve" [] OTHER -> "write")
  /\ Keep

FindCredential(r) ==
  LET found == RowsOf(req[r].id, req[r].key) IN
  /\ At(r, "find")
  /\ \E by \in IF found = {} THEN {"none"} ELSE {c.by : c \in found} :
       Step(r, [req[r] EXCEPT !.pc = "write", !.row = by])
  /\ Keep

(* Mutant of RotateCredential: the new secret gets a row of its own.       *)
AddCredential(r) ==
  LET q == req[r] IN
  /\ At(r, "write") /\ q.op = "rotate"
  /\ IF There(q.on, q.id) THEN TakePlaceOf(q.id, {q.key}) /\ Insert(r, q.id, {q.key}) ELSE UNCHANGED <<credential, superseded>>
  /\ End(r)
  /\ UNCHANGED integration

(* The row that was found is updated, or there was none and one is         *)
(* inserted; a row, or an integration, that is gone makes it reject.       *)
RotateCredential(r) ==
  LET q == req[r]
      found == {c \in RowsOf(q.id, q.key) : c.by = q.row} IN
  /\ At(r, "write") /\ q.op = "rotate"
  /\ IF (IF q.row = "none" THEN There(q.on, q.id) ELSE found # {})
     THEN /\ TakePlaceOf(q.id, {q.key})
          /\ IF q.row = "none" THEN Insert(r, q.id, {q.key})
             ELSE credential' = (credential \ found) \cup {[c EXCEPT !.secret = r] : c \in found}
     ELSE UNCHANGED <<credential, superseded>>
  /\ End(r)
  /\ UNCHANGED integration

(* update writes what configuration it is given, a shop's in particular.   *)
WriteIntegration(r) ==
  LET q == req[r] IN
  /\ At(r, "write") /\ q.op \in {"update", "archive"}
  /\ integration' = IF ~There(q.on, q.id) THEN integration
                    ELSE IF q.op = "archive" THEN [integration EXCEPT ![q.on].status = "INACTIVE"]
                    ELSE [integration EXCEPT ![q.on].shop = "none"]
  /\ End(r)
  /\ UNCHANGED <<credential, superseded>>

-----------------------------------------------------------------------------
(* What calls out.                                                         *)

(* One of the rows of each kind: the last that is read, in no order.       *)
Readings(id) ==
  {c \in [AnyKey -> Maker] :
     \A k \in AnyKey : c[k] \in IF RowsOf(id, k) = {} THEN {"none"} ELSE {d.secret : d \in RowsOf(id, k)}}

(* The tools of an integration want an ACTIVE one.                         *)
findFirstIntegration(r, p) ==
  /\ p \in Provider /\ integration[p].status = "ACTIVE" /\ integration[p].id # "none"
  /\ Begin(r, [Idle EXCEPT !.op = "send", !.pc = "resolve", !.on = p, !.id = integration[p].id])

(* resolve gets the integration again, then all its credentials.           *)
resolve(r) ==
  /\ At(r, "resolve")
  /\ IF There(req[r].on, req[r].id) THEN Goto(r, "read") ELSE End(r)
  /\ Keep

ReadCredentials(r) ==
  /\ At(r, "read") /\ req[r].op # "sav"
  /\ \E c \in Readings(req[r].id) : Step(r, [req[r] EXCEPT !.pc = "call", !.credentials = c])
  /\ Keep

(* What a call may come to: refused unasked without what it needs, but for *)
(* the greeting of an SMTP server.                                         *)
SmtpOutcomes(op, c) == IF op = "send" /\ c["pass"] = "none" THEN {FALSE} ELSE BOOLEAN
CrmOutcomes(c) == IF c["apiKey"] = "none" THEN {FALSE} ELSE BOOLEAN

(* A refused token is refreshed, and the call repeated, with what is       *)
(* needed for that; the new token is not stored.                           *)
CalendarOutcomes(c) == IF c["accessToken"] = "none" THEN {FALSE} ELSE BOOLEAN

Outcomes(op, p, c) ==
  CASE p = "email" -> SmtpOutcomes(op, c)
    [] p = "google_calendar" -> CalendarOutcomes(c)
    [] p = "crm" -> CrmOutcomes(c)

Call(r) ==
  LET q == req[r] IN
  /\ At(r, "call") /\ q.op \in {"send", "test"}
  /\ \E ok \in Outcomes(q.op, q.on, q.credentials) :
       IF q.op = "test" THEN Step(r, [q EXCEPT !.pc = "record", !.ok = ok, !.credentials = Unset]) ELSE End(r)
  /\ Keep

RecordTest(r) ==
  LET q == req[r] IN
  /\ At(r, "record")
  /\ integration' = IF There(q.on, q.id) THEN [integration EXCEPT ![q.on].status = IF q.ok THEN "ACTIVE" ELSE "ERROR"]
                    ELSE integration
  /\ End(r)
  /\ UNCHANGED <<credential, superseded>>

-----------------------------------------------------------------------------
(* The shop.                                                               *)

connectShopify(r) == Begin(r, [Idle EXCEPT !.op = "connect", !.pc = "insert"])

(* Mutant of UpsertShop: a shop that is there is only made ACTIVE.         *)
ActivateShop(r) ==
  LET old == integration["ecommerce"] IN
  /\ At(r, "insert") /\ req[r].op = "connect"
  /\ integration' = [integration EXCEPT !["ecommerce"] =
                        IF old.id = "none" THEN Made(r, "ecommerce", {}) ELSE [old EXCEPT !.status = "ACTIVE"]]
  /\ Step(r, [req[r] EXCEPT !.pc = "clear", !.id = IF old.id = "none" THEN r ELSE old.id])
  /\ UNCHANGED <<credential, superseded>>

UpsertShop(r) ==
  LET id == IF integration["ecommerce"].id = "none" THEN r ELSE integration["ecommerce"].id IN
  /\ At(r, "insert") /\ req[r].op = "connect"
  /\ integration' = [integration EXCEPT !["ecommerce"] = [id |-> id, status |-> "ACTIVE", shop |-> r, with |-> {}]]
  /\ Step(r, [req[r] EXCEPT !.pc = "clear", !.id = id])
  /\ UNCHANGED <<credential, superseded>>

ClearCredentials(r) ==
  /\ At(r, "clear")
  /\ TakePlaceOf(req[r].id, Required("ecommerce"))
  /\ credential' = {c \in credential : c.of # req[r].id}
  /\ Goto(r, "store")
  /\ UNCHANGED integration

(* Refused when the integration has been deleted since.                    *)
StoreShop(r) ==
  LET q == req[r] IN
  /\ At(r, "store") /\ q.op = "connect"
  /\ IF There("ecommerce", q.id)
     THEN TakePlaceOf(q.id, Required("ecommerce")) /\ Insert(r, q.id, Required("ecommerce"))
     ELSE UNCHANGED <<credential, superseded>>
  /\ End(r)
  /\ UNCHANGED integration

disconnect(r) ==
  /\ integration["ecommerce"].id # "none"
  /\ Begin(r, [Idle EXCEPT !.op = "disconnect", !.pc = "write", !.id = integration["ecommerce"].id])

(* The credentials go with the integration.                                *)
DeleteShop(r) ==
  LET id == req[r].id IN
  /\ At(r, "write") /\ req[r].op = "disconnect"
  /\ integration' = IF There("ecommerce", id) THEN [integration EXCEPT !["ecommerce"] = Absent] ELSE integration
  /\ credential' = {c \in credential : c.of # id}
  /\ End(r)
  /\ UNCHANGED superseded

(* A tool of the shop: getConnector finds it ACTIVE.                       *)
getConnector(r) ==
  LET shop == integration["ecommerce"] IN
  /\ shop.id # "none" /\ shop.status = "ACTIVE"
  /\ Begin(r, [Idle EXCEPT !.op = "sav", !.pc = "read", !.id = shop.id])

(* The rows are read.  Without the two secrets it rejects; with them too:  *)
(* they are used as they are stored, sealed, in the URL of no host.        *)
CallShop(r) == At(r, "read") /\ req[r].op = "sav" /\ End(r) /\ Keep

(* A call rejects, or the process stops.                                   *)
Reject(r) ==
  /\ InProgress(r) /\ faults < MaxFaults /\ faults' = faults + 1
  /\ End(r)
  /\ Keep /\ UNCHANGED overlapped

-----------------------------------------------------------------------------

Begins(r) ==
  \/ connectShopify(r) \/ disconnect(r) \/ getConnector(r)
  \/ \E p \in All :
       \/ \E keys \in Brought(p) : create(r, p, keys)
       \/ update(r, p) \/ archive(r, p) \/ test(r, p) \/ findFirstIntegration(r, p)
       \/ \E k \in KeyOf(p) : rotateCredential(r, p, k)

Continues(r) ==
  \/ InsertIntegration(r) \/ StoreCredential(r) \/ get(r) \/ FindCredential(r) \/ RotateCredential(r)
  \/ WriteIntegration(r) \/ resolve(r) \/ ReadCredentials(r) \/ Call(r) \/ RecordTest(r)
  \/ UpsertShop(r) \/ ClearCredentials(r) \/ StoreShop(r) \/ DeleteShop(r) \/ CallShop(r) \/ Reject(r)

Next == \E r \in Request : Begins(r) \/ Continues(r)

Spec == Init /\ [][Next]_vars

-----------------------------------------------------------------------------
(* Properties.                                                             *)

Quiet(p) == \A r \in Request : InProgress(r) => req[r].on # p \/ req[r].op \notin {"create", "connect"}

(* rotateCredential and connectShopify: a secret that was replaced is not  *)
(* there to be read any more, unless two rotations, two connects, or a     *)
(* rotation and what first stores the secrets, overlapped.                 *)
ReplacedSecretsAreGone ==
  overlapped = {} =>
    \A c \in credential : <<c.of, c.key, c.secret>> \notin superseded

(* A shop is connected with both.                                          *)
MadeWith(p) == IF p = "ecommerce" THEN Required(p) ELSE integration[p].with

(* create and connectShopify: an integration has all the secrets it was    *)
(* made with, once what makes it is over, unless a call was rejected       *)
(* half-way; rotations, tests and other connects lose none.  So one that   *)
(* the tools take for usable, and is not, was made without what they need, *)
(* which create does not look at.                                          *)
SecretsAreKept ==
  faults = 0 =>
    \A p \in All : integration[p].id # "none" /\ Quiet(p) =>
      \A k \in MadeWith(p) : RowsOf(integration[p].id, k) # {}

(* The type invariant, in which credentials are of an integration that is  *)
(* there, and integrations with all they were made with.                   *)
IntegrationsInv == TypeOK /\ SecretsAreKept

(* connectShopify: the rows in use came with the domain that the settings  *)
(* show, and each still has the secret it came with, unless a rotation of  *)
(* that very secret took its place since: whose shop a rotated secret is   *)
(* of, nobody looks at.  Of another connect nothing is left, unless two    *)
(* connects, or a connect and a rotation, overlapped, or a call was        *)
(* rejected.                                                               *)
ShopIsOneShop ==
  LET shop == integration["ecommerce"] IN
  faults = 0 /\ {{"connect"}, {"connect", "rotate"}} \cap overlapped = {} /\ Quiet("ecommerce") /\ shop.shop # "none" =>
    \A c \in credential : c.of = shop.id =>
      c.by = shop.shop /\ (c.secret = shop.shop \/ <<c.of, c.key, shop.shop>> \in superseded)

-----------------------------------------------------------------------------
(* The inductive invariant.  Which operations are at which calls, and on   *)
(* what.                                                                   *)
CallsOfOps(q) ==
  /\ q.pc \in {"idle", "over"} <=> q.op = "none"
  /\ q.op \in {"connect", "disconnect", "sav"} => q.on = "ecommerce"
  /\ q.op \in {"create", "send"} \/ (q.op = "test" /\ q.pc # "get") => q.on \in Provider
  /\ q.op = "create" => q.pc \in {"insert", "store"}
  /\ q.op = "connect" => q.pc \in {"insert", "clear", "store"}
  /\ q.op = "rotate" => q.pc \in {"get", "find", "write"} /\ q.key \in KeyOf(q.on)
  /\ q.pc \in {"insert", "store"} => q.op \in {"create", "connect"}
  /\ q.pc = "clear" => q.op = "connect"
  /\ q.pc = "find" => q.op = "rotate"
  /\ q.pc \in {"idle", "insert", "over"} => q.id = "none"
  /\ q.pc \notin {"idle", "insert", "over"} => q.id # "none"

OverlapsAreSeen ==
  \A r, q \in Request : r # q /\ InProgress(r) /\ InProgress(q) =>
    ({{req[r].op, req[q].op}} \cap Conflicts) \subseteq overlapped

(* An id names one integration, of the request that made it, and what is   *)
(* gone does not come back.                                                *)
IdsName ==
  /\ \A p, o \in All : p # o /\ integration[p].id # "none" => integration[p].id # integration[o].id
  /\ \A p \in All : integration[p].id = "none" => integration[p] = Absent
  /\ \A r \in Request, p \in All : req[r].id # "none" /\ p # req[r].on => integration[p].id # req[r].id
  /\ \A r \in Request : req[r].pc \in {"idle", "insert"} =>
       /\ \A p \in All : integration[p].id # r
       /\ \A q \in Request : req[q].id # r
       /\ \A k \in AnyKey, s \in Secret : <<r, k, s>> \notin superseded

(* A connector's credentials are stored by who makes it, those that are    *)
(* left come after the others.                                             *)
CreateInv ==
  \A r \in Request : req[r].op = "create" /\ req[r].pc = "store" =>
    /\ req[r].id = r /\ integration[req[r].on].id = r
    /\ \A k \in MadeWith(req[r].on) \ req[r].left : RowsOf(req[r].id, k) # {}
    /\ {"create", "rotate"} \notin overlapped =>
         \A k \in req[r].left :
           RowsOf(req[r].id, k) = {} /\ \A s \in Secret : <<req[r].id, k, s>> \notin superseded

Makes(r, p) == req[r].op \in {"create", "connect"} /\ req[r].id = integration[p].id

(* An integration nobody is making has its secrets.                        *)
Complete(p) == \A k \in MadeWith(p) : RowsOf(integration[p].id, k) # {}
CompleteInv ==
  faults = 0 =>
    \A p \in All : integration[p].id # "none" /\ (\A r \in Request : ~Makes(r, p)) => Complete(p)

(* A rotation that found no row finds none when it writes.                 *)
RotateInv ==
  \A r \in Request : req[r].op = "rotate" /\ req[r].pc = "write" /\ req[r].row = "none" =>
    /\ overlapped = {} => RowsOf(req[r].id, req[r].key) = {}
    /\ faults = 0 /\ req[r].on = "ecommerce" /\ integration["ecommerce"].id = req[r].id =>
         {"connect", "rotate"} \in overlapped


(* The secrets of a shop are those of the last connect, or it is at work.  *)
ShopInv ==
  {{"connect"}, {"connect", "rotate"}} \cap overlapped = {} =>
    /\ \A r \in Request : req[r].op = "connect" /\ req[r].pc # "insert" =>
         /\ req[r].id = integration["ecommerce"].id => integration["ecommerce"].shop \in {r, "none"}
         /\ req[r].pc = "store" => \A c \in credential : c.of # req[r].id
    /\ \/ faults # 0 \/ integration["ecommerce"].shop = "none"
       \/ \E r \in Request : Makes(r, "ecommerce")
       \/ \A c \in credential : c.of = integration["ecommerce"].id => c.by = integration["ecommerce"].shop

(* A secret is new when it is written, and replaces all there is of its    *)
(* kind.                                                                   *)
SecretsInv ==
  /\ \A r \in Request : ~(req[r].pc = "over" \/ (req[r].op = "create" /\ req[r].pc = "store")) =>
       /\ \A c \in credential : c.secret # r
       /\ \A i \in Secret, k \in AnyKey : <<i, k, r>> \notin superseded
  /\ overlapped = {} =>
       \A c, d \in credential : c.of = d.of /\ c.key = d.key => c = d

IInv ==
  /\ TypeOK /\ OverlapsAreSeen /\ IdsName /\ CreateInv /\ CompleteInv /\ RotateInv /\ ShopInv /\ SecretsInv
  /\ ReplacedSecretsAreGone
  /\ \A r \in Request : CallsOfOps(req[r])

(* A row has the secret it came with, unless that was replaced.            *)
FirstSecrets == \A c \in credential : c.secret = c.by \/ <<c.of, c.key, c.by>> \in superseded
=============================================================================
