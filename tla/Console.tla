------------------------------ MODULE Console ------------------------------
(***************************************************************************)
(* What the pages of the console show: /knowledge, /workflows and          *)
(* /integrations, each over a query cache shared by its parts.  A page has *)
(* one list query, one query per item for what the item contains, and      *)
(* mutations whose answers invalidate one key.  A card of the list shows   *)
(* how many documents or runs its item has.  The server's rows change      *)
(* as the services do it, one call at a time; the modules of the services  *)
(* take those calls apart.                                                 *)
(***************************************************************************)
EXTENDS Naturals, FiniteSets, FiniteSetsExt

CONSTANTS
  Item,        \* knowledge bases, workflows, or the shop
  Command,     \* calls that may be under way at once
  MaxCalls,    \* bound: clicks
  MaxLost      \* bound: answers lost on the way, fetches that fail

Nothing == [nothing |-> TRUE]
NoItem == "none"

ASSUME ConsoleBounds == MaxCalls \in Nat /\ MaxLost \in Nat
ASSUME ItemAssumption == {"list", "counts", NoItem} \cap Item = {}

VARIABLES
  page,        \* which of the pages is open
  selected,    \* selectedId
  results,     \* the base searchResults are from
  stored,      \* the rows, with the number of changes made from this page
  query,       \* the query cache, by key
  command,     \* what was clicked and is not over
  clicks, lost,
  known,       \* history: the changes whose success the page was told of
  missed,      \* history: what was fetched too early, or not invalidated
  strayed      \* history: a search was answered after the selection moved

bounds == <<clicks, lost>>
consoleVars == <<page, selected, results, stored, query, command, bounds, known, missed, strayed>>

Key == Item \cup {"list"}
Part == Key \cup {"counts"}  \* of the list, the counts are kept apart
Page == {"knowledge", "workflows", "integrations"}

(* Mutations of a row, which invalidate the list; those of what an item    *)
(* contains, which invalidate the item that is selected when the answer    *)
(* comes; and the upload, which invalidates the item it was made for.      *)
RowKind == {"create", "removeBase", "activate", "pause", "archive", "connect", "disconnect"}
InnerKind == {"reindex", "removeDoc", "runNow", "cancelRun"}
Kind == RowKind \cup InnerKind \cup {"upload", "search"}
CountKind == {"upload", "runNow"}  \* a removed document is counted on

Status == {"ABSENT", "DRAFT", "ACTIVE", "PAUSED", "GONE"}
Inner == {"NONE", "BUSY", "FAILED", "DONE"}
Row == [status : Status, inner : Inner, row : Nat, in : Nat, count : Nat]

Card(s) == [status |-> s.status, row |-> s.row, count |-> s.count]

Snapshot(k) ==
  IF k = "list" THEN [rows |-> [i \in Item |-> Card(stored[i])]]
  ELSE [inner |-> stored[k].inner, in |-> stored[k].in]

Unfetched == [at |-> "idle", data |-> Nothing, read |-> Nothing, stale |-> TRUE]
Free == [kind |-> "none", on |-> NoItem, key |-> NoItem, at |-> "free", newest |-> FALSE, row |-> 0, in |-> 0, count |-> 0]

Data(k) == IF k = "list" THEN [rows : [Item -> [status : Status, row : Nat, count : Nat]]] ELSE [inner : Inner, in : Nat]

QueryState(k) ==
  [at : {"idle", "sent", "read", "failed"}, data : Data(k) \cup {Nothing}, read : Data(k) \cup {Nothing}, stale : BOOLEAN]

CommandState ==
  [kind : Kind \cup {"none"}, on : Item \cup {NoItem}, key : Key \cup {NoItem},
   at : {"free", "sent", "done", "refused"}, newest : BOOLEAN, row : Nat, in : Nat, count : Nat]

ConsoleTypeOK ==
  /\ page \in Page /\ selected \in Item \cup {NoItem} /\ results \in Item \cup {NoItem}
  /\ stored \in [Item -> Row]
  /\ DOMAIN query = Key
  /\ \A k \in Key : query[k] \in QueryState(k) /\ (query[k].at = "idle" => query[k].read = Nothing)
  /\ command \in [Command -> CommandState]
  /\ \A c \in Command : command[c].at # "free" => command[c].kind \in Kind /\ command[c].on \in Item
  /\ clicks \in 0..MaxCalls /\ lost \in 0..MaxLost
  /\ known \in [Item -> [row : Nat, in : Nat, count : Nat]]
  /\ missed \subseteq Part /\ strayed \in BOOLEAN

-----------------------------------------------------------------------------
(* The query cache, as the pages use it.                                   *)

Active(k) == k = "list" \/ k = selected

InFlight(k) == query[k].at \in {"sent", "read"}

Fetching(q) == [q EXCEPT !.at = "sent", !.read = Nothing, !.stale = TRUE]

(* Opening a key fetches what is stale, by an invalidation or because a    *)
(* minute has passed, or joins a fetch under way.                          *)
Opens(k, aged) == (query[k].stale \/ aged) /\ ~InFlight(k)

(* Mutant of Restarts: a fetch under way is always good enough.            *)
RestartsIdle(k) == Active(k) /\ ~InFlight(k)

(* Invalidating starts an active query over, except during its first load; *)
(* one that nobody observes is only marked.                                *)
Restarts(k) == Active(k) /\ (InFlight(k) => query[k].data # Nothing)

Invalidated(k) == IF Restarts(k) THEN Fetching(query[k]) ELSE [query[k] EXCEPT !.stale = TRUE]

(* A page opens with nothing selected, over items of earlier days.         *)
Before(p) ==
  CASE p = "knowledge" -> {[status |-> "ACTIVE", inner |-> "FAILED", row |-> 0, in |-> 0, count |-> 0]}
    [] p = "workflows" -> {[status |-> "ACTIVE", inner |-> "BUSY", row |-> 0, in |-> 0, count |-> 0]}
    [] p = "integrations" -> {}

NotYet == [status |-> "ABSENT", inner |-> "NONE", row |-> 0, in |-> 0, count |-> 0]

ConsoleInit ==
  /\ page \in Page /\ selected = NoItem /\ results = NoItem
  /\ stored \in [Item -> Before(page) \cup {NotYet}]
  /\ query = [k \in Key |-> IF k = "list" THEN Fetching(Unfetched) ELSE Unfetched]
  /\ command = [c \in Command |-> Free]
  /\ clicks = 0 /\ lost = 0
  /\ known = [i \in Item |-> [row |-> 0, in |-> 0, count |-> 0]]
  /\ missed = {} /\ strayed = FALSE

(* The request reaches the service, which reads; a removed base is not     *)
(* found, the runs of a workflow always are.                               *)
Read(k) ==
  /\ query[k].at = "sent"
  /\ query' = [query EXCEPT ![k] =
       IF page = "knowledge" /\ k # "list" /\ stored[k].status = "GONE" THEN [@ EXCEPT !.at = "failed", !.read = Nothing]
       ELSE [@ EXCEPT !.at = "read", !.read = Snapshot(k)]]
  /\ UNCHANGED <<page, selected, results, stored, command, bounds, known, missed, strayed>>

(* The answer replaces the data and counts as fresh.                       *)
Receive(k) ==
  /\ query[k].at = "read"
  /\ query' = [query EXCEPT ![k] = [at |-> "idle", data |-> query[k].read, read |-> Nothing, stale |-> FALSE]]
  /\ UNCHANGED <<page, selected, results, stored, command, bounds, known, missed, strayed>>

(* The answer is lost and every retry with it.                             *)
FailFetch(k) ==
  /\ InFlight(k) /\ lost < MaxLost
  /\ lost' = lost + 1
  /\ query' = [query EXCEPT ![k].at = "failed", ![k].read = Nothing]
  /\ UNCHANGED <<page, selected, results, stored, command, clicks, known, missed, strayed>>

-----------------------------------------------------------------------------
(* What the user sees and does.                                            *)

Listed(i) == query["list"].data # Nothing /\ query["list"].data.rows[i].status \notin {"ABSENT", "GONE"}
StatusShown(i) == query["list"].data.rows[i].status

(* selectedId && detail, and on /workflows: found in the list.             *)
Shown(i) == selected = i /\ IF page = "knowledge" THEN query[i].data # Nothing ELSE Listed(i)
InnerShown(i) == IF query[i].data = Nothing THEN "NONE" ELSE query[i].data.inner

(* A button that is "loading" is disabled.                                 *)
Pending(kind) == \E c \in Command : command[c].kind = kind

If(condition, kind) == IF condition THEN {kind} ELSE {}

CreateDialog(i) == If(stored[i].status = "ABSENT" /\ ~Pending("create"), "create")

BaseButtons(i) == IF Shown(i) THEN {"removeBase", "search"} ELSE {}

(* It can be closed while it uploads.                                      *)
UploadDialog(i) == If(Shown(i), "upload")

DocumentButtons(i) ==
  If(Shown(i) /\ InnerShown(i) = "FAILED", "reindex") \cup If(Shown(i) /\ InnerShown(i) # "NONE", "removeDoc")

WorkflowButtons(i) ==
  IF ~Shown(i) THEN {}
  ELSE {"archive", IF StatusShown(i) = "ACTIVE" THEN "pause" ELSE "activate"}
       \cup If(StatusShown(i) = "ACTIVE" /\ ~Pending("runNow"), "runNow")

RunButtons(i) == If(Shown(i) /\ InnerShown(i) = "BUSY", "cancelRun")

(* There is one shop, whatever it is called.                               *)
ConnectForm(i) ==
  If(/\ \A j \in Item : ~Listed(j)
     /\ \A j \in Item \ {i} : stored[j].status = "ABSENT"
     /\ ~Pending("connect"), "connect")

DisconnectButton(i) == If(Listed(i), "disconnect")

Buttons(i) ==
  CASE page = "knowledge" -> CreateDialog(i) \cup BaseButtons(i) \cup UploadDialog(i) \cup DocumentButtons(i)
    [] page = "workflows" -> CreateDialog(i) \cup WorkflowButtons(i) \cup RunButtons(i)
    [] page = "integrations" -> ConnectForm(i) \cup DisconnectButton(i)

KeyFor(kind, i) == IF kind \in RowKind THEN "list" ELSE IF kind \in InnerKind THEN selected ELSE i

Click(c, i, kind) ==
  /\ command[c].at = "free" /\ clicks < MaxCalls
  /\ kind \in Buttons(i)
  /\ clicks' = clicks + 1
  /\ command' = [d \in Command |->
       IF d = c THEN [Free EXCEPT !.kind = kind, !.on = i, !.key = KeyFor(kind, i), !.at = "sent", !.newest = TRUE]
       ELSE IF command[d].kind = kind THEN [command[d] EXCEPT !.newest = FALSE] ELSE command[d]]
  /\ UNCHANGED <<page, selected, results, stored, query, lost, known, missed, strayed>>

(* A pending mutation takes over the callbacks of every new render, and    *)
(* with them the key of the new selection, unless another click on the     *)
(* same button has taken its place.                                        *)
Follows(c) == command[c].kind \in InnerKind /\ command[c].newest

Followed(i) == [c \in Command |-> IF Follows(c) THEN [command[c] EXCEPT !.key = i] ELSE command[c]]

(* Mutant of Select: the results of the last search stay on the page.      *)
SelectOnly(i) ==
  /\ page # "integrations" /\ Listed(i) /\ selected # i
  /\ selected' = i
  /\ \E aged \in BOOLEAN :
       IF Opens(i, aged) THEN query' = [query EXCEPT ![i] = Fetching(@)] /\ missed' = missed \ {i}
       ELSE UNCHANGED <<query, missed>>
  /\ command' = Followed(i)
  /\ UNCHANGED <<page, results, stored, bounds, known, strayed>>

(* onClick of a card.                                                      *)
Select(i) ==
  /\ page # "integrations" /\ Listed(i) /\ selected # i
  /\ selected' = i
  /\ results' = NoItem
  /\ \E aged \in BOOLEAN :
       IF Opens(i, aged) THEN query' = [query EXCEPT ![i] = Fetching(@)] /\ missed' = missed \ {i}
       ELSE UNCHANGED <<query, missed>>
  /\ command' = Followed(i)
  /\ UNCHANGED <<page, stored, bounds, known, strayed>>

-----------------------------------------------------------------------------
(* What the services do, and how their answers come back.                  *)

Live(s) == s.status \notin {"ABSENT", "GONE"}

Accepts(kind, s) ==
  CASE kind = "create" -> s.status = "ABSENT"
    [] kind = "connect" -> TRUE
    [] kind = "disconnect" -> TRUE
    [] kind = "runNow" -> s.status = "ACTIVE"
    [] kind = "cancelRun" -> TRUE
    [] kind \in {"reindex", "removeDoc"} -> s.inner # "NONE"
    [] OTHER -> Live(s)

Became(kind, s) ==
  CASE kind = "create" -> [s EXCEPT !.status = IF page = "workflows" THEN "DRAFT" ELSE "ACTIVE"]
    [] kind \in {"connect", "activate"} -> [s EXCEPT !.status = "ACTIVE"]
    [] kind = "pause" -> [s EXCEPT !.status = "PAUSED"]
    [] kind = "disconnect" -> [s EXCEPT !.status = "ABSENT"]
    [] kind = "archive" -> [s EXCEPT !.status = "GONE"]
    [] kind = "removeBase" -> [s EXCEPT !.status = "GONE", !.inner = "NONE"]
    [] kind \in CountKind -> [s EXCEPT !.inner = "BUSY", !.count = @ + 1]
    [] kind = "reindex" -> [s EXCEPT !.inner = "BUSY"]
    [] kind = "removeDoc" -> [s EXCEPT !.inner = "NONE"]
    [] kind = "cancelRun" -> IF s.inner = "BUSY" THEN [s EXCEPT !.inner = "DONE"] ELSE s

Counted(kind, s, t) ==
  IF s = t THEN t ELSE IF kind \in RowKind THEN [t EXCEPT !.row = @ + 1] ELSE [t EXCEPT !.in = @ + 1]

(* A search changes nothing.                                               *)
Serve(c) ==
  LET kind == command[c].kind
      i == command[c].on
      after == IF kind = "search" THEN stored[i] ELSE Counted(kind, stored[i], Became(kind, stored[i]))
  IN /\ command[c].at = "sent"
     /\ IF Accepts(kind, stored[i])
        THEN /\ stored' = [stored EXCEPT ![i] = after]
             /\ command' = [command EXCEPT ![c].at = "done", ![c].row = after.row, ![c].in = after.in, ![c].count = after.count]
        ELSE /\ command' = [command EXCEPT ![c].at = "refused"]
             /\ UNCHANGED stored
     /\ UNCHANGED <<page, selected, results, query, bounds, known, missed, strayed>>

(* The worker is through with a document, or the runner with a run; what   *)
(* became of a run makes no difference here.                               *)
Finish(i) ==
  /\ stored[i].inner = "BUSY"
  /\ \E outcome \in {"DONE"} \cup (IF page = "knowledge" THEN {"FAILED"} ELSE {}) :
       stored' = [stored EXCEPT ![i].inner = outcome]
  /\ UNCHANGED <<page, selected, results, query, command, bounds, known, missed, strayed>>

(* What shows what a call changed, and with which key it is fetched.       *)
Shows(c) ==
  IF command[c].kind \in RowKind THEN {"list"}
  ELSE {command[c].on} \cup (IF command[c].kind \in CountKind THEN {"counts"} ELSE {})

KeyOf(part) == IF part = "counts" THEN "list" ELSE part

Told(c) ==
  LET i == command[c].on
      latest == [row |-> Max({known[i].row, command[c].row}), in |-> Max({known[i].in, command[c].in}),
                 count |-> Max({known[i].count, command[c].count})]
      kind == command[c].kind
  IN [known EXCEPT ![i] = [row |-> IF kind \in RowKind THEN latest.row ELSE @.row,
                           in |-> IF kind \in RowKind THEN @.in ELSE latest.in,
                           count |-> IF kind \in CountKind THEN latest.count ELSE @.count]]

(* A change is missed where its key is not the one that is invalidated, or *)
(* where an answer that was read before is on its way and nobody replaces  *)
(* it: during the first load, or while another item is open.  A request    *)
(* that has not been read makes up for everything.                         *)
Early(k) == query[k].at = "read" /\ (query[k].data = Nothing \/ ~Active(k))

Missed(c) ==
  LET passed == {part \in Shows(c) : KeyOf(part) # command[c].key \/ Early(KeyOf(part))}
  IN {part \in missed \cup passed : query'[KeyOf(part)].at # "sent"}

(* onSuccess of the mutations: removing a base also clears the selection,  *)
(* whatever that is by now.                                                *)
Succeed(c) ==
  /\ command[c].at = "done" /\ command[c].kind # "search"
  /\ query' = IF command[c].key \in Key THEN [query EXCEPT ![command[c].key] = Invalidated(command[c].key)] ELSE query
  /\ selected' = IF command[c].kind = "removeBase" THEN NoItem ELSE selected
  /\ command' = [command EXCEPT ![c] = Free]
  /\ known' = Told(c)
  /\ missed' = Missed(c)
  /\ UNCHANGED <<page, results, stored, bounds, strayed>>

(* onSearch goes on where it left off, on the page as it is now.           *)
ShowResults(c) ==
  /\ command[c].at = "done" /\ command[c].kind = "search"
  /\ results' = command[c].on
  /\ strayed' = (strayed \/ selected # command[c].on)
  /\ command' = [command EXCEPT ![c] = Free]
  /\ UNCHANGED <<page, selected, stored, query, bounds, known, missed>>

(* No mutation has an onError that touches what is shown.                  *)
Refused(c) ==
  /\ command[c].at = "refused"
  /\ command' = [command EXCEPT ![c] = Free]
  /\ UNCHANGED <<page, selected, results, stored, query, bounds, known, missed, strayed>>

LoseAnswer(c) ==
  /\ command[c].at \in {"sent", "done"} /\ lost < MaxLost
  /\ lost' = lost + 1
  /\ command' = [command EXCEPT ![c] = Free]
  /\ UNCHANGED <<page, selected, results, stored, query, clicks, known, missed, strayed>>

ConsoleNext ==
  \/ \E k \in Key : Read(k) \/ Receive(k) \/ FailFetch(k)
  \/ \E i \in Item : Select(i) \/ Finish(i)
  \/ \E c \in Command, i \in Item, kind \in Kind : Click(c, i, kind)
  \/ \E c \in Command : Serve(c) \/ Succeed(c) \/ ShowResults(c) \/ Refused(c) \/ LoseAnswer(c)

ConsoleSpec == ConsoleInit /\ [][ConsoleNext]_consoleVars

-----------------------------------------------------------------------------

CountsAre(data) == \A i \in Item : data.rows[i].count >= known[i].count

Includes(k, data) ==
  IF k = "list" THEN (\A i \in Item : data.rows[i].row >= known[i].row) /\ ("counts" \notin missed => CountsAre(data))
  ELSE data.in >= known[k].in

(* What the page shows, when no fetch is on its way, contains every change *)
(* made from it that it was told of: whatever was invalidated, joined or   *)
(* started over meanwhile, and whatever was selected in between.  The      *)
(* exceptions are in "missed": a change answered after another item was    *)
(* selected invalidates that other item, a first load that was read        *)
(* before goes on and counts as fresh, and an upload or a run invalidates  *)
(* its item only: the number on the card is as old as the list.            *)
OwnChangesShow ==
  \A k \in Key : Active(k) /\ query[k].at = "idle" /\ k \notin missed => query[k].data # Nothing /\ Includes(k, query[k].data)

(* The results under a base are of a search of that base, unless one was   *)
(* answered after the selection moved on.                                  *)
ResultsAreOfSelection == selected # NoItem /\ results # NoItem /\ ~strayed => results = selected

(* The type invariant, and search results that are of the selected base but*)
(* for answers that come after the selection moved on (onSearch).          *)
ConsoleInv == ConsoleTypeOK /\ ResultsAreOfSelection

-----------------------------------------------------------------------------
(* The inductive invariant.  What counts as fresh, and what has been read  *)
(* and is on its way, has all changes the page was told of, unless the key *)
(* missed one.  Of the list, the counts may be missed alone.               *)
FreshIncludes ==
  \A k \in Key \ missed :
    /\ query[k].at = "idle" /\ ~query[k].stale => query[k].data # Nothing /\ Includes(k, query[k].data)
    /\ query[k].at = "read" => query[k].read # Nothing /\ Includes(k, query[k].read)

(* What is shown is not left stale.                                        *)
ShownIsFresh == \A k \in Key : Active(k) /\ query[k].at = "idle" => ~query[k].stale

(* The page is told of nothing that is not stored.                         *)
NoMore(m, s) == m.row <= s.row /\ m.in <= s.in /\ m.count <= s.count

ToldIsStored ==
  /\ \A i \in Item : NoMore(known[i], stored[i])
  /\ \A c \in Command : command[c].at = "done" => NoMore(command[c], stored[command[c].on])

ConsoleIInv == ConsoleInv /\ FreshIncludes /\ ShownIsFresh /\ ToldIsStored
=============================================================================
