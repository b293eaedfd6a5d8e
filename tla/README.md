# A formal model of the AI business operating system

This directory holds TLA+ models of the backend (`src/backend`) and of the parts
of the frontend (`src/frontend`) that keep state, the TLC configurations that check them on small instances, and theorems about them that
the TLA+ proof system checks for every value of the constants. The models are
written from the code; where a document, comment or test says something else,
that is recorded under [Findings](#findings).

- [The system](#the-system)
- [Modules and the code they model](#modules-and-the-code-they-model)
- [Runs: what is checked, with which bounds](#runs)
- [Findings](#findings)
- [Theorems: what is proved, and how](#theorems)
- [Only model-checked](#only-model-checked)
- [Not modelled](#not-modelled)
- [Plan](#plan)
- [Running it](#running-it)

`PROJECT.json` has the same facts as data: the components, the runs, a mutation
of the model for each property that makes it fail, the lines each definition
models, the hazards, the findings and the theorems.

## The system

A NestJS application over PostgreSQL (Prisma) and Redis, and a Next.js console that
calls it. One organization has agents, knowledge bases, tools and workflows. There is no job queue and hardly
any locking: a request is a sequence of awaited calls, most of them single
statements, and what is long (the ingestion of a document, a workflow run) goes
on in the memory of the process that served the request. So the hard questions
are everywhere the same ones:

- what two requests do to each other between two awaited calls;
- what is left behind when one call of several rejects;
- what a process that stops leaves unfinished;
- what was read before an await and is used after it;
- what arrives in pieces, late, or not at all: streams of the model providers,
  answers to the browser, answers of tools.

### Components

| Component | State | Operations | Hard behaviour | What makes it correct |
|---|---|---|---|---|
| Workflows service (`workflows.service.ts`) | `workflows`, `workflow_nodes`, `workflow_edges`, `workflow_runs` | create, update, activate, pause, archive, run, cancel | checks on a row read earlier; the graph is replaced by four calls, two of which share a transaction | a version names one graph; a run is of an ACTIVE row's valid graph; the tables mirror the definition |
| Graph validation (`graph.validation.ts`) | colours and the call stack of one search | `validateGraph` | all shapes of graph, recursion on a client's input | the verdicts on cycles and on END are right; recursion is bounded |
| Workflow runner (`workflow-runner.ts`) | the row and log of a run; the context its branches share | run, walk, complete, fail; the handlers | `Promise.all` branches, rejected writes, cancellation, death of the process | one verdict; COMPLETED means all of it is done and logged; every run ends |
| Agents service (`agents.service.ts`) | `agents`, `agent_versions` | create, update, commit a version, deploy, undeploy, rollback, pause, resume, archive, restore, hard delete | a rollback is nine calls; version numbers are read and then inserted | no version is lost or overwritten; status, `deletedAt` and the pinned version agree |
| Agent runtime (`agent-runtime.service.ts`) | `messages`; one loop per run | run, by four routes | the loop of model and tools with failures at each call | an answered run has its message and its usage row; none waits for ever |
| Tool executor (`tool-executor.ts`) | `tool_executions`, `tasks` | execute | a timeout that does not stop the handler; three calls for an approval; a tool is looked up twice, by different keys | what was judged HIGH is held; rows say what happened |
| Quota and usage (`quota.service.ts`, `usage.service.ts`) | `usage_records`; a status in Redis | enforce, record, invalidate | an invalidation between another run's sum and its cache write | the cache follows the rows; a refusal is right |
| Knowledge bases and ingestion (`knowledge.service.ts`) | `knowledge_bases`, `documents`, `document_chunks` | upload, reindex, delete, archive, update, `ingestDocument` | ingestion runs on after the request; crash, retry, overlap | COMPLETED means every piece once; deleted means no chunks; every document settles |
| Text chunker (`text-chunker.ts`) | – | `split` | boundaries of pieces and overlaps | the rows tell the text, whole and in order; chunks stay under a size |
| Conversations, AI gateway and providers | `messages`; one stream per call | load the history, send, read the stream, keep the answer | pieces of any size, error events, a history with holes | streaming makes what not streaming would; a refusal has a cause |
| Authentication and browser session (`auth.service.ts`, `lib/api.ts`) | refresh tokens, links in Redis, the password; `localStorage` | login, refresh, reset, verify, change, switch, logout | rotation is read, revoke, insert, store; several calls of a page refresh at once | rotation is single; a reset ends sessions; what is forgotten was dead |
| Organizations and members, `register` | users, organizations, members, subscriptions | register, create, invite, change a role, remove | checks then writes by key; a chain of four inserts | an organization keeps an OWNER; an account has an organization |
| Integrations, connectors, e-commerce tools | `integrations`, `integration_credentials` | create, update, rotate, archive, test, connect, disconnect, and the tools' look-ups | rows of one kind that nothing keeps apart; delete first, insert then | a replaced secret is gone; an integration keeps the secrets it was made with; one shop is one shop |
| Console pages (knowledge, workflows, integrations) | the query cache, the selection, pending mutations | every button that changes something | fetches, answers and selection overtake each other; one change shows in two queries | what was done shows; results are of what is selected |
| Invitations, tasks, users, memory, audit, analytics, billing, mail, storage, tenancy, filters, configuration, other pages | one row or one remote call each | – | – | see [Not modelled](#not-modelled) |

### How they interact

    client ──► WorkflowsService ──validateGraph──► stored definition
                   │ runWorkflow: inserts the run, starts the runner, does not wait
                   ▼
              WorkflowRunner ──AGENT──► AgentRuntime ──► QuotaService ──► Redis, usage_records
                   │                       │  ▲ agent row (AgentsService)
                   │                       ├──► ToolExecutor ──► tool_executions, tasks
                   └──ACTION──────────────►┘  ├── providers ──► ProviderStreams, ChatTurns
                                              └── retrieval ──► document_chunks (KnowledgeService)

    browser ──► lib/api.ts ──► AuthService ──► refresh_tokens, Redis
        └── pages ──► react-query cache ──► KnowledgeService, WorkflowsService, EcommerceController

    document ──► extractor ──► TextChunker ──► embeddings ──► document_chunks

Modules correspond to these parts, and compose where the code does:

- `WorkflowRunner` implements `RunContract` (a refinement mapping, below).
- `AgentRuntime` extends `Quota` and `ToolExecutor`: their actions are steps of
  its runs, so one run's insert falls between another's sum and cache write.
- `WorkflowsService` uses the verdict of `validateGraph` as a constant (`Valid`);
  `GraphValidation` says what that verdict is. The graphs it hands to the runner
  are the `Graphs` of `WorkflowRunner`.
- `ChatTurns` extends `ProviderStreams`: what a turn keeps is what the next one
  sends, so what a stream leaves half done is met again a turn later.
- `Sessions` has the server and the browser in one state, because what either
  holds of a token is only right or wrong by what the other holds.
- `MCAlgorithms` checks `GraphValidation` and `TextChunker`, which do not interact, and
  `MCAgentRuntime` checks `AgentRuntime` and `ChatTurns`, which model the same calls at
  two levels: a behavior is of one of them.

## Modules and the code they model

An action is the code between two awaits: a call to the database, to Redis or to
a handler, with everything synchronous that follows it. A rejected call is an
action of its own, counted against a bound (`MaxDbErrors`, `MaxFaults`).

**RunContract** – what one run promises whatever its graph: activations open and
settle, one verdict at most, COMPLETED when none is open and nothing broke,
FAILED when something broke, and a cancellation that writes the status at any
time and stops nothing.

**WorkflowRunner** – `run`, `walk`, `complete`, `fail`, the handlers and
`cancelRun`. Each call of the recursive `walk` is an activation named by the path
of edges that led to it, so a node reached twice is walked twice, as in the code.
`frame[p].pc` is the await an activation is at: `handler`, `persist` (the row
update; `sent` is the context it carries, which is the one of the moment it was
issued), `log`, `branch`, `await`. `ctx` is `vars`, one object for all branches,
abstracted to who has written to it and to `_lastCondition`. Handlers return or
fail, in any order. `Begin`, `Complete`, `Fail` write the status without looking
at it; `CancelRead` and `CancelWrite` are the two calls of `cancelRun`. `Crash`
ends the process, after which nothing resumes the run.

**GraphValidation** – the scans of `validateGraph` as one step that collects the
kinds of error, then the depth-first search with its colours, its call stack and
the edges each call has left: a step is one call, one return or one edge that
needs no call.

**WorkflowsService** – the two to five calls of each operation. A request holds
what it read (`req`); `was` and `disturbed` are history variables for the
properties. Primary keys of nodes and edges are over all workflows, as in
`schema.prisma`, so a definition that shares ids with another workflow's rejects.

**AgentLifecycle** – the calls of each operation of `AgentsService`. A
configuration has the two fields the code treats differently: the instructions,
which must not be empty to deploy, and one of the fields that deploy restores
only when the version has a value for it. A request gives some of the fields
(`Missing` stands for the others); `Defaulted` is what create makes of that, `Merged`
what update does. `attached` holds the tools and knowledge bases attached; a
`duplicate` is four calls without a transaction, and `copies` is what each has made.

**Ingestion** – `KnowledgeService`: the lookup a request begins with, then its
calls. `ingestDocument` is `ReadDocument` … `Log`, with `Throw` from anywhere
inside its `try`. An upload goes on to ingest under its own name, which is both
what the large-file path awaits and what the small-file path leaves running. What
pieces a text has under a chunk setting is a constant. `insertChunk` binds the
embedding through `$executeRawUnsafe`; the model takes it to insert a row or to
reject, the latter being `Throw`.

**Quota**, **ToolExecutor**, **AgentRuntime** – `AgentRuntimeService.run` from
the load of the agent to the audit row. A handler that has been started is in
`handlers` until it answers or throws, whether or not anybody still waits. A
workflow's AGENT node names a conversation `wf-<runId>` that is created nowhere,
so `SaveUser` lets the foreign key reject it. What the model answers is a choice
from `Response`. A call of the model is looked up twice. `execute` takes the ACTIVE row
with that slug, or else the registered tool of that name, and by it judges risk and
arguments (`Judged`); `executeTool` then takes the registered tool, or else a row of
that name, whatever its status and risk (`Runs`). What each look-up finds for a call
are the constants `Slug`, `Registry` and `Named`, in any combination; its arguments are
`Args`.

**ProviderStreams** – `chatStream` of the OpenAI, Anthropic and Gemini providers. An
answer is a sequence of blocks, text or a tool call, each cut into fragments; the
provider sends the events of its API for it (`Events`, external: taken from how the
code reads them). `stream.next` is how many of them were taken, `half` and `line` say
that a read of Anthropic or Gemini ended in the middle of the next one and that this
part is buffered, and `stream.s` is what the code accumulates: content, calls,
`currentToolJson`, whether tokens were counted, and what `onChunk` was given. The
arguments of a call are compared as they are read: for a call without any, Anthropic's
`chat` has `'{}'` and `chatStream` `''`, which `parseArgs` and `safeJson` both make
an empty object. A read
that delivers several lines is as many `Read` steps. `Close` is the end of the stream,
`Break` a request or a read that rejects, `ErrorEvent` an error the provider reports
in the stream.

**ChatTurns** – a conversation turn by turn: `loadHistory` (the first rows, by
`createdAt`), the row of the user (saved by the caller too, on one of the routes),
the loop of model and tools, and the row of the answer; `formatMessages`,
`toAnthropicMessages` and `toGeminiContents` by the order and kind of what they
send. What the providers accept is external: every call is followed by its results,
and for Anthropic no message is empty.

**TextChunker** – `ingestDocument` from the extracted text to the rows. A text is a
sequence of word characters, newlines, blanks and the five marks that end a sentence or
a clause with a blank (`.` `!` `?` `;` `,`). `SEPARATORS` are the nine of the code in
its order, the last one empty. A piece is the positions of the text it shows; a chunk, how many
characters it begins with that are not of the text (`strange`) and the positions of
the others (`own`), so losing, repeating and reordering are visible. A text of *n*
characters has *n*/density tokens, rounded up; the tokenizer's merging of longer
texts into fewer tokens is left out. `tailTokens` decodes token numbers as bytes, so
what it returns of a long text is up to `chunkOverlap` characters of no text.
`recursiveSplit` is a function of the separators that are left, by their rank: a part
that is too long is split by the next one, and each call puts back, to the last piece it
has so far, the separator behind a part. So one piece may end in several.

**Sessions** – refresh tokens, links and passwords of one user. A token is a number
with the password its session began with and the token it was exchanged for. A call
of the browser goes through `sent`, `refused`, `find`, `rotate`, `renew`, `renewed`,
each an await of `AuthService` or of the response interceptor; it may also be a login.
Access tokens are not modelled one by one: one may have expired whenever the server
looks. A page left (`Leave`) drops what its calls would do; `Fault` is a call that
rejects or an answer that is lost. `excused` names what went on that a property
excepts.

**Membership** – `register` (user, slug, organization, owner, plan), `create`,
`inviteMember`, `updateMemberRole` and `removeMember`, each with the read of the
guard, those of the service and its write. All names ask for the same slug, so the
search for a free one always meets another.

**Integrations** – `IntegrationsService`, `EcommerceController.connectShopify` and
`disconnect`, and the tools that look an integration up. Ids and secrets are named
for the request that made them, so "whose secret is this" can be said: `by` is who
inserted a row, `secret` who wrote what it holds now. `create` takes any credentials,
as the DTO and the service do, and makes the row ACTIVE; `with` is a history variable,
the names it was given. `Outcomes` gives what a connector may answer with what it is given.

**Console** – the pages /knowledge, /workflows and /integrations over one query
cache: a list query, a query per item, and the mutations. The cache is external and
modelled from its use. A list carries each item's row and the number of its documents
or runs, as `listBases` and `list` return them and the cards show them; a fetch is
`sent`, `read` at the server, then received; an
invalidation restarts a fetch that has data and joins one that has none; the
callbacks of a pending mutation are those of the last render. The server's rows
change in one step here; the modules of the services take those steps apart.

The `MC…` modules give the constants values; the `…_proofs` modules hold theorems.
Definitions marked *Mutant of* are not part of a specification: each is a plausible
bug of the definition after it. With those that `PROJECT.json` lists the named
property fails; the others break a second conjunct of it.

## Runs

Deadlock is not checked (`CHECK_DEADLOCK FALSE`) in any run, because requests,
searches, calls and runs end. What must not stop is a property instead: `RunEnds`,
`Settles`, `NoRunWaits`.

| Run | Question | Bounds |
|---|---|---|
| `runner` | Does a run implement its contract, do row, log and context agree, does a branch take its own condition's edge, and does the run end? `CompletedIsWhole`, `OwnConditionPicksEdge`, `StragglersComeFromForks`, `ImplementsContract`, `RunEnds` | four graphs: a fork that joins, two conditions in parallel, a default edge with a fan-out in sequence, a fork in a fork with an edge on run data. 1 cancellation, 1 rejection, a crash |
| `workflows` | Versions, runs and tables under overlapping requests. `OneGraphPerVersion`, `RunsWereActive`, `RunsAreValid`, `TablesMirror` | 2 workflows, 2 requests of any kind, 3 valid graphs that share node or edge ids and an invalid one, 1 rejection |
| `agents` | Versions and the columns of the agent. `AgentsInv`, `CommittedKept`, `RollbackRestores` | 3 requests of any kind, 3 configurations (two that leave a field out, one with empty instructions), a tool and a knowledge base, 1 rejection |
| `ingestion` | What chunks a document has, and that it settles. `IngestionInv`, `CompletedIsWhole`, `Settles` | 3 requests of any kind, 1 document, settings that give one piece and two, 1 fault: a rejection outside the `try`, or a crash. Exceptions inside it are not bounded |
| `runtime` | Runs: cache, rows, messages and progress. `RuntimeInv`, `CacheFollowsRows`, `RefusalsAreRight`, `HighRiskIsHeld`, `ToolRowsAreTruthful`, `NoRunWaits`. Conversations: what is made of a stream, and what the next turn sends. `ChatInv`, `StreamAgrees`, `RefusalsHaveACause` | 2 runs near a limit of 2 tokens, one with tools, 7 kinds of call (two whose slug and name find different tools), 2 iterations (the code: 10), 1 rejection. 3 turns with each provider, 3 answers (text; text and a call; two calls, one without arguments), 2 iterations, a history of 3 rows (the code: 50), 1 fault |
| `algorithms` | The verdicts of the search, and the chunks of a text. `CycleVerdict`, `EndVerdict`, `RowsTellTheText`, `SizesBounded` | all 4096 sets of edges on four nodes, nine malformed definitions; all 16384 texts of seven characters with one kind of mark, all 15625 of six without newlines with three kinds, and six in which separators of several ranks follow each other, under six settings, pieces of 3 tokens (800), 2 characters to a hard-split token (4), batches of 3 and 2 (16 and 100) |
| `sessions` | Rotation, reset, links, and what the browser keeps. `SessionsInv`, `RotationIsSingle`, `ResetEndsSessions`, `StoredTokenIsUnspent`, `ForgetsOnlyDeadSessions` | 2 calls against 1 other request, 1 call against 2, or 2 that verify an address; 2 links, 5 tokens, 1 fault |
| `membership` | Owners and accounts. `MembershipInv`, `AccountsHaveOrganization` | 3 requests, 2 members in any roles of three and a newcomer, 3 slugs, 1 rejection |
| `integrations` | Secrets and rows. `IntegrationsInv`, `ShopIsOneShop`, `ReplacedSecretsAreGone` | 3 requests or tool calls of any kind, 2 connectors (one with two keys) made with any of their keys, and the shop, 1 rejection |
| `console` | What the pages show. `ConsoleInv`, `OwnChangesShow` | 2 items, 2 clicks, 2 calls at once, 1 answer or fetch lost |
| `algorithms_overlap`, `runtime_risk` | One statement each of a comment or document that the code does not keep: see [Findings](#findings) | as `algorithms`, `runtime` |

The type invariants of the runner, the search and the workflows service are
theorems of their own (below). The others are conjuncts of `AgentsInv`, `IngestionInv`,
`RuntimeInv`, `ChatInv`, `SessionsInv`, `MembershipInv`, `IntegrationsInv` and
`ConsoleInv`, with one or two of the properties of the module:

| Invariant | Besides the types |
|---|---|
| `AgentsInv` | no version or attachment outlives the agent; status, `deletedAt` and the pinned version agree as long as requests do not overlap |
| `IngestionInv` | deleted documents have no chunks, archived bases show nothing |
| `RuntimeInv` | an answered run has its messages and its usage row |
| `ChatInv` | the row of a turn without error is of the model's last answer |
| `SessionsInv` | a link works once; a stored token has a stored user |
| `MembershipInv` | every organization has an OWNER |
| `IntegrationsInv` | an integration keeps a secret of every name it was made with |
| `ConsoleInv` | search results are of the selected base |

Why the bounds are enough:

- Two overlapping requests show every read-then-write race in
  `WorkflowsService`, whose properties relate two rows or one row and one run.
  The third request of `agents` lets a rollback and a commit overlap on an
  agent that a first request created; that of `ingestion` lets an ingestion,
  a reindex and a change of settings be under way at once; that of `membership` and
  `integrations` lets two race on what a first one made.
- One rejected call shows each place where a sequence of calls can stop; a
  second only stops a second request.
- A graph matters to the runner by what happens at a node: one match, several,
  none, END, PARALLEL, a failure. Each graph has one of the combinations that
  differ, nested once.
- Two iterations of the tool loop are the first one and the last one, which is
  all the code tells apart; two calls in the first answer make a sequence of
  tools. One handler may still be running while the run has gone on, answered
  late or timed out.
- Two runs are enough for the cache: one sums while the other inserts.
- Three turns are one that leaves something behind, one that meets it, and one after
  the history has outgrown what is loaded. Fragments of a block are at most two,
  which is a first and a later one.
- Seven characters with limits this small are several pieces of each kind: shorter
  than a chunk, as long as one, longer, and longer than what is split at all. Three
  kinds of mark are a separator that is tried, one before it and one after it; the
  texts of stacked separators have several put back to one piece.
- Seven kinds of call are HIGH and LOW from the database and from the registry,
  arguments that are not JSON, and a LOW slug that is the name of a HIGH tool or of none.
- In `sessions` two calls of one page are the one that rotates first and the one that
  finds its token spent; five tokens are never all used by calls and requests that
  get so far.
- Two clicks are a change and one that is answered out of order with it.

Conditions in the properties. Some guarantees hold only where requests do not
overlap in a certain way, and the properties say so rather than omit the overlap. In
each of these cases the model reaches states without the guarantee:

| Property | Exception |
|---|---|
| `TablesMirror` | a workflow whose last replacement failed or overlapped another |
| `OwnConditionPicksEdge` | a CONDITION in another branch of the same fork came to the outcome that selects the edge |
| `RunEnds` | a database error, or the end of the process |
| `AgentsInv` (status) | requests that overlapped |
| `CompletedIsWhole` of `Ingestion` | a reindex that overlapped an ingestion, or one that stopped between its two writes |
| `IngestionInv` | a deletion during an ingestion, an upload during the archiving |
| `CacheFollowsRows` | a sum that another row overtook |
| `RotationIsSingle` | two refreshes that both found the token unrevoked |
| `ResetEndsSessions` | a login, refresh or switch past its check when the tokens were revoked; an access token from before that was then switched |
| `SessionsInv` | a link opened twice at once, or whose key's deletion was rejected; a refresh in progress when another call forgot the session |
| `StoredTokenIsUnspent` | a page left during a refresh |
| `ForgetsOnlyDeadSessions` | an answer lost, or tokens stored by another call meanwhile |
| `MembershipInv`, `AccountsHaveOrganization` | two role changes, or a change and a removal, that overlapped; two registrations with one slug; a rejected call |
| `HighRiskIsHeld` | a HIGH tool whose name is the slug of a row of lower risk |
| `ReplacedSecretsAreGone` | two rotations, two connects, or one of each, or a create and a rotation that overlapped |
| `IntegrationsInv` | an integration that is being made or connected; a rejected call |
| `ShopIsOneShop` | a secret that a rotation has put in the place of that shop's; two connects, or a connect and a rotation, that overlapped; a rejected call |
| `OwnChangesShow` | a change answered after another item was selected, and a first load read before the change; for the number on a card, an upload or a run since the list was last fetched |
| `ConsoleInv` | a search answered after the selection moved on |
| `RefusalsHaveACause` | an answer with tool calls in the history, or an empty one with Anthropic: then the provider does refuse |
| `ChatInv` | a turn that met an error, or whose stream was cut short by an error event |
| `SizesBounded` | slices of a piece that is longer than a chunk: as many characters as `hardSplit` cuts, with words from no more of the text than `PieceLimit` tokens |

### Fairness

- `runner` uses `FairSpec`, weak fairness of the runner as a whole. The
  event loop serves a settled promise, and handlers settle: a tool call has a
  timeout, a wait is capped, a call to a provider ends or rejects. Nothing is
  assumed of cancellations. With a crash or a rejected `fail()` the row stays
  RUNNING for ever, which is why `RunEnds` ends with "or the process stopped, or a
  call was rejected".
- `Ingestion` uses weak fairness of each request that has begun: its calls are
  answered or reject. It assumes nothing of clients and nothing of faults, and
  `Settles` ends with "or a fault happened", since nothing resumes what a
  process was doing.
- `AgentRuntime` assumes none: `NoRunWaits` is a state property, that a run
  which has not ended has a step of its own. The other modules assume none either:
  their properties say what may not happen.

## Findings

Two runs end in a counterexample, to what a comment or document says:

`algorithms_overlap`: `tailTokens` (`text-chunker.ts:131`) takes the numbers of the
last tokens for bytes and decodes those, so what is put before the next chunk has
nothing to do with the one before, unless that one is no longer than the overlap. The
comment at `text-chunker.ts:10` says "Carry an overlap of `chunkOverlap` tokens between
consecutive chunks for context continuity."

`runtime_risk`: `execute` judges the risk of the row whose slug was called
(`tool-executor.ts:71`, `99`), `executeTool` looks the call up again by name and judges
nothing (`tools.service.ts:125-139`). Where the slug of a LOW row is the name of a HIGH
tool, that one runs and no task is created. `docs/tools.md:92` says of HIGH: "*blocked*;
a `Task` of type `REQUIRES_APPROVAL` is created". `HighRiskIsHeld` is what does hold: a
call whose slug is of a HIGH row never starts, a HIGH tool starts only under the slug of
another row.


Other places where the code and what is written differ. The models show the first
five as exceptions to their properties or as states they reach, and of the next two they
have the code's side (`Tool` of `ChatTurns`, `RecordUsage` of `AgentRuntime`); the rest
was met while reading.

- `run`, `complete` and `fail` of the runner overwrite CANCELLED
  (`workflow-runner.ts:97`); `docs/workflows.md:96` ends a run's life there.
- A branch may take an edge by another branch's `_lastCondition`
  (`workflow-runner.ts:122`); `docs/workflows.md:76`: the node writes it for the
  runner to pick the next edge. `OwnConditionPicksEdge` says when.
- A cycle the TRIGGER does not reach is accepted (`graph.validation.ts:65`);
  `graph.validation.ts:14`: the graph is a DAG.
- activate and pause write by id what they decided from an earlier read
  (`workflows.service.ts:102`), so they revive a workflow archived meanwhile;
  `workflow-state-transitions.spec.ts:133`: status must remain ARCHIVED.
- A run from the page invalidates `['workflow-runs', selectedId]` only
  (`workflows/page.tsx:74`), an upload `['knowledge-base', selectedId]` only
  (`knowledge/page.tsx:230`), but the number on the card is of the list query
  (`workflows.service.ts:25`, `knowledge.service.ts:58`): with nothing on its way the
  list shows the number from before. `docs/frontend.md:85` gives the list of workflows
  its "run count", line 79 that of bases its counts.
- The comment at `agent-runtime.service.ts:243` says of a call that waits for approval
  "Don't feed back to model — execution is pending"; the code under it (244–253) gives
  the model a result that says so, as `docs/tools.md:92` has it and as the providers
  need it, who want a result for every call. So `ChatInv` and `RefusalsHaveACause` count on it.
- `docs/ai-runtime.md:66`: every call to a provider, chat or embedding, appends a row of
  `usage_records`. `run` appends one per answered run, with the sum of its calls
  (`agent-runtime.service.ts:286`); embeddings and test runs append none, and a run
  of which a call of a tool or of the database rejects before that has none either.
- A run reads the agent row (`agent-runtime.service.ts:93`), which `update` writes
  while it is deployed; `agents.service.ts:222`: the runtime reads the pinned version.
- `connectShopify` stores domain and token encrypted and `buildShopifyConnector`
  (`ecommerce.service.ts:99`) hands the stored text on, so no request of a connected
  shop reaches a host; `integrations/page.tsx:97` tells the user that the agent can
  now query the orders.
- `docs/ai-runtime.md:128` says the tool results are persisted in `messages`; no row
  with the role TOOL is ever written. The calls are (`toolCalls` of the answer), so a
  later turn sends calls without results, which providers refuse.

Observations that no property states, because one step shows them:

- `create` of an integration takes any object for credentials and makes the row ACTIVE,
  with none too; the tools then find it and call out with nothing. A rotation of one key
  of the shop is not compared with the shop the other key is of.
- No tool that is registered is HIGH, so `TOOL_HIGH_RISK_UNTRACKED` answers nobody. A
  custom tool whose name is not its slug is called by its slug, judged by it, and then
  not found by name.
- The number of documents on a card counts the deleted ones too; that of chunks is
  always 0, since `listBases` counts none.
- `loadHistory` takes the first 50 rows, not the last: a long conversation stops
  remembering. The conversation route saves the message of the user twice.
  `getShortTerm` is never read.
- An error event in the middle of an Anthropic or Gemini stream is no event the code
  knows: the part that came counts as the answer. Gemini is sent the first system
  message only.
- The query of a search is always embedded by `text-embedding-3-small`, whatever the
  base was embedded by.
- `updateBase` allows `chunkOverlap >= chunkSize`, after which every ingestion fails
  in `split`; `CreateKnowledgeBaseDto` declares the numeric `chunkSize` a string.
  `recursiveSplit` splits at 800 tokens whatever the base is set to; it drops the
  separator behind an empty part, and puts that of a part of separators alone to the
  piece before. So a piece may be longer than 800 tokens by any number of separators.
- `insertChunk`, `updateEmbedding`, `getStats` and the queries of invitations hand
  `$executeRawUnsafe`/`$queryRawUnsafe` their parameters as one array. The models take
  the call to work or to reject.
- The tasks page posts to routes that do not exist, and nothing else approves a task;
  the agents and conversations pages read the paged answer of GET /agents as an array;
  the chat page posts to a route that is a GET stream; `?agentId=` of the conversations
  page is not read.
- `seed.ts` stops at its second step. `runWithTenant` sets a local setting outside a
  transaction, which has no effect. `TenantGuard`, `PermissionService` and `use-auth`
  are used by nothing.

## Theorems

All are of the form `Spec => []P`, `Spec => [][A]_vars` or `Spec => Contract!Spec`, for
every value of the constants the assumptions admit: any number of requests, runs, calls
and rejections, any graphs, any configurations. Each rests on an inductive invariant,
`IInv` of the module it is about (`ValidationInv` for the search, `ChatIInv`,
`ConsoleIInv`, `ChunkerInv`), which TLC has checked on the instance of the run; but for
`ChunkerInv`, whose quantifiers over the positions reached it cannot enumerate. The
assumptions are those of the modules, and TLC evaluates them in the runs:

| Assumption | What it says |
|---|---|
| `GraphsAssumption`, `BoundsAssumption`, `DefinitionsAssumption` | graphs have the shape that types and `validateGraph` give them; a limit is a number |
| `ConfigAssumption` | a configuration has its two fields; the default instructions are not empty |
| `PiecesAssumption` | a text has some number of pieces under each chunk setting |
| `QuotaAssumption`, `CallAssumption`, `RuntimeAssumption` | there is a run; each of the three look-ups of a call finds a risk or nothing, in any combination, and its arguments are of three kinds; the model answers with a sequence of calls and a number of tokens |
| `KnownAssumption`, `RoleAssumption`, `SlugsAssumption` | somebody has an account at the start; OWNER and ADMIN are roles; there is a slug |
| `ProviderAssumption`, `EarlierAssumption`, `FaultsAssumption` | connectors are of the kinds that are registered; what was stored before was brought by none of the requests; a limit is a number |
| `PurposeAssumption`, `LinkAssumption`, `CastsAssumption`, `MaxAssumption` | a link has one purpose; there is a link and a token |
| `TextAssumption`, `SettingAssumption`, `LimitsAssumption` | texts are of the eight kinds of character; settings are numbers, and a token has a character; the limits are positive |
| `ItemAssumption`, `ConsoleBounds` | no item is called what stands for the list, its counts or for none; a limit is a number |
| `ProviderAssumption` (of `ProviderStreams`), `AnswerAssumption`, `ChatBounds` | the three providers; answers are sequences of blocks of any size; a limit is a number, and there is an iteration |

**WorkflowRunner_proofs** – `TypeCorrect`, `CompletedWhole`,
`Refinement`, `StragglersUnderForks`, `OwnOutcomePicks`. None of the properties is
inductive: that COMPLETED is written only when every activation is done rests on the
tree of activations. `IInv` adds

- `RootInv` – the root exists from `Begin` on;
- `TreeInv` – whatever lies below an activation lies below, or is, a child of it;
- `SpawnInv` – children exist only once their parent awaits them, and the edges it
  has left to walk have no activation yet;
- `DoneInv` – an activation returns after everything below it has;
- `LogInv` – whoever got past the insert has a log row, so what led to an activation
  is logged (`LogHasNoGap`);
- `VerdictInv` – the verdict is given on a root that is done, and nothing moves
  after COMPLETED.

`DoneInv` is the heart: `Return` sees only that children are done, and `TreeInv`
carries it to all descendants. `WalkStepShape` says of all twelve steps of `walk` at
once that one activation in flight goes on and new leaves appear below it; the parts
of the invariant are preserved by any step of that shape. The refinement maps `open`
to the activations that have not settled, `verdict` to `phase`, and shows that each
action is a step of the contract or a stutter; it needs `IInv` for `Complete` alone
(nothing is open when the root is done).

The last two theorems need `BranchesInv`. `SequenceInv`: of the children of anything
but a PARALLEL node, all but one are done, since `walk` awaits each before the next.
So a failure that leaves something in flight (`FailedInv`) has passed a fork: with no
fork in between, the child that failed and the child above what is in flight would be
the same. `PathsInv`: two activations lie on one path or part at a common one; the
lemma `Divergence` puts the two together: two activations that have not returned
and are not on one path are in different branches of a fork. That is who may have written
`_lastCondition` between a CONDITION's handler and its look at its edges
(`OutcomeInv`): nobody below it, since it has not started anything, and nobody it was
awaited by.

**Workflows_proofs**, about the search – `SearchTypeCorrect`, `RecursionIsSimple`,
`CycleCorrect`, `EndCorrect`, for definitions of any size. Reachability is said without
recursion: a node is reachable when it is in every set that holds the TRIGGER and
that no edge leaves. `StackInv` says gray nodes are the calls in progress, each
below its callers; `CycleInv` that, until a cycle is seen, edges of black nodes lead
to black nodes and no black node is on a cycle. When the search ends the
black nodes are closed, so they are all that is reachable, and both verdicts follow.

**Workflows_proofs**, about the service – `TypeCorrect`, `VersionsIdentifyGraphs`,
`RunsComeFromActiveRows`, `RunsAreOfValidGraphs`, `TablesAreTheDefinition`. `IInv`
adds `HistoryInv` (no past row has a greater version than the present one, and every
graph ever stored is valid) and `HeldInv` (what a request holds was validated, or was
read from one ACTIVE row). The version is incremented by the database in the
statement that writes the graph; that is all the first theorem rests on. For the last
one `MirrorInv` says how far a replacement has got (`Halfway`): both tables empty, nodes
there, edges there; and that no other request replaces the same workflow's graph
unless `disturbed` says so.

**AgentLifecycle_proofs** – `VersionsAreKept`, `RowsAgree`, `RollbackIsExact`. That no
commit loses a version although its number comes from an earlier read rests on the
unique index: numbers have no gaps (`RowsAreOfAgent`), so a number beyond the last is
refused when somebody else took it, and what requests answer for are different
versions (`OwnVersionsDiffer`, `OwnVersionIsKept`). The configuration a rollback
copies is written by a call after the one that inserts the version; nobody writes it
in between because a version belongs to the request that inserted it. `Alone` and `StillSo`
say that without overlap one request is in progress and finds what it read; from that,
status, `deletedAt` and the pinned version agree, and a rollback pins an equal of its
target.

**AgentRuntime_proofs** – `CacheCorrect`, `RefusalsCorrect`, `HighRiskHeld`,
`ToolRowsCorrect`, `AnswersAreWhole`: the three modules in one specification.
*Quota*: a sum of rows may be behind the table, never ahead (`SumsFollowRows`,
`SumsAreBehind`), and an insert that a sum missed is in `overtaken`; so a cached status
is the rows, or excused, and whoever is refused is over the limit by rows that are
there. The amount used is the cardinality of the set of tokens of the rows, which grows by
subset: no induction over rows is needed. *Tools*: that a handler is only of a call that
may start follows from `Judged` alone, whatever `Runs` then finds, so that is all the
theorem can say (`MayStart`); who may be at which call for what risk
(`WritesAreDue`), and, as long as nothing was rejected, one row a call
(`RowsAreSingle`). *Run*: `QuotaKeepsPace` ties the labels of a run to those of its
check, `NothingEarly`, `MessagesInOrder` and `UsageIsWhole` say which rows there are
at each label.

**AgentRuntime_proofs**, about streams and conversations – `StreamsAgree`,
`AnswersAreKept`, `RefusalsAreCaused`, from `ChatInductive`: answers of any number of
blocks and fragments, reads that end anywhere, conversations and histories of any
length. `StreamIInv` says where in the answer an open stream is (`Placed`: in the
opening, at event *j* of block *b* + 1, or in the closing) and what must have been made
of it by then (`SoFar`: the text and the calls of the blocks before, and of this one
`Pieces`; for Anthropic `currentToolJson` too). `StreamAdvances` takes one event,
provider by provider: within a block, past its last event, and into the closing, whose
end has the answer whole (`StreamEnds`). That deltas add up to the arguments of the
calls (`AddsUp`) needs that no delta names a call that is not there. The joined
sequences are folds; the lemmas at the beginning (`JoinedTo`, `FirstNext`, `Holds`) say
how they grow, by an induction (`Induct`) that comes from the least element of a set of
numbers. *Turns*: `MessagesAreWhole` is about `Due`, the messages with the results that
are still to come: of these everything behind the message of the user is in its place
(`InPlace`) from the moment an answer is heard. `Tool` leaves `Due` as it is
(`ToolDue`), so when the model is asked again the messages of the turn are what every
provider wants. What is left to refuse is what was loaded (`TakesIs`), whatever form
the request takes (`RequestMirrors`, `AcceptsIs`).

**Membership_proofs** – `OwnersRemain`, `AccountsAreWhole`. `OverlapsAreSeen`: two
requests in progress that could race are in `overlapped`. The owner argument is
`OwnersAreSecure`: every organization has an OWNER of whom no removal past its check
has decided (`Secure`), or its creator is about to become one and nobody else knows
the organization (`NobodyYet`); a role change past its check was made by an OWNER
and is of somebody else. `RegistrationsSucceed`: without a race for the slug, what
each of the four inserts of `register` needs to be free is still free.

**Browser_proofs**, about sessions – `LinksWorkOnce`, `RotatesOnce`, `ResetsEndSessions`,
`StoresUnspent`, `ForgetsTheDead`. A token that was exchanged is revoked
(`SpentIsDead`); two calls that rotate the same token both found it unrevoked and are
excused (`RotatesAlone`); a token about to be issued is no older than the last reset
(`IssuesAreRecent`), unless it is issued by a request past its check; a token not stored
yet is known to one call (`HeldAlone`). What a page that was left would have stored
(`LeftBehind`) and whom the server denied (`DeniedIsDead`) give the last two.

**Browser_proofs**, about the console – `ResultsAreOfTheBase`, `ChangesShow`. A page
may show old data in two ways: the query is stale and nobody fetches it again, or a
fetch read the server before the change and is received after it. `ShownIsFresh`
excludes the first for what is shown; `FreshIncludes` says of fresh data and of what a
fetch has read that it has every change the page was told of, for every key that is
not in `missed`; and `ToldIsStored` that what the page was told is in the rows, so a
fetch that reads now has it. An upload and a run show in two keys, their item and the
numbers of the list, and only the first is invalidated: the numbers of the list are in
`missed` on their own, its rows are not, and a fetch that has not been read makes up for
either.

**Ingestion_proofs** – `CompletedDocumentsAreWhole`, `DeletionsAreComplete`. `Progress`
says what chunks and status a document has at each label of the one who works on it:
none, those below the index it has got to, all. It holds while nobody else works on
the document: two uploads have documents of their own (`OwnDocument`), and an upload
and a reindex or two reindexes of it at once are in `overlapped` (`Overlaps`). That
the number of chunks is that of the pieces needs a bijection with an interval, the
lemmas `CutsAreCut` and `CutsGrow`.

**Ingestion_proofs**, about the chunks of a text – `ChunkerInductive`, `RowsOfTheText`,
`ChunkSizes`. Three facts about algorithms come first, each by induction on positions
(`Counting`, `Recursive`), the definitions being functions of a natural number:

- what is between two separators (`PartsOfStretch`): the parts of a stretch of
  positions are stretches that follow each other, each with the separator behind it;
- the pieces of `recursiveSplit` tile what they were split from (`Tiles`,
  `recursiveSplitTiles`, from the last of the nine separators to the first): each
  has positions in increasing order and every word between its first and its last
  (`PieceIn`), they follow each other, and no word is left out between two of them.
  A separator behind a part of which nothing is left may be put to a piece that has
  ended before, so a piece need not be a stretch, and has no bound on its length; what
  is bounded is how far apart its words are (`Room`, the characters of `PieceLimit`
  tokens), since what is put back has none;
- `Slices` cut a sequence into consecutive stretches (`SlicesAre`), and the batches of
  `embedMany` give each text its own embedding (`embedManyEmbeds`).

`ChunkerInv` then follows `mergePieces`: the chunks tell all words up to *y*, the
buffer those from *x* to *done*, with *x* at most *y* + 1, and the pieces that are left
begin behind *done* (`MergedTo`). `tailTokens` moves *x* to after *done*, or leaves it;
`HardSplit` and `Commit` move *y* to *done*. Every chunk is bounded as the property says
(`Sound`), the buffer by the tokens counted for it, a slice by where it was cut and by
the piece it is of (`HardSlicesAre`). Trimming keeps the words, the chunks
it empties have none, and a batch copies the chunks that come next.

**Integrations_proofs** – `ReplacedSecretsGo`, `IntegrationsAreWhole`, `ShopsAreApart`.
None is inductive, because what a step writes rests on what it read. An id is of one
integration and is not used again (`IdsName`), so a request that is late acts on what
it looked up, or on nothing. A secret is new when it is written (`SecretsInv`), so what
replaces another was not replaced itself; and as long as nothing overlapped there is
one row of a kind, since a rotation that found none still finds none (`RotateInv`) and
what creates an integration has yet to store the keys it has left (`CreateInv`). An
integration nobody is making has all the secrets it was made with (`CompleteInv`): a
connect deletes before it inserts, but is in progress from one to the other. `ShopInv`
says that the rows of the shop are those of the last connect, or that it is at work; this
is where two connects, or a connect and a rotation, have to be excepted, and
`OverlapsAreSeen` is why `overlapped` tells. What such a row holds is what it came with,
or that was replaced and noted (`FirstSecrets`, an invariant of its own).

## Only model-checked

- `RunEnds` and `Settles` (liveness) and `NoRunWaits` (`ENABLED`) are out of the
  prover's reach.
- That the comment on the overlap (`OverlapIsText`) and the statement of the document
  on HIGH risk (`HighNeverRuns`) do not hold is TLC's counterexample.
- `ReplacedSecretsAreGone`, `RefusalsHaveACause` and the other properties with
  exceptions are proved with them: that the exceptions are needed is TLC's, which
  reaches the states without the guarantee.

## Not modelled

- *Parts of modelled components*: prompts, retrieval and short-term memory in the
  runtime; schema validation and what handlers do in the executor; the turn of the
  month and the plan in the quota; slugs, lists and
  statistics of agents; extraction and the ranking of chunks; the payloads and
  interpolation of workflow nodes; triggers of workflows and the signature of the
  webhook; account status and mail in authentication; the catalogue, prices and
  embeddings of the gateway; what the Shopify connector makes of an answer.
- *Invitations*: not reachable. `OrganizationsController` answers their path first,
  and nothing calls `finalizeAccept`.
- *One row or one remote call each, with nothing to interleave*: users, tasks,
  memory, audit, analytics, billing, mail, storage, configuration.
- *Decisions on one request from one row*: tenancy, permissions, filters, throttling,
  outgoing request checks. Every module but `Membership` is inside one organization.
- *Pages*: agents, tasks, conversations and chat call routes that do not exist or read
  another shape than is answered; the others keep no state beyond a form.
- *Seeds, deployment, CI, documentation*: no program logic.

## Plan

Modules were written in this order, the most important behaviour first: the
runner and its contract, validation, the workflows service, agents, ingestion, the
runtime with quota and tools; then sessions, membership, integrations, the console,
the streams with the conversation, and the chunker. What is left, in order:

1. Abstract specifications worth stating next: a document's life as
   `Ingestion` implements it, an approval's as `ToolExecutor` does, and a session's as
   `Sessions` does.
2. Retrieval: which chunks a query is answered with, and in what order.

## Running it

    tlc -workers 2 -config MCWorkflowRunner.cfg MCWorkflowRunner
    tlapm WorkflowRunner_proofs.tla

A configuration is named after its MC module, with a suffix for the further one of
a module (`MCAlgorithms_overlap.cfg` is run with module `MCAlgorithms`). On two workers
the longest runs, `ingestion`, `membership` and `runtime`, take about two minutes each. From
nothing the proofs take one to three minutes a module, and those of `AgentRuntime_proofs`
and `Ingestion_proofs` about ten.
