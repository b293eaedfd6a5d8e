----------------------------- MODULE ChatTurns -----------------------------
(***************************************************************************)
(* A conversation, turn by turn: what the runtime loads of it, what it     *)
(* sends to the provider in which form, what it makes of the streamed      *)
(* answers and what it keeps.  One turn at a time; quota, usage and the    *)
(* rows of the tools are in AgentRuntime.                                  *)
(***************************************************************************)
EXTENDS ProviderStreams, Functions

CONSTANTS
  MaxTurns,       \* bound: messages of the user
  MaxToolIterations,  \* MAX_TOOL_ITERATIONS
  HistorySize,    \* how many rows loadHistory takes
  MaxMishaps       \* bound: streams that break or are cut short, crashes

ASSUME ChatBounds ==
  MaxTurns \in Nat /\ MaxToolIterations \in Nat \ {0} /\ HistorySize \in Nat /\ MaxMishaps \in Nat

VARIABLES
  rows,        \* the messages of the conversation, by createdAt
  turn,        \* where the runtime is, and what it holds
  turns, mishaps,
  told         \* history: the content handed on during the turn, and the last answer

chatVars == <<provider, stream, rows, turn, turns, mishaps, told>>

(* A call is named for its turn, iteration and block.  "said" is whether   *)
(* the content is any, "of" the call a result is of.                       *)
CallId == (1..MaxTurns) \X (0..MaxToolIterations - 1) \X (Nat \ {0})

ChatMessage ==
  [role : {"system", "user", "assistant", "tool"}, said : BOOLEAN, calls : Seq(CallId), of : CallId \cup {<<>>}]

Label == {"idle", "load", "save", "model", "stream", "tools", "persist"}

ChatTypeOK ==
  /\ StreamTypeOK
  /\ rows \in Seq([message : ChatMessage, content : Seq(Fragment)])
  /\ turn \in [pc : Label, messages : Seq(ChatMessage), iteration : 0..MaxToolIterations - 1, calls : Seq(CallId),
               left : Seq(CallId), content : Seq(Fragment), error : BOOLEAN]
  /\ turns \in 0..MaxTurns /\ mishaps \in 0..MaxMishaps
  /\ told \in [answer : Answer \cup {<<>>}, cut : BOOLEAN]

-----------------------------------------------------------------------------

Said(role) == [role |-> role, said |-> TRUE, calls |-> <<>>, of |-> <<>>]

Answering(content, calls) == [role |-> "assistant", said |-> content # <<>>, calls |-> calls, of |-> <<>>]

ResultOf(call) == [role |-> "tool", said |-> TRUE, calls |-> <<>>, of |-> call]

Idle == [pc |-> "idle", messages |-> <<>>, iteration |-> 0, calls |-> <<>>, left |-> <<>>, content |-> <<>>, error |-> FALSE]

Untold == [answer |-> <<>>, cut |-> FALSE]

ChatInit ==
  /\ provider \in Provider /\ stream = NoStream
  /\ rows = <<>> /\ turn = Idle /\ turns = 0 /\ mishaps = 0 /\ told = Untold

Resume(pc) == turn' = [turn EXCEPT !.pc = pc]

Keep(message, content) == rows' = Append(rows, [message |-> message, content |-> content])

(* sendMessage saves the message before it runs the agent; the chat route  *)
(* leaves that to the runtime.                                             *)
Begin(saved) ==
  /\ turn.pc = "idle" /\ turns < MaxTurns
  /\ turns' = turns + 1
  /\ turn' = [Idle EXCEPT !.pc = "load"]
  /\ told' = Untold /\ stream' = NoStream
  /\ IF saved THEN Keep(Said("user"), <<>>) ELSE UNCHANGED rows
  /\ UNCHANGED <<provider, mishaps>>

(* The oldest rows, oldest first.                                          *)
loadHistory == [i \in 1..(IF Len(rows) < HistorySize THEN Len(rows) ELSE HistorySize) |-> rows[i].message]

LoadHistory ==
  /\ turn.pc = "load"
  /\ turn' = [turn EXCEPT !.pc = "save", !.messages = <<Said("system")>> \o loadHistory \o <<Said("user")>>]
  /\ UNCHANGED <<provider, stream, rows, turns, mishaps, told>>

SaveMessage ==
  /\ turn.pc = "save"
  /\ Keep(Said("user"), <<>>)
  /\ Resume("model")
  /\ UNCHANGED <<provider, stream, turns, mishaps, told>>

-----------------------------------------------------------------------------
(* What a request looks like to the provider.                              *)

formatMessages(m) == m

(* The system prompt travels apart; a result is a block of the user.       *)
toAnthropicMessages(m) == IF m.role = "tool" THEN [m EXCEPT !.role = "user"] ELSE m

toGeminiContents(m) ==
  [m EXCEPT !.role = CASE m.role = "tool" -> "function" [] m.role = "assistant" -> "model" [] OTHER -> "user"]

Request(messages) ==
  LET apart == FlattenSeq([i \in DOMAIN messages |-> IF messages[i].role = "system" THEN <<>> ELSE <<messages[i]>>])
  IN CASE provider = "openai" -> [i \in DOMAIN messages |-> formatMessages(messages[i])]
       [] provider = "anthropic" -> [i \in DOMAIN apart |-> toAnthropicMessages(apart[i])]
       [] provider = "gemini" -> [i \in DOMAIN apart |-> toGeminiContents(apart[i])]

(* Every provider wants the results of all calls right after the calls,    *)
(* and no result of anything else; Anthropic takes no empty message.       *)
Accepts(request) ==
  /\ \A i \in DOMAIN request :
       \A k \in DOMAIN request[i].calls :
         i + k \in DOMAIN request /\ request[i + k].of = request[i].calls[k]
  /\ \A i \in DOMAIN request :
       request[i].of # <<>> => \E h \in 1..(i - 1) : request[i].of \in ToSet(request[h].calls)
  /\ provider = "anthropic" => \A i \in DOMAIN request : request[i].said \/ request[i].calls # <<>>

-----------------------------------------------------------------------------

Refused ==
  /\ turn.pc = "model" /\ ~Accepts(Request(turn.messages))
  /\ turn' = [turn EXCEPT !.pc = "persist", !.error = TRUE]
  /\ UNCHANGED <<provider, stream, rows, turns, mishaps, told>>

Asked ==
  /\ turn.pc = "model" /\ Accepts(Request(turn.messages))
  /\ \E a \in Answer : Open(a) /\ told' = [answer |-> a, cut |-> FALSE]
  /\ Resume("stream")
  /\ UNCHANGED <<provider, rows, turns, mishaps>>

Streaming ==
  /\ turn.pc = "stream"
  /\ \/ (Read \/ Close) /\ UNCHANGED <<mishaps, told>>
     \/ ErrorEvent /\ mishaps < MaxMishaps /\ mishaps' = mishaps + 1 /\ told' = [told EXCEPT !.cut = TRUE]
     \/ Break /\ mishaps < MaxMishaps /\ mishaps' = mishaps + 1 /\ UNCHANGED told
  /\ UNCHANGED <<provider, rows, turn, turns>>

(* The catch around chatStream ends the loop.                              *)
StreamFailed ==
  /\ turn.pc = "stream" /\ stream.at = "failed"
  /\ turn' = [turn EXCEPT !.pc = "persist", !.error = TRUE]
  /\ UNCHANGED <<provider, stream, rows, turns, mishaps, told>>

IdsOf(calls) == [i \in DOMAIN calls |-> <<turns, turn.iteration, calls[i].id>>]

(* Mutant of Heard: only an answer without calls is the final content.  *)
HeardLate ==
  /\ turn.pc = "stream" /\ stream.at = "done"
  /\ LET ids == IdsOf(stream.s.toolCalls)
     IN turn' =
          IF ids = <<>> THEN [turn EXCEPT !.pc = "persist", !.content = stream.s.content]
          ELSE [turn EXCEPT !.pc = "tools", !.left = ids,
                            !.messages = Append(@, Answering(stream.s.content, ids))]
  /\ UNCHANGED <<provider, stream, rows, turns, mishaps, told>>

Heard ==
  /\ turn.pc = "stream" /\ stream.at = "done"
  /\ LET ids == IdsOf(stream.s.toolCalls)
         heard == [turn EXCEPT !.content = stream.s.content]
     IN turn' =
          IF ids = <<>> THEN [heard EXCEPT !.pc = "persist"]
          ELSE [heard EXCEPT !.pc = "tools", !.left = ids,
                             !.messages = Append(@, Answering(stream.s.content, ids))]
  /\ UNCHANGED <<provider, stream, rows, turns, mishaps, told>>

NextPc ==
  IF Len(turn.left) > 1 THEN "tools" ELSE IF turn.iteration + 1 < MaxToolIterations THEN "model" ELSE "persist"

NextIteration == IF NextPc = "model" THEN turn.iteration + 1 ELSE turn.iteration

(* Mutant of Tool: a call that waits for approval is not reported.         *)
ToolUnlessBlocked ==
  /\ turn.pc = "tools"
  /\ \E blocked \in BOOLEAN :
       turn' = [turn EXCEPT !.pc = NextPc, !.iteration = NextIteration, !.left = Tail(@),
                            !.calls = Append(@, Head(turn.left)),
                            !.messages = IF blocked THEN @
                                         ELSE Append(@, ResultOf(Head(turn.left)))]
  /\ UNCHANGED <<provider, stream, rows, turns, mishaps, told>>

(* A call that was executed, failed or waits for approval is reported to   *)
(* the model all the same.                                                 *)
Tool ==
  /\ turn.pc = "tools"
  /\ turn' = [turn EXCEPT !.pc = NextPc, !.iteration = NextIteration, !.left = Tail(@),
                          !.calls = Append(@, Head(turn.left)),
                          !.messages = Append(@, ResultOf(Head(turn.left)))]
  /\ UNCHANGED <<provider, stream, rows, turns, mishaps, told>>

(* The one row of the answer: the last content and all calls of the turn.  *)
Persist ==
  /\ turn.pc = "persist"
  /\ Keep(Answering(turn.content, turn.calls), turn.content)
  /\ turn' = [Idle EXCEPT !.error = turn.error]
  /\ UNCHANGED <<provider, stream, turns, mishaps, told>>

(* The process stops, or a tool's arguments make the run reject.           *)
Die ==
  /\ turn.pc # "idle" /\ mishaps < MaxMishaps
  /\ mishaps' = mishaps + 1
  /\ turn' = [Idle EXCEPT !.error = TRUE] /\ stream' = NoStream
  /\ UNCHANGED <<provider, rows, turns, told>>

ChatNext ==
  \/ \E saved \in BOOLEAN : Begin(saved)
  \/ LoadHistory \/ SaveMessage \/ Refused \/ Asked \/ Streaming \/ StreamFailed \/ Heard \/ Tool \/ Persist \/ Die

ChatSpec == ChatInit /\ [][ChatNext]_chatVars

-----------------------------------------------------------------------------

Spoils(message) ==
  message.role = "assistant" /\ (message.calls # <<>> \/ (provider = "anthropic" /\ ~message.said))

(* A provider refuses the requests of a conversation of which loadHistory  *)
(* finds an answer with tool calls, whose results are not kept, or with    *)
(* Anthropic an answer that an error left empty; and it refuses no other:  *)
(* within a turn every call of every answer has its result in its place,   *)
(* whatever became of it and in however many iterations.                   *)
RefusalsHaveACause ==
  turn.pc = "model" =>
    (Accepts(Request(turn.messages)) <=> \A i \in DOMAIN loadHistory : ~Spoils(loadHistory[i]))

(* The row of a turn that met no error is of the last answer of the model, *)
(* whole, after whatever came before it; nothing is kept of an answer that *)
(* an error event cut short but what came of it.                           *)
LastAnswerIsKept ==
  turn.pc = "idle" /\ ~turn.error /\ turns > 0 /\ ~told.cut =>
    /\ Last(rows).message.role = "assistant"
    /\ Last(rows).content = TextOf(told.answer)

(* The type invariant, and a row with the last answer for every turn that  *)
(* met no error (AgentRuntimeService.run).                                 *)
ChatInv == ChatTypeOK /\ LastAnswerIsKept

-----------------------------------------------------------------------------
(* The inductive invariant.  Rows are messages of the user and answers.    *)
RowsAreTurns ==
  \A i \in DOMAIN rows :
    /\ rows[i].message.role \in {"user", "assistant"} /\ rows[i].message.of = <<>>
    /\ rows[i].message.role = "user" => rows[i].message = Said("user")

(* How many rows were there to load.                                       *)
Loaded ==
  LET found == IF turn.pc = "save" THEN Len(rows) ELSE Len(rows) - 1
  IN IF found < HistorySize THEN found ELSE HistorySize

(* The messages, and the results that are still to come.                   *)
Due == turn.messages \o [k \in DOMAIN turn.left |-> ResultOf(turn.left[k])]

(* A message of this turn is no less than the provider wants of it.        *)
InPlace(messages, i) ==
  /\ messages[i].role # "system" /\ (messages[i].said \/ messages[i].calls # <<>>)
  /\ \A k \in DOMAIN messages[i].calls : i + k \in DOMAIN messages /\ messages[i + k].of = messages[i].calls[k]
  /\ messages[i].of # <<>> => \E h \in 1..(i - 1) : messages[i].of \in ToSet(messages[h].calls)

MessagesAreWhole ==
  turn.pc \in {"save", "model", "stream", "tools"} =>
    /\ Len(turn.messages) >= Loaded + 2
    /\ turn.messages[1] = Said("system") /\ turn.messages[Loaded + 2] = Said("user")
    /\ \A i \in 1..Loaded : turn.messages[i + 1] = rows[i].message
    /\ \A i \in Loaded + 3..Len(Due) : InPlace(Due, i)
    /\ IF turn.pc = "save" THEN Len(turn.messages) = Loaded + 2
       ELSE rows # <<>> /\ rows[Len(rows)].message = Said("user")

AnswerIsHeard ==
  /\ turn.pc = "stream" => told.answer = stream.answer /\ (stream.cut => told.cut)
  /\ turn.pc \in {"tools", "persist"} /\ ~turn.error /\ ~told.cut => turn.content = TextOf(told.answer)
  /\ turn.pc # "idle" => turns > 0
  /\ turn.left # <<>> <=> turn.pc = "tools"

ChatIInv == ChatTypeOK /\ StreamIInv /\ RowsAreTurns /\ MessagesAreWhole /\ AnswerIsHeard /\ LastAnswerIsKept
=============================================================================
