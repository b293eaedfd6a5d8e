-------------------------- MODULE ProviderStreams --------------------------
(***************************************************************************)
(* chatStream of the three providers: how the events of a stream, which    *)
(* arrive in pieces of any size, are put together again.  What a model     *)
(* answers is a sequence of blocks of text and of tool calls, each cut     *)
(* into fragments; what the pieces say is left out.                        *)
(***************************************************************************)
EXTENDS Naturals, Sequences, SequencesExt

CONSTANTS
  Provider,    \* providers to choose from
  Answer       \* answers of the model: sequences of [kind, size]

ASSUME ProviderAssumption == Provider \subseteq {"openai", "anthropic", "gemini"}

Block == [kind : {"text", "call"}, size : Nat]

ASSUME AnswerAssumption == Answer \subseteq Seq(Block)

VARIABLES
  provider,    \* the provider of the agent
  stream       \* the call that is under way, or the last one

Fragment == (Nat \ {0}) \X (Nat \ {0})

Cut(b, n) == [j \in 1..n |-> <<b, j>>]

Fragments(a, b) == Cut(b, a[b].size)

(* The answer as chat, which does not stream, returns it: the text blocks  *)
(* joined, and the calls in order.  The arguments of a call are compared   *)
(* as what reads them, parseArgs and safeJson, has them: of a call without *)
(* any, Anthropic's chat makes '{}' of its input and chatStream leaves '', *)
(* and both are read as an empty object.                                   *)
TextOf(a) == FlattenSeq([b \in 1..Len(a) |-> IF a[b].kind = "text" THEN Fragments(a, b) ELSE <<>>])

CallsOf(a) ==
  FlattenSeq([b \in 1..Len(a) |-> IF a[b].kind = "call" THEN <<[id |-> b, arguments |-> Fragments(a, b)]>> ELSE <<>>])

UpTo(a, b) == SubSeq(a, 1, b)

-----------------------------------------------------------------------------
(* The events a provider sends for an answer.                              *)

Event(kind, b, j) == [kind |-> kind, block |-> b, piece |-> j]

(* A function call of Gemini comes in one part.                            *)
BlockEvents(p, a, b) ==
  LET n == a[b].size
      text == a[b].kind = "text"
  IN CASE p = "openai" /\ text -> [j \in 1..n |-> Event("content", b, j)]
       [] p = "openai" /\ ~text -> [j \in 1..(n + 1) |-> Event("tool", b, j - 1)]
       [] p = "anthropic" ->
            [j \in 1..(n + 2) |->
               Event(IF j = 1 THEN "content_block_start" ELSE IF j = n + 2 THEN "content_block_stop"
                     ELSE "content_block_delta", b, j - 1)]
       [] p = "gemini" /\ text -> [j \in 1..n |-> Event("text", b, j)]
       [] p = "gemini" /\ ~text -> <<Event("functionCall", b, 0)>>

Opening(p) == IF p = "anthropic" THEN <<Event("message_start", 0, 0)>> ELSE <<>>

Closing(p) ==
  CASE p = "openai" -> <<Event("finish", 0, 0), Event("usage", 0, 0)>>
    [] p = "anthropic" -> <<Event("message_delta", 0, 0)>>
    [] p = "gemini" -> <<Event("finish", 0, 0)>>

EventsOf(p, a) == [b \in 1..Len(a) |-> BlockEvents(p, a, b)]

Events(p, a) == Opening(p) \o FlattenSeq(EventsOf(p, a)) \o Closing(p)

-----------------------------------------------------------------------------
(* What is made of one event.  "shown" and "deltas" are what onChunk got,  *)
(* "json" is currentToolJson; tokens are counted or not.                   *)

Made ==
  [content : Seq(Fragment), toolCalls : Seq([id : Nat \ {0}, arguments : Seq(Fragment)]), json : Seq(Fragment),
   input : BOOLEAN, output : BOOLEAN,
   shown : Seq(Fragment), deltas : Seq([index : Nat \ {0}, arguments : Seq(Fragment)])]

Empty == [content |-> <<>>, toolCalls |-> <<>>, json |-> <<>>, input |-> FALSE, output |-> FALSE,
          shown |-> <<>>, deltas |-> <<>>]

Say(s, f) == [s EXCEPT !.content = Append(@, f), !.shown = Append(@, f)]

Delta(index, arguments) == [index |-> index, arguments |-> arguments]

IndexOfCall(a, b) == Len(CallsOf(UpTo(a, b)))

(* Tool calls are found by their index; the first delta of one has its id. *)
OpenAiHandles(a, s, e) ==
  CASE e.kind = "content" -> Say(s, <<e.block, e.piece>>)
    [] e.kind = "tool" /\ e.piece = 0 ->
         [s EXCEPT !.toolCalls = Append(@, [id |-> e.block, arguments |-> <<>>]),
                   !.deltas = Append(@, Delta(IndexOfCall(a, e.block), <<>>))]
    [] e.kind = "tool" /\ e.piece > 0 ->
         [s EXCEPT !.toolCalls[IndexOfCall(a, e.block)].arguments = Append(@, <<e.block, e.piece>>),
                   !.deltas = Append(@, Delta(IndexOfCall(a, e.block), <<<<e.block, e.piece>>>>))]
    [] e.kind = "finish" -> s
    [] e.kind = "usage" -> [s EXCEPT !.input = TRUE, !.output = TRUE]

(* Arguments go to the newest call, by way of currentToolJson.             *)
AnthropicHandles(a, s, e) ==
  CASE e.kind = "message_start" -> [s EXCEPT !.input = TRUE]
    [] e.kind = "content_block_start" ->
         IF a[e.block].kind = "call"
         THEN [s EXCEPT !.toolCalls = Append(@, [id |-> e.block, arguments |-> <<>>]), !.json = <<>>]
         ELSE s
    [] e.kind = "content_block_delta" ->
         IF a[e.block].kind = "text" THEN Say(s, <<e.block, e.piece>>)
         ELSE LET json == Append(s.json, <<e.block, e.piece>>)
                  last == Len(s.toolCalls)
              IN IF last = 0 THEN [s EXCEPT !.json = json]
                 ELSE [s EXCEPT !.json = json, !.toolCalls[last].arguments = json,
                                !.deltas = Append(@, Delta(last, <<<<e.block, e.piece>>>>))]
    [] e.kind = "content_block_stop" -> [s EXCEPT !.json = <<>>]
    [] e.kind = "message_delta" -> [s EXCEPT !.output = TRUE]

(* Every event has the usage so far.                                       *)
GeminiHandles(a, s, e) ==
  LET counted == [s EXCEPT !.input = TRUE, !.output = TRUE]
  IN CASE e.kind = "text" -> Say(counted, <<e.block, e.piece>>)
       [] e.kind = "functionCall" ->
            [counted EXCEPT !.toolCalls = Append(@, [id |-> e.block, arguments |-> Fragments(a, e.block)]),
                            !.deltas = Append(@, Delta(Len(s.toolCalls) + 1, Fragments(a, e.block)))]
       [] e.kind = "finish" -> counted

Handles(a, s, e) ==
  CASE provider = "openai" -> OpenAiHandles(a, s, e)
    [] provider = "anthropic" -> AnthropicHandles(a, s, e)
    [] provider = "gemini" -> GeminiHandles(a, s, e)

-----------------------------------------------------------------------------
(* The stream.  A read may end in the middle of a line: "half" says that   *)
(* this is how far the stream has come, "line" that the part is buffered.  *)
(* A read of several lines is as many steps here, since it takes one after *)
(* the other off what is buffered.  "cut" says that an error event came in *)
(* place of the rest.                                                      *)

NoStream == [at |-> "none", answer |-> <<>>, next |-> 0, half |-> FALSE, line |-> FALSE, s |-> Empty, cut |-> FALSE]

StreamTypeOK ==
  /\ provider \in Provider
  /\ stream \in [at : {"none", "open", "done", "failed"}, answer : Answer \cup {<<>>}, next : Nat,
                 half : BOOLEAN, line : BOOLEAN, s : Made, cut : BOOLEAN]
  /\ stream.next <= Len(Events(provider, stream.answer))

Open(a) == stream' = [NoStream EXCEPT !.at = "open", !.answer = a]

Unread == Len(Events(provider, stream.answer)) - stream.next

NextEvent == Events(provider, stream.answer)[stream.next + 1]

(* The SDK of OpenAI hands over one event at a time.                       *)
EndsMidLine == provider # "openai" /\ ~stream.half

(* A line that lacks its beginning does not parse and is ignored.          *)
TakenLine == IF provider = "openai" \/ stream.line THEN Handles(stream.answer, stream.s, NextEvent) ELSE stream.s

(* Mutant of Read: what follows the last newline is forgotten.             *)
ReadForgets ==
  /\ stream.at = "open" /\ Unread > 0
  /\ stream' = IF EndsMidLine THEN [stream EXCEPT !.half = TRUE]
               ELSE [stream EXCEPT !.next = @ + 1, !.half = FALSE, !.line = FALSE, !.s = TakenLine]

Read ==
  /\ stream.at = "open" /\ Unread > 0
  /\ stream' = IF EndsMidLine THEN [stream EXCEPT !.half = TRUE, !.line = TRUE]
               ELSE [stream EXCEPT !.next = @ + 1, !.half = FALSE, !.line = FALSE, !.s = TakenLine]

Close == stream.at = "open" /\ Unread = 0 /\ stream' = [stream EXCEPT !.at = "done"]

(* An error event ends the stream: the SDK of OpenAI throws, the readers   *)
(* of the others know no such event and return what they have.             *)
ErrorEvent ==
  /\ stream.at = "open" /\ Unread > 0
  /\ stream' = IF provider = "openai" THEN [stream EXCEPT !.at = "failed"]
               ELSE [stream EXCEPT !.at = "done", !.cut = TRUE]

Break == stream.at = "open" /\ stream' = [stream EXCEPT !.at = "failed"]

-----------------------------------------------------------------------------

(* What was handed to onChunk adds up, at any time, to what would be       *)
(* returned: nothing is shown that is not kept, nor kept unshown.          *)
ChunksAddUp(s) ==
  /\ s.shown = s.content
  /\ \A i \in DOMAIN s.toolCalls :
       FlattenSeq([k \in DOMAIN s.deltas |-> IF s.deltas[k].index = i THEN s.deltas[k].arguments ELSE <<>>])
       = s.toolCalls[i].arguments

(* However the stream was cut up, what chatStream hands on adds up to what *)
(* it returns, and that is what chat would have returned: text, calls in   *)
(* order with all their arguments, and both token counts.  The exception   *)
(* is an error event of Anthropic or Gemini, after which the part that     *)
(* came is returned as the whole.                                          *)
StreamAgrees ==
  /\ ChunksAddUp(stream.s)
  /\ stream.at = "done" /\ ~stream.cut =>
       /\ stream.s.content = TextOf(stream.answer)
       /\ stream.s.toolCalls = CallsOf(stream.answer)
       /\ stream.s.input /\ stream.s.output

-----------------------------------------------------------------------------
(* The inductive invariant: where in the answer a stream is, and what must *)
(* have been made of it by then.                                           *)

(* The events that come before those of block b + 1.                       *)
Before(p, a, b) == Len(Opening(p)) + Len(FlattenSeq([c \in 1..b |-> EventsOf(p, a)[c]]))

(* Of n events, j are of block b + 1, or close the stream.                 *)
Placed(p, a, n, b, j) ==
  n = Before(p, a, b) + j /\ j <= (IF b < Len(a) THEN Len(BlockEvents(p, a, b + 1)) ELSE Len(Closing(p)))

(* The fragments that the first j events of a block have brought.          *)
Pieces(p, block, j) ==
  CASE j = 0 -> 0
    [] j > 0 /\ p = "openai" -> IF block.kind = "text" THEN j ELSE j - 1
    [] j > 0 /\ p = "anthropic" -> IF j <= block.size THEN j - 1 ELSE block.size
    [] j > 0 /\ p = "gemini" -> IF block.kind = "text" THEN j ELSE block.size

TextSoFar(p, a, b, j) ==
  TextOf(UpTo(a, b))
  \o (IF b < Len(a) /\ a[b + 1].kind = "text" THEN Cut(b + 1, Pieces(p, a[b + 1], j)) ELSE <<>>)

CallsSoFar(p, a, b, j) ==
  CallsOf(UpTo(a, b))
  \o (IF b < Len(a) /\ a[b + 1].kind = "call" /\ j > 0
      THEN <<[id |-> b + 1, arguments |-> Cut(b + 1, Pieces(p, a[b + 1], j))]>> ELSE <<>>)

SoFar(p, a, s, b, j) ==
  /\ s.content = TextSoFar(p, a, b, j) /\ s.toolCalls = CallsSoFar(p, a, b, j)
  /\ p = "anthropic" /\ b < Len(a) /\ a[b + 1].kind = "call" /\ j \in 1..(a[b + 1].size + 1) =>
       s.json = Cut(b + 1, Pieces(p, a[b + 1], j))

Counted(p, a, s, n) ==
  /\ p = "anthropic" /\ n > 0 => s.input
  /\ n = Len(Events(p, a)) => s.input /\ s.output

AddsUp(s) == ChunksAddUp(s) /\ \A k \in DOMAIN s.deltas : s.deltas[k].index \in DOMAIN s.toolCalls

StreamIInv ==
  /\ AddsUp(stream.s)
  /\ stream.at = "open" =>
       /\ Counted(provider, stream.answer, stream.s, stream.next)
       /\ stream.half = stream.line
       /\ \/ stream.next < Len(Opening(provider)) /\ stream.s = Empty
          \/ \E b \in 0..Len(stream.answer), j \in 0..stream.next :
               Placed(provider, stream.answer, stream.next, b, j) /\ SoFar(provider, stream.answer, stream.s, b, j)
  /\ StreamAgrees
=============================================================================
