---------------------------- MODULE TextChunker ----------------------------
(***************************************************************************)
(* How the text of a document becomes the rows of its chunks: split at     *)
(* separators, merged up to the chunk size with an overlap, embedded in    *)
(* batches.  A piece is the sequence of the positions it has in the        *)
(* cleaned text; a chunk, how many characters of it are not of the text,   *)
(* which are its first, and the positions of the others.                   *)
(***************************************************************************)
EXTENDS Naturals, Sequences

CONSTANTS
  Text,        \* texts that were extracted
  Setting,     \* [chunkSize, chunkOverlap, density]: of a base, and characters per token
  PieceLimit,  \* the tokens above which a piece is split further, 800 in the code
  CutFactor,   \* characters per token hardSplit counts on, 4 in the code
  EmbedBatch,  \* EMBED_BATCH
  ApiBatch     \* BATCH, inputs per request

(* A character of a word, a newline, a blank, and the marks that with a    *)
(* blank end a sentence or a clause.                                       *)
Mark == {"stop", "exclamation", "question", "semicolon", "comma"}
Character == {"word", "newline", "blank"} \cup Mark

ASSUME TextAssumption == Text \subseteq Seq(Character)

ASSUME SettingAssumption == Setting \subseteq [chunkSize : Nat, chunkOverlap : Nat, density : Nat \ {0}]

ASSUME LimitsAssumption == {PieceLimit, CutFactor, EmbedBatch, ApiBatch} \subseteq Nat \ {0}

VARIABLES
  text,     \* what was extracted, then what preClean made of it
  setting,  \* of the base
  chunker   \* where ingestDocument is, and what it holds

SEPARATORS ==
  << <<"newline", "newline">>, <<"newline">>,
     <<"stop", "blank">>, <<"exclamation", "blank">>, <<"question", "blank">>, <<"semicolon", "blank">>, <<"comma", "blank">>,
     <<"blank">>, <<>> >>

White == {"newline", "blank"}

-----------------------------------------------------------------------------
(* Texts.                                                                  *)

(* The elements of s at the positions in kept, in their order.             *)
Keep(s, kept) ==
  LET upTo[k \in 0..Len(s)] ==
        IF k = 0 THEN <<>> ELSE IF k \in kept THEN Append(upTo[k - 1], s[k]) ELSE upTo[k - 1]
  IN upTo[Len(s)]

(* The positions of s that trim leaves when those in dark are not white.   *)
Inner(s, dark) == {i \in DOMAIN s : (\E j \in dark : j <= i) /\ (\E j \in dark : j >= i)}

EndsLine(s, i) == \E j \in DOMAIN s : i < j /\ s[j] = "newline" /\ \A k \in i..(j - 1) : s[k] = "blank"

AfterTwo(s, i) == i > 2 /\ \A k \in (i - 2)..i : s[k] = "newline"

AfterOne(s, i) == i > 1 /\ \A k \in (i - 1)..i : s[k] = "blank"

(* Blanks before a newline go, then newlines after two, then blanks after  *)
(* one.                                                                    *)
preClean(s) ==
  LET unended == Keep(s, {i \in DOMAIN s : ~EndsLine(s, i)})
      two     == Keep(unended, {i \in DOMAIN unended : ~AfterTwo(unended, i)})
      one     == Keep(two, {i \in DOMAIN two : ~AfterOne(two, i)})
  IN Keep(one, Inner(one, {i \in DOMAIN one : one[i] \notin White}))

Chars(ps) == [i \in DOMAIN ps |-> text[ps[i]]]

Dark(ps) == {i \in DOMAIN ps : text[ps[i]] \notin White}

countTokens(ps) == (Len(ps) + setting.density - 1) \div setting.density

(* text.split(sep): each part with the separator it lost.                  *)
Parts(ps, sep) ==
  LET part(from, to, end) == [part |-> SubSeq(ps, from, to), sep |-> SubSeq(ps, to + 1, end)]
      cut[k \in 0..Len(ps)] ==
        IF k = 0 THEN [done |-> <<>>, from |-> 1]
        ELSE LET before == cut[k - 1]
                 to     == k - Len(sep)
             IN IF before.from <= to + 1 /\ SubSeq(Chars(ps), to + 1, k) = sep
                THEN [done |-> Append(before.done, part(before.from, to, k)), from |-> k + 1]
                ELSE before
      all == cut[Len(ps)]
  IN IF sep = <<>> THEN all.done ELSE Append(all.done, part(all.from, Len(ps), Len(ps)))

-----------------------------------------------------------------------------

(* What becomes of the parts, deeper being the call with the separators    *)
(* that are left.  An empty part loses the separator behind it; that of a  *)
(* part of which nothing is left goes to the piece before, if there is one.*)
Collected(parts, last, deeper) ==
  LET out[k \in 0..Len(parts)] ==
        IF k = 0 THEN <<>>
        ELSE LET p   == parts[k]
                 all == out[k - 1] \o IF ~last /\ countTokens(p.part) > PieceLimit THEN deeper[p.part] ELSE <<p.part>>
             IN IF p.part = <<>> THEN out[k - 1] ELSE IF all = <<>> THEN <<>> ELSE [all EXCEPT ![Len(all)] = @ \o p.sep]
      all == out[Len(parts)]
  IN Keep(all, {k \in DOMAIN all : Dark(all[k]) # {}})

recursiveSplit[rank \in 1..Len(SEPARATORS)] ==
  LET last   == rank = Len(SEPARATORS)
      deeper == IF last THEN <<>> ELSE recursiveSplit[rank + 1]
  IN [ps \in Seq(Nat) |->
       LET parts == Parts(ps, SEPARATORS[rank])
       IN IF Len(parts) = 1 /\ ~last THEN deeper[ps] ELSE Collected(parts, last, deeper)]

Slice(s, from, n) == SubSeq(s, from + 1, IF from + n < Len(s) THEN from + n ELSE Len(s))

Slices(s, n) == [k \in 1..((Len(s) + n - 1) \div n) |-> Slice(s, (k - 1) * n, n)]

OwnOnly(ps) == [strange |-> 0, own |-> ps]

hardSplit(ps) ==
  LET cut == Slices(ps, setting.chunkSize * CutFactor)
  IN [k \in DOMAIN cut |-> OwnOnly(cut[k])]

(* What the decoder makes of a token counts as one.                        *)
Tokens(c) == c.strange + countTokens(c.own)

(* The tail of more tokens than that is decoded from the numbers of the    *)
(* tokens, taken for bytes: one to a character, or several.                *)
tailTokens(c) ==
  IF Tokens(c) <= setting.chunkOverlap THEN {c}
  ELSE {[strange |-> n, own |-> <<>>] : n \in 0..setting.chunkOverlap}

-----------------------------------------------------------------------------
(* ingestDocument, from the text to the rows.                              *)

Nothing == OwnOnly(<<>>)

Fresh == [pc |-> "extracted", pieces |-> <<>>, buffer |-> Nothing, bufferTokens |-> 0, chunks |-> <<>>, rows |-> <<>>]

ChunkerInit == text \in Text /\ setting \in Setting /\ chunker = Fresh

(* No text is an error of ingestDocument, a setting that cannot be one of  *)
(* split.                                                                  *)
Refuse ==
  /\ chunker.pc = "extracted"
  /\ \/ \A i \in DOMAIN text : text[i] \in White
     \/ setting.chunkSize = 0 \/ setting.chunkOverlap >= setting.chunkSize
  /\ chunker' = [chunker EXCEPT !.pc = "FAILED"]
  /\ UNCHANGED <<text, setting>>

Clean ==
  /\ chunker.pc = "extracted"
  /\ \E i \in DOMAIN text : text[i] \notin White
  /\ setting.chunkOverlap < setting.chunkSize
  /\ text' = preClean(text)
  /\ chunker' = [chunker EXCEPT !.pc = "split"]
  /\ UNCHANGED setting

Positions == [i \in DOMAIN text |-> i]

Split ==
  /\ chunker.pc = "split"
  /\ chunker' = [chunker EXCEPT !.pc = "merge", !.pieces = recursiveSplit[1][Positions]]
  /\ UNCHANGED <<text, setting>>

Piece == Head(chunker.pieces)

Merging == chunker.pc = "merge" /\ chunker.pieces # <<>>

(* Mutant of HardSplit: the buffer is not pushed first.                    *)
HardSplitFirst ==
  /\ Merging /\ countTokens(Piece) > setting.chunkSize
  /\ chunker' = [chunker EXCEPT !.pieces = Tail(@), !.chunks = @ \o hardSplit(Piece), !.buffer = Nothing, !.bufferTokens = 0]
  /\ UNCHANGED <<text, setting>>

HardSplit ==
  /\ Merging /\ countTokens(Piece) > setting.chunkSize
  /\ LET pushed == IF chunker.buffer = Nothing THEN chunker.chunks ELSE Append(chunker.chunks, chunker.buffer)
     IN chunker' = [chunker EXCEPT !.pieces = Tail(@), !.chunks = pushed \o hardSplit(Piece),
                                   !.buffer = Nothing, !.bufferTokens = 0]
  /\ UNCHANGED <<text, setting>>

(* Mutant of Overflows: the piece is counted once it is there.             *)
OverflowsLate == chunker.bufferTokens >= setting.chunkSize

Overflows == chunker.bufferTokens + countTokens(Piece) > setting.chunkSize

Commit ==
  /\ Merging /\ countTokens(Piece) <= setting.chunkSize /\ Overflows
  /\ \E overlap \in tailTokens(chunker.buffer) :
       LET buffer == [overlap EXCEPT !.own = @ \o Piece]
       IN chunker' = [chunker EXCEPT !.pieces = Tail(@), !.chunks = Append(@, chunker.buffer),
                                     !.buffer = buffer, !.bufferTokens = Tokens(buffer)]
  /\ UNCHANGED <<text, setting>>

Join ==
  /\ Merging /\ countTokens(Piece) <= setting.chunkSize /\ ~Overflows
  /\ chunker' = [chunker EXCEPT !.pieces = Tail(@), !.buffer.own = @ \o Piece, !.bufferTokens = @ + countTokens(Piece)]
  /\ UNCHANGED <<text, setting>>

(* The positions of what is not of the text are before the first.          *)
Trimmed(c) == [c EXCEPT !.own = Keep(@, Inner(@, Dark(@) \cup IF c.strange > 0 THEN {0} ELSE {}))]

(* The last buffer; then all chunks are trimmed and the empty ones go.     *)
EndMerge ==
  /\ chunker.pc = "merge" /\ chunker.pieces = <<>>
  /\ LET all == IF Trimmed(chunker.buffer) = Nothing THEN chunker.chunks ELSE Append(chunker.chunks, chunker.buffer)
         trimmed == [k \in DOMAIN all |-> Trimmed(all[k])]
     IN chunker' = [chunker EXCEPT !.pc = "embed", !.chunks = Keep(trimmed, {k \in DOMAIN trimmed : trimmed[k] # Nothing})]
  /\ UNCHANGED <<text, setting>>

Embedding(content) == [of |-> content]

(* One request after the other, whose answers are joined.                  *)
embedMany(texts) ==
  LET slices == Slices(texts, ApiBatch)
      out[k \in 0..Len(slices)] ==
        IF k = 0 THEN <<>> ELSE out[k - 1] \o [j \in DOMAIN slices[k] |-> Embedding(slices[k][j])]
  IN out[Len(slices)]

Stored == Len(chunker.rows)

(* One batch: embedded together, inserted one by one.                      *)
StoreBatch ==
  /\ chunker.pc = "embed" /\ Stored < Len(chunker.chunks)
  /\ LET batch      == Slice(chunker.chunks, Stored, EmbedBatch)
         embeddings == embedMany(batch)
     IN chunker' = [chunker EXCEPT !.rows = @ \o [j \in DOMAIN batch |->
          [index |-> Stored + j - 1, content |-> batch[j], embedding |-> embeddings[j]]]]
  /\ UNCHANGED <<text, setting>>

Finish ==
  /\ chunker.pc = "embed" /\ Stored = Len(chunker.chunks)
  /\ chunker' = [chunker EXCEPT !.pc = "COMPLETED"]
  /\ UNCHANGED <<text, setting>>

ChunkerNext ==
  \/ Refuse \/ Clean \/ Split \/ HardSplit \/ Commit \/ Join \/ EndMerge \/ StoreBatch \/ Finish

chunkerVars == <<text, setting, chunker>>

ChunkerSpec == ChunkerInit /\ [][ChunkerNext]_chunkerVars

-----------------------------------------------------------------------------

Words(c) == {p \in {c.own[i] : i \in DOMAIN c.own} : text[p] = "word"}

AllWords == {p \in DOMAIN text : text[p] = "word"}

Shown(k) == UNION {Words(chunker.rows[h].content) : h \in 1..k}

(* The rows of a COMPLETED document, in the order of their indexes, tell   *)
(* its text: each shows a stretch of it that leaves out no word and begins *)
(* no later than where those before it stopped, in the end all has been    *)
(* shown, and each carries the embedding of what it shows.                 *)
RowsTellTheText ==
  chunker.pc = "COMPLETED" =>
    /\ \A k \in DOMAIN chunker.rows :
         LET row == chunker.rows[k]
         IN /\ row.index = k - 1 /\ row.embedding = Embedding(row.content)
            /\ \A p, q \in Words(row.content) : p..q \cap AllWords \subseteq Words(row.content)
            /\ \A p \in Shown(k) : 1..p \cap AllWords \subseteq Shown(k)
    /\ Shown(Len(chunker.rows)) = AllWords

(* c is of a piece that is longer than a chunk.                            *)
Sliced(c) ==
  \E k \in DOMAIN recursiveSplit[1][Positions] :
    LET ps == recursiveSplit[1][Positions][k]
    IN countTokens(ps) > setting.chunkSize /\ \A i \in DOMAIN c.own : \E j \in DOMAIN ps : c.own[i] = ps[j]

(* No chunk is longer than chunkSize and chunkOverlap together; except for *)
(* the slices of a piece that is itself longer than the chunk, when chunks *)
(* are set smaller than what recursiveSplit leaves whole.  These are of    *)
(* the length hardSplit cuts, and their words are from no more of the text *)
(* than PieceLimit tokens: whatever separators were put back to the piece. *)
SizesBounded ==
  \A k \in DOMAIN chunker.chunks :
    LET c == chunker.chunks[k]
    IN \/ Tokens(c) <= setting.chunkSize + setting.chunkOverlap
       \/ /\ Sliced(c) /\ c.strange = 0 /\ Len(c.own) <= CutFactor * setting.chunkSize
          /\ \A p, q \in Words(c) : q < p + PieceLimit * setting.density

-----------------------------------------------------------------------------
(* What the comment on TextChunker says and the code does not do.          *)

(* text-chunker.ts:10, consecutive chunks overlap in tokens of the text:   *)
(* there is nothing in a chunk that is not of the text.                    *)
OverlapIsText == \A k \in DOMAIN chunker.chunks : chunker.chunks[k].strange = 0
=============================================================================
