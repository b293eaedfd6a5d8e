---------------------------- MODULE MCAlgorithms ----------------------------
(***************************************************************************)
(* Instances of the two algorithms that work on what users submit: the     *)
(* validation of a definition (every set of edges between four nodes, and  *)
(* one definition for each structural error) and the chunks of a text: of  *)
(* every text of seven characters with one kind of mark, of every text of  *)
(* six with three kinds, and of texts in which separators of several ranks *)
(* follow each other.  A behavior is of one of them.                       *)
(***************************************************************************)
EXTENDS GraphValidation, TextChunker

MCId == {"t", "a", "b", "e", Missing}

N(i, t) == [id |-> i, type |-> t]
E(i, s, t) == [id |-> i, source |-> s, target |-> t]

Four == <<N("t", "TRIGGER"), N("a", "ACTION"), N("b", "PARALLEL"), N("e", "END")>>

Numbered ==
  << E(1, "t", "a"), E(2, "t", "b"), E(3, "t", "e"), E(4, "a", "t"), E(5, "a", "b"), E(6, "a", "e"),
     E(7, "b", "t"), E(8, "b", "a"), E(9, "b", "e"), E(10, "e", "t"), E(11, "e", "a"), E(12, "e", "b") >>

Only(S) == SelectSeq(Numbered, LAMBDA edge : edge.id \in S)

WellFormed(nodes, edges) == [arrays |-> TRUE, nodes |-> nodes, edges |-> edges]

Exhaustive == {WellFormed(Four, Only(S)) : S \in SUBSET (1..12)}

Odd ==
  { [arrays |-> FALSE, nodes |-> <<>>, edges |-> <<>>],
    WellFormed(<<>>, <<>>),
    WellFormed(<<N("a", "ACTION"), N("e", "END")>>, <<E(1, "a", "e")>>),
    WellFormed(<<N("t", "TRIGGER"), N("a", "TRIGGER"), N("e", "END")>>, <<E(1, "t", "e")>>),
    WellFormed(<<N("t", "TRIGGER"), N("a", "ACTION"), N("a", "END")>>, <<E(1, "t", "a")>>),
    WellFormed(<<N(Missing, "TRIGGER"), N("e", Missing)>>, <<E(NoEdgeId, Missing, "e")>>),
    WellFormed(<<N("t", "TRIGGER"), N("e", "END")>>, <<E(1, "t", "e"), E(2, "e", "b")>>),
    WellFormed(<<N("t", "TRIGGER"), N("e", "END")>>, <<E(1, "t", "e"), E(2, "b", "b")>>),
    WellFormed(<<N("t", "TRIGGER"), N("e", "END")>>, <<E(1, "t", "e"), E(1, "t", "e")>>) }

MCGraphs == Exhaustive \cup Odd

(* A mark that ends a sentence or a clause.                                *)
Marked(m) == <<m, "blank">>
W == <<"word">>
B == <<"blank">>
N1 == <<"newline">>

(* What of it is of marks alone is lost, with the separators behind it;    *)
(* and separators of all ranks are put back to one piece.                  *)
Stacked ==
  { W \o Marked("comma") \o Marked("semicolon") \o Marked("question") \o Marked("exclamation") \o Marked("stop") \o W,
    W \o B \o Marked("comma") \o Marked("semicolon") \o Marked("question") \o N1 \o N1 \o W \o Marked("stop"),
    W \o Marked("stop") \o Marked("exclamation") \o Marked("exclamation") \o Marked("stop")
      \o Marked("exclamation") \o Marked("exclamation") \o Marked("stop") \o W \o W,
    Marked("stop") \o Marked("exclamation") \o Marked("exclamation") \o Marked("stop") \o W \o W \o W \o W \o B \o W,
    W \o W \o B \o W \o W \o W \o Marked("semicolon") \o W \o Marked("comma") \o Marked("comma") \o W \o N1 \o W,
    Marked("comma") \o Marked("comma") \o Marked("comma") \o Marked("comma") }

MCText ==
  [1..7 -> {"word", "newline", "blank", "stop"}] \cup [1..6 -> {"word", "blank", "stop", "exclamation", "comma"}] \cup Stacked

S(size, overlap, density) == [chunkSize |-> size, chunkOverlap |-> overlap, density |-> density]

MCSetting == {S(1, 0, 1), S(2, 1, 1), S(2, 1, 2), S(3, 2, 1), S(3, 0, 1), S(2, 2, 1)}

-----------------------------------------------------------------------------

NoValidation ==
  /\ graph = WellFormed(<<>>, <<>>) /\ pc = "none" /\ errors = {} /\ color = [n \in Id |-> "white"]
  /\ stack = <<>> /\ todo = [n \in Id |-> {}] /\ hasEnd = FALSE

NoChunks == text = <<>> /\ setting = S(1, 0, 1) /\ chunker = [Fresh EXCEPT !.pc = "none"]

AlgorithmsInit ==
  \/ ValidationInit /\ NoChunks
  \/ NoValidation /\ ChunkerInit

AlgorithmsNext ==
  \/ ValidationNext /\ UNCHANGED chunkerVars
  \/ ChunkerNext /\ UNCHANGED validationVars

AlgorithmsSpec == AlgorithmsInit /\ [][AlgorithmsNext]_<<validationVars, chunkerVars>>
=============================================================================
