---------------------------- MODULE MCIngestion ----------------------------
(***************************************************************************)
(* Two settings, that cut the text in two pieces and in one.  One for      *)
(* which split throws adds nothing: Throw may follow extract anyway.       *)
(***************************************************************************)
EXTENDS Ingestion

CONSTANTS r1, r2, r3, d1

MCChunking == {"small", "large"}
MCPieces == [c \in MCChunking |-> IF c = "small" THEN 2 ELSE 1]
=============================================================================
