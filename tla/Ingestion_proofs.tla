-------------------------- MODULE Ingestion_proofs --------------------------
(***************************************************************************)
(* Proofs about Ingestion: what chunks a document has, for any number of   *)
(* documents, requests, settings and pieces, after any rejected calls and  *)
(* crashes; and about TextChunker: what the chunks of a text show, for any *)
(* text, setting and limits.                                               *)
(***************************************************************************)
EXTENDS Ingestion, TextChunker, SequenceTheorems, FiniteSetTheorems, WellFoundedInduction, TLAPS

-----------------------------------------------------------------------------
(* Chunks.                                                                 *)

(* The first n pieces a request has cut of a document.                     *)
Cuts(d, r, c, n) == {[document |-> d, by |-> r, chunking |-> c, index |-> i] : i \in 0..(n - 1)}

LEMMA CutsAreCut ==
  ASSUME NEW d \in Document, NEW r \in Request, NEW c \in Chunking, NEW n \in Nat
  PROVE  LET set == Cuts(d, r, c, n) IN
         /\ {k.index : k \in set} = 0..(n - 1)
         /\ Cardinality(set) = n
         /\ \A k \in set : k.chunking = c
<1> DEFINE set == Cuts(d, r, c, n)
           f == [i \in 0..(n - 1) |-> [document |-> d, by |-> r, chunking |-> c, index |-> i]]
<1>1. {k.index : k \in set} = 0..(n - 1)
  <2>1. \A k \in set : k.index \in 0..(n - 1)
    BY DEF Cuts
  <2>2. ASSUME NEW i \in 0..(n - 1) PROVE \E k \in set : k.index = i
    <3>1. [document |-> d, by |-> r, chunking |-> c, index |-> i] \in set
      BY DEF Cuts
    <3> HIDE DEF set
    <3>2. QED
      BY <3>1
  <2> HIDE DEF set
  <2>3. QED
    BY <2>1, <2>2
<1>2. \A k \in set : k.chunking = c
  BY DEF Cuts
<1>3. IsFiniteSet(0..(n - 1)) /\ Cardinality(0..(n - 1)) = n
  <2>1. 0 \in Int /\ n - 1 \in Int
    OBVIOUS
  <2>2. QED
    BY <2>1, FS_Interval
<1>4. f \in Bijection(0..(n - 1), set)
  <2>1. f \in [0..(n - 1) -> set]
    BY DEF Cuts
  <2>2. \A i, j \in 0..(n - 1) : f[i] = f[j] => i = j
    <3>1. \A i \in 0..(n - 1) : f[i].index = i
      OBVIOUS
    <3> HIDE DEF f
    <3>2. QED
      BY <3>1
  <2>3. \A k \in set : \E i \in 0..(n - 1) : f[i] = k
    BY DEF Cuts
  <2>4. QED
    BY <2>1, <2>2, <2>3, DOMAIN f = 0..(n - 1) DEF Bijection, Injection, Surjection, IsInjective
<1>5. Cardinality(set) = n
  BY <1>3, <1>4, FS_Bijection DEF ExistsBijection
<1>6. QED
  BY <1>1, <1>2, <1>5

LEMMA CutsGrow ==
  ASSUME NEW d \in Document, NEW r \in Request, NEW c \in Chunking, NEW n \in Nat
  PROVE  /\ Cuts(d, r, c, n + 1) = Cuts(d, r, c, n) \cup {[document |-> d, by |-> r, chunking |-> c, index |-> n]}
         /\ Cuts(d, r, c, 0) = {}
<1>1. 0..((n + 1) - 1) = 0..(n - 1) \cup {n}
  OBVIOUS
<1>2. 0..(0 - 1) = {}
  OBVIOUS
<1>3. QED
  BY <1>1, <1>2 DEF Cuts

-----------------------------------------------------------------------------
(* A step of one request.                                                  *)

LEMMA Stepped ==
  ASSUME TypeOK, NEW r \in Request, NEW new \in RequestState, Step(r, new)
  PROVE  /\ req' \in [Request -> RequestState] /\ req'[r] = new
         /\ \A q \in Request \ {r} : req'[q] = req[q]
  BY DEF TypeOK, Step

LEMMA Moved ==
  ASSUME TypeOK, NEW r \in Request, NEW label \in Label, Goto(r, label)
  PROVE  /\ req' \in [Request -> RequestState] /\ \A q \in Request \ {r} : req'[q] = req[q]
         /\ req'[r].pc = label /\ req'[r].op = req[r].op /\ req'[r].document = req[r].document
         /\ req'[r].chunking = req[r].chunking /\ req'[r].next = req[r].next
<1> DEFINE new == [req[r] EXCEPT !.pc = label]
<1>1. /\ new \in RequestState /\ new.pc = label /\ new.op = req[r].op /\ new.document = req[r].document
      /\ new.chunking = req[r].chunking /\ new.next = req[r].next
  BY DEF TypeOK, RequestState
<1>2. Step(r, new)
  BY DEF Goto
<1> HIDE DEF new
<1>3. QED
  BY <1>1, <1>2, Stepped

(* A request that goes on adds no overlap.                                 *)
LEMMA SeenBefore ==
  ASSUME IInv, NEW r \in Request, InProgress(r), overlapped' = overlapped,
         req'[r].op = req[r].op, \A q \in Request \ {r} : req'[q] = req[q]
  PROVE  Overlaps'
<1> SUFFICES ASSUME NEW p \in Request, NEW q \in Request, p # q, InProgress(p)', InProgress(q)'
             PROVE  ({{req'[p].op, req'[q].op}} \cap Conflicts) \subseteq overlapped
  BY DEF Overlaps, Conflicts
<1>1. InProgress(p) /\ InProgress(q) /\ req'[p].op = req[p].op /\ req'[q].op = req[q].op
  BY DEF InProgress
<1>2. QED
  BY <1>1 DEF IInv, Overlaps

(* Two requests whose operations conflict are in progress only if the      *)
(* history says so.                                                        *)
LEMMA Seen ==
  ASSUME IInv, NEW r \in Request, NEW q \in Request, r # q, InProgress(r), InProgress(q)
  PROVE  /\ IngestedAlone /\ req[r].op = "reindex" => req[q].op \notin {"upload", "reindex"}
         /\ DeletedAlone /\ req[r].op = "delete" => req[q].op \notin {"upload", "reindex"}
         /\ {"upload", "archive"} \notin overlapped /\ req[r].op = "archive" => req[q].op # "upload"
<1>1. {req[r].op, req[q].op} \in Conflicts => {req[r].op, req[q].op} \in overlapped
  BY DEF IInv, Overlaps
<1>2. /\ {"reindex", "upload"} = {"upload", "reindex"} /\ {"reindex", "reindex"} = {"reindex"}
      /\ {"delete", "upload"} = {"upload", "delete"} /\ {"delete", "reindex"} = {"reindex", "delete"}
      /\ {"archive", "upload"} = {"upload", "archive"}
  OBVIOUS
<1>3. ASSUME IngestedAlone, req[r].op = "reindex" PROVE req[q].op \notin {"upload", "reindex"}
  BY <1>1, <1>2, <1>3 DEF IngestedAlone, Conflicts
<1>4. ASSUME DeletedAlone, req[r].op = "delete" PROVE req[q].op \notin {"upload", "reindex"}
  BY <1>1, <1>2, <1>4 DEF DeletedAlone, Conflicts
<1>5. ASSUME {"upload", "archive"} \notin overlapped, req[r].op = "archive" PROVE req[q].op # "upload"
  BY <1>1, <1>2, <1>5 DEF Conflicts
<1>6. QED
  BY <1>3, <1>4, <1>5

(* Nobody else works on the document.                                      *)
LEMMA WorksAlone ==
  ASSUME IInv, IngestedAlone, NEW r \in Request, NEW q \in Request, r # q, Works(r), Works(q)
  PROVE  req[r].document # req[q].document
<1>1. InProgress(r) /\ InProgress(q)
  BY DEF Works, InProgress, Ingesting
<1>2. req[r].op \in {"upload", "reindex"} /\ req[q].op \in {"upload", "reindex"}
  BY DEF IInv, CallsOfOps, Works
<1>3. req[r].op = "upload" /\ req[q].op = "upload"
  BY <1>1, <1>2, Seen
<1>4. QED
  BY <1>3 DEF IInv, OwnDocument

-----------------------------------------------------------------------------
(* What there is of a document, of one whose rows are kept.                *)

(* What Progress says of request r, that works on document d.              *)
Got(r, d) ==
  /\ req[r].pc \in {"announce", "read", "base", "begin"} => docs[d].status = "PENDING" /\ ChunksOf(d) = {}
  /\ req[r].pc = "reset" => ChunksOf(d) = {}
  /\ req[r].pc = "extract" => docs[d].status = "PROCESSING" /\ ChunksOf(d) = {}
  /\ req[r].pc = "insert" =>
       docs[d].status = "PROCESSING" /\ ChunksOf(d) = Cuts(d, r, req[r].chunking, req[r].next)
  /\ req[r].pc = "complete" => docs[d].status = "PROCESSING" /\ Whole(d)
  /\ req[r].pc = "log" => Whole(d)
  /\ req[r].pc = "giveUp" => (docs[d].status = "COMPLETED" => Whole(d))

LEMMA ProgressIs ==
  ASSUME NEW r \in Request, NEW d \in Document, req[r].document = d
  PROVE  Progress(r) <=> (Works(r) /\ IngestedAlone /\ Live(d) => Got(r, d))
  BY DEF Progress, Got, Inserted, Cuts

LEMMA ProgressBecomes ==
  ASSUME NEW r \in Request, NEW d \in Document, req'[r].document = d
  PROVE  Progress(r)' <=> (Works(r) /\ IngestedAlone /\ Live(d) => Got(r, d))'
  BY DEF Progress, Got, Inserted, Cuts, Whole, ChunksOf, Live

LEMMA ProgressKept ==
  ASSUME NEW r \in Request, NEW d \in Document, req[r].document = d, req'[r] = req[r], overlapped \subseteq overlapped',
         Live(d)' => docs'[d] = docs[d] /\ ChunksOf(d)' = ChunksOf(d), Progress(r)
  PROVE  Progress(r)'
<1> SUFFICES ASSUME Works(r)', IngestedAlone', Live(d)' PROVE Got(r, d)'
  BY ProgressBecomes
<1>1. Works(r) /\ IngestedAlone /\ Live(d)
  BY DEF Works, IngestedAlone, Live
<1>2. Got(r, d)
  BY <1>1, ProgressIs
<1>3. Whole(d)' <=> Whole(d)
  BY DEF Whole
<1>4. QED
  BY <1>2, <1>3 DEF Got

LEMMA CompletedKept ==
  ASSUME IInv, NEW d \in Document, overlapped \subseteq overlapped', HalfReset(d) => HalfReset(d)',
         Live(d)' => docs'[d] = docs[d] /\ ChunksOf(d)' = ChunksOf(d),
         Live(d)', docs'[d].status = "COMPLETED", IngestedAlone'
  PROVE  Whole(d)' \/ (HalfReset(d)' /\ ChunksOf(d)' = {})
<1>1. Live(d) /\ docs[d].status = "COMPLETED" /\ IngestedAlone
  BY DEF Live, IngestedAlone
<1>2. Whole(d) \/ (HalfReset(d) /\ ChunksOf(d) = {})
  BY <1>1 DEF IInv, CompletedIsWhole
<1>3. Whole(d)' <=> Whole(d)
  BY DEF Whole
<1>4. QED
  BY <1>2, <1>3

(* Requests that keep what they hold keep what the invariant says of them. *)
LEMMA OthersKept ==
  ASSUME IInv, NEW r \in Request, \A q \in Request \ {r} : req'[q] = req[q],
         \A d \in Document : docs[d].present => docs'[d].present,
         Works(r)' /\ req'[r].op = "upload" =>
           \A q \in Request \ {r} : Works(q) /\ req[q].op = "upload" => req[q].document # req'[r].document,
         NEW q \in Request, q # r
  PROVE  CallsOfOps(req[q])' /\ NextPiece(req[q])' /\ OwnDocument(q)'
<1>1. req'[q] = req[q]
  OBVIOUS
<1>2. CallsOfOps(req[q])' /\ NextPiece(req[q])'
  BY <1>1 DEF IInv, CallsOfOps, NextPiece
<1>3. OwnDocument(q)'
  <2> SUFFICES ASSUME Works(q)'
               PROVE  /\ docs'[req'[q].document].present
                      /\ req'[q].op = "upload" => \A p \in Request \ {q} :
                           Works(p)' /\ req'[p].op = "upload" => req'[p].document # req'[q].document
    BY DEF OwnDocument, Works
  <2>1. Works(q) /\ OwnDocument(q) /\ req[q].document \in Document
    BY <1>1 DEF IInv, Works, TypeOK, RequestState
  <2>2. docs'[req'[q].document].present
    BY <1>1, <2>1 DEF OwnDocument
  <2>3. ASSUME req'[q].op = "upload", NEW p \in Request \ {q}, Works(p)', req'[p].op = "upload"
        PROVE  req'[p].document # req'[q].document
    <3>1. CASE p = r
      BY <1>1, <2>1, <2>3, <3>1
    <3>2. CASE p # r
      <4>1. req'[p] = req[p] /\ Works(p)
        BY <2>3, <3>2 DEF Works
      <4>2. QED
        BY <1>1, <2>1, <2>3, <4>1 DEF OwnDocument
    <3>3. QED
      BY <3>1, <3>2
  <2>4. QED
    BY <2>2, <2>3
<1>4. QED
  BY <1>2, <1>3

(* A request that ingests nothing, or ends, and writes no document.        *)
LEMMA RowsKept ==
  ASSUME IInv, NEW r \in Request, req' \in [Request -> RequestState], \A q \in Request \ {r} : req'[q] = req[q],
         UNCHANGED <<docs, chunks>>, base' \in [deleted : BOOLEAN, chunking : Chunking], base'.deleted = base.deleted,
         faults' \in Nat, overlapped \subseteq overlapped', overlapped' \subseteq Conflicts, Overlaps',
         CallsOfOps(req[r])', NextPiece(req[r])',
         Works(r)' => req'[r].pc = "clear" /\ Live(req'[r].document),
         InProgress(r)' /\ req'[r].op = "upload" => ~base.deleted,
         req[r].op = "reindex" /\ req[r].pc \notin {"idle", "over"} =>
           req'[r].op = "reindex" /\ req'[r].document = req[r].document /\ req'[r].pc \notin {"idle", "over"}
  PROVE  IInv'
<1>1. TypeOK'
  BY DEF IInv, TypeOK
<1>2. \A d \in Document : docs'[d] = docs[d] /\ ChunksOf(d)' = ChunksOf(d)
  BY DEF ChunksOf
<1>3. ASSUME NEW d \in Document, HalfReset(d) PROVE HalfReset(d)'
  BY <1>3 DEF HalfReset
<1>4. CompletedIsWhole'
  BY <1>2, <1>3, CompletedKept DEF CompletedIsWhole
<1>5. DeletedHaveNoChunks' /\ DeletedAreLeft' /\ ArchivedBaseIsEmpty' /\ ArchivedGetsNothing'
  <2>1. DeletedAlone' => DeletedAlone
    BY DEF DeletedAlone
  <2>2. DeletedHaveNoChunks'
    BY <1>2, <2>1 DEF IInv, DeletedHaveNoChunks
  <2>3. DeletedAreLeft'
    <3> SUFFICES ASSUME DeletedAlone', ~base'.deleted, NEW q \in Request, Works(q)'
                 PROVE  ~docs'[req'[q].document].deleted
      BY DEF DeletedAreLeft, DeletedAlone
    <3>1. CASE q = r
      BY <3>1 DEF Live
    <3>2. CASE q # r
      BY <2>1, <3>2 DEF IInv, DeletedAreLeft, Works
    <3>3. QED
      BY <3>1, <3>2
  <2>4. ArchivedBaseIsEmpty'
    BY DEF IInv, ArchivedBaseIsEmpty, Live
  <2>5. ArchivedGetsNothing'
    BY DEF IInv, ArchivedGetsNothing, InProgress
  <2>6. QED
    BY <2>2, <2>3, <2>4, <2>5
<1>6. ASSUME NEW q \in Request PROVE CallsOfOps(req[q])' /\ NextPiece(req[q])' /\ OwnDocument(q)' /\ Progress(q)'
  <2>1. CASE q = r
    <3>1. OwnDocument(r)'
      BY DEF OwnDocument, Works, CallsOfOps, Live
    <3>2. Progress(r)'
      BY DEF Progress, Works
    <3>3. QED
      BY <2>1, <3>1, <3>2
  <2>2. CASE q # r
    <3>1. CallsOfOps(req[q])' /\ NextPiece(req[q])' /\ OwnDocument(q)'
      BY <2>2, OthersKept DEF CallsOfOps, Works
    <3>2. PICK d \in Document : req[q].document = d
      BY DEF IInv, TypeOK, RequestState
    <3>3. Progress(q)'
      BY <1>2, <2>2, <3>2, ProgressKept DEF IInv
    <3>4. QED
      BY <3>1, <3>3
  <2>3. QED
    BY <2>1, <2>2
<1>7. QED
  BY <1>1, <1>4, <1>5, <1>6 DEF IInv

-----------------------------------------------------------------------------
(* Requests that begin, are refused or end.                                *)

(* A request that begins sees the overlaps it makes.                       *)
LEMMA Begun ==
  ASSUME IInv, NEW r \in Request, NEW op \in Op, NEW label \in Label, NEW fields \in RequestState,
         Begin(r, op, label, fields)
  PROVE  /\ req' \in [Request -> RequestState] /\ \A q \in Request \ {r} : req'[q] = req[q]
         /\ req'[r].op = op /\ req'[r].pc = label /\ req'[r].document = fields.document
         /\ overlapped \subseteq overlapped' /\ overlapped' \subseteq Conflicts /\ Overlaps'
         /\ UNCHANGED <<base, docs, chunks, faults>> /\ req[r].pc = "idle"
<1> DEFINE new == [fields EXCEPT !.op = op, !.pc = label]
<1>1. new \in RequestState /\ new.op = op /\ new.pc = label /\ new.document = fields.document
  BY DEF RequestState
<1>2. /\ req[r].pc = "idle" /\ Step(r, new) /\ UNCHANGED <<base, docs, chunks, faults>>
      /\ overlapped' = overlapped \cup ({{op, req[q].op} : q \in {p \in Request : InProgress(p)}} \cap Conflicts)
  BY DEF Begin
<1> HIDE DEF new
<1>3. req' \in [Request -> RequestState] /\ req'[r] = new /\ \A q \in Request \ {r} : req'[q] = req[q]
  BY <1>1, <1>2, Stepped DEF IInv
<1>4. overlapped \subseteq overlapped' /\ overlapped' \subseteq Conflicts
  BY <1>2 DEF IInv, TypeOK
<1>5. ASSUME NEW q \in Request, q # r, InProgress(q) PROVE ({{op, req[q].op}} \cap Conflicts) \subseteq overlapped'
  BY <1>2, <1>5
<1>6. Overlaps'
  <2> SUFFICES ASSUME NEW p \in Request, NEW q \in Request, p # q, InProgress(p)', InProgress(q)'
               PROVE  ({{req'[p].op, req'[q].op}} \cap Conflicts) \subseteq overlapped'
    BY DEF Overlaps, Conflicts
  <2>1. CASE p # r /\ q # r
    BY <1>3, <1>4, <2>1 DEF IInv, Overlaps, InProgress
  <2>2. CASE p = r
    BY <1>1, <1>3, <1>5, <2>2 DEF InProgress
  <2>3. CASE q = r
    <3>1. {req'[p].op, req'[q].op} = {op, req[p].op}
      BY <1>1, <1>3, <2>3
    <3>2. QED
      BY <1>3, <1>5, <2>3, <3>1 DEF InProgress
  <2>4. QED
    BY <2>1, <2>2, <2>3
<1>7. QED
  BY <1>1, <1>2, <1>3, <1>4, <1>6

LEMMA BeginsKeep ==
  ASSUME IInv, NEW r \in Request, Begins(r)
  PROVE  IInv'
<1>1. base \in [deleted : BOOLEAN, chunking : Chunking] /\ faults \in Nat /\ req[r] \in RequestState
  BY DEF IInv, TypeOK
<1>2. CASE uploadDocument(r)
  <2>1. ~base.deleted /\ Begin(r, "upload", "store", req[r])
    BY <1>2 DEF uploadDocument
  <2>2. "upload" \in Op /\ "store" \in Label
    BY DEF Op, Label
  <2>3. /\ req' \in [Request -> RequestState] /\ \A q \in Request \ {r} : req'[q] = req[q]
        /\ req'[r].op = "upload" /\ req'[r].pc = "store"
        /\ overlapped \subseteq overlapped' /\ overlapped' \subseteq Conflicts /\ Overlaps'
        /\ UNCHANGED <<base, docs, chunks, faults>> /\ req[r].pc = "idle"
    BY <1>1, <2>1, <2>2, Begun
  <2>4. CallsOfOps(req[r])' /\ NextPiece(req[r])' /\ ~Works(r)'
    BY <2>3 DEF CallsOfOps, NextPiece, Works, Ingesting
  <2>5. QED
    BY <1>1, <2>1, <2>3, <2>4, RowsKept
<1>3. CASE archiveBase(r)
  <2>1. Begin(r, "archive", "archive", req[r])
    BY <1>3 DEF archiveBase
  <2>2. "archive" \in Op /\ "archive" \in Label
    BY DEF Op, Label
  <2>3. /\ req' \in [Request -> RequestState] /\ \A q \in Request \ {r} : req'[q] = req[q]
        /\ req'[r].op = "archive" /\ req'[r].pc = "archive"
        /\ overlapped \subseteq overlapped' /\ overlapped' \subseteq Conflicts /\ Overlaps'
        /\ UNCHANGED <<base, docs, chunks, faults>> /\ req[r].pc = "idle"
    BY <1>1, <2>1, <2>2, Begun
  <2>4. CallsOfOps(req[r])' /\ NextPiece(req[r])' /\ ~Works(r)'
    BY <2>3 DEF CallsOfOps, NextPiece, Works, Ingesting
  <2>5. QED
    BY <1>1, <2>3, <2>4, RowsKept
<1>4. ASSUME NEW d \in Document, reindexDocument(r, d) PROVE IInv'
  <2> DEFINE fields == [req[r] EXCEPT !.document = d]
  <2>1. Live(d) /\ Begin(r, "reindex", "clear", fields)
    BY <1>4 DEF reindexDocument
  <2>2. "reindex" \in Op /\ "clear" \in Label /\ fields \in RequestState /\ fields.document = d
    BY <1>1 DEF Op, Label, RequestState
  <2> HIDE DEF fields
  <2>3. /\ req' \in [Request -> RequestState] /\ \A q \in Request \ {r} : req'[q] = req[q]
        /\ req'[r].op = "reindex" /\ req'[r].pc = "clear" /\ req'[r].document = d
        /\ overlapped \subseteq overlapped' /\ overlapped' \subseteq Conflicts /\ Overlaps'
        /\ UNCHANGED <<base, docs, chunks, faults>> /\ req[r].pc = "idle"
    BY <1>1, <2>1, <2>2, Begun
  <2>4. CallsOfOps(req[r])' /\ NextPiece(req[r])' /\ Live(req'[r].document)
    BY <2>1, <2>3 DEF CallsOfOps, NextPiece, Live
  <2>5. QED
    BY <1>1, <2>3, <2>4, RowsKept
<1>5. ASSUME NEW d \in Document, deleteDocument(r, d) PROVE IInv'
  <2> DEFINE fields == [req[r] EXCEPT !.document = d]
  <2>1. Begin(r, "delete", "delete", fields)
    BY <1>5 DEF deleteDocument
  <2>2. "delete" \in Op /\ "delete" \in Label /\ fields \in RequestState
    BY <1>1 DEF Op, Label, RequestState
  <2> HIDE DEF fields
  <2>3. /\ req' \in [Request -> RequestState] /\ \A q \in Request \ {r} : req'[q] = req[q]
        /\ req'[r].op = "delete" /\ req'[r].pc = "delete"
        /\ overlapped \subseteq overlapped' /\ overlapped' \subseteq Conflicts /\ Overlaps'
        /\ UNCHANGED <<base, docs, chunks, faults>> /\ req[r].pc = "idle"
    BY <1>1, <2>1, <2>2, Begun
  <2>4. CallsOfOps(req[r])' /\ NextPiece(req[r])' /\ ~Works(r)'
    BY <2>3 DEF CallsOfOps, NextPiece, Works, Ingesting
  <2>5. QED
    BY <1>1, <2>3, <2>4, RowsKept
<1>6. ASSUME NEW c \in Chunking, updateBase(r, c) PROVE IInv'
  <2> DEFINE fields == [req[r] EXCEPT !.chunking = c]
  <2>1. Begin(r, "updateBase", "update", fields)
    BY <1>6 DEF updateBase
  <2>2. "updateBase" \in Op /\ "update" \in Label /\ fields \in RequestState
    BY <1>1 DEF Op, Label, RequestState
  <2> HIDE DEF fields
  <2>3. /\ req' \in [Request -> RequestState] /\ \A q \in Request \ {r} : req'[q] = req[q]
        /\ req'[r].op = "updateBase" /\ req'[r].pc = "update"
        /\ overlapped \subseteq overlapped' /\ overlapped' \subseteq Conflicts /\ Overlaps'
        /\ UNCHANGED <<base, docs, chunks, faults>> /\ req[r].pc = "idle"
    BY <1>1, <2>1, <2>2, Begun
  <2>4. CallsOfOps(req[r])' /\ NextPiece(req[r])' /\ ~Works(r)'
    BY <2>3 DEF CallsOfOps, NextPiece, Works, Ingesting
  <2>5. QED
    BY <1>1, <2>3, <2>4, RowsKept
<1>7. QED
  BY <1>2, <1>3, <1>4, <1>5, <1>6 DEF Begins

LEMMA UpdateKeeps ==
  ASSUME IInv, NEW r \in Request, Update(r)
  PROVE  IInv'
<1>1. /\ base' = [base EXCEPT !.chunking = req[r].chunking] /\ req[r].pc = "update" /\ Goto(r, "over")
      /\ UNCHANGED <<docs, chunks, faults, overlapped>>
  BY DEF Update, At
<1>2. base' \in [deleted : BOOLEAN, chunking : Chunking] /\ base'.deleted = base.deleted /\ faults' \in Nat
  BY <1>1 DEF IInv, TypeOK, RequestState
<1>3. /\ req' \in [Request -> RequestState] /\ \A q \in Request \ {r} : req'[q] = req[q]
      /\ req'[r].pc = "over" /\ req'[r].op = req[r].op
  BY <1>1, Moved DEF IInv, Label
<1>4. CallsOfOps(req[r])' /\ NextPiece(req[r])' /\ ~Works(r)' /\ InProgress(r) /\ ~InProgress(r)'
  BY <1>1, <1>3 DEF CallsOfOps, NextPiece, Works, Ingesting, InProgress
<1>5. Overlaps' /\ overlapped' \subseteq Conflicts
  BY <1>1, <1>3, <1>4, SeenBefore DEF IInv, TypeOK
<1>6. req[r].op = "updateBase"
  BY <1>1 DEF IInv, CallsOfOps
<1>7. QED
  BY <1>1, <1>2, <1>3, <1>4, <1>5, <1>6, RowsKept

LEMMA RejectKeeps ==
  ASSUME IInv, NEW r \in Request, Reject(r)
  PROVE  IInv'
<1>1. InProgress(r) /\ faults' = faults + 1 /\ Goto(r, "rejected") /\ UNCHANGED <<base, docs, chunks, overlapped>>
  BY DEF Reject
<1>2. base' \in [deleted : BOOLEAN, chunking : Chunking] /\ faults' \in Nat /\ overlapped' \subseteq Conflicts
  BY <1>1 DEF IInv, TypeOK
<1>3. /\ req' \in [Request -> RequestState] /\ \A q \in Request \ {r} : req'[q] = req[q]
      /\ req'[r].pc = "rejected" /\ req'[r].op = req[r].op /\ req'[r].document = req[r].document
  BY <1>1, Moved DEF IInv, Label
<1>4. CallsOfOps(req[r])' /\ NextPiece(req[r])' /\ ~Works(r)' /\ ~InProgress(r)'
  BY <1>1, <1>3 DEF CallsOfOps, NextPiece, Works, Ingesting, InProgress
<1>5. Overlaps'
  BY <1>1, <1>3, SeenBefore
<1>6. QED
  BY <1>1, <1>2, <1>3, <1>4, <1>5, RowsKept

-----------------------------------------------------------------------------
(* Deleting and archiving.                                                 *)

LEMMA DeleteKeeps ==
  ASSUME IInv, NEW r \in Request, Delete(r)
  PROVE  IInv'
<1>1. PICK d \in Document : req[r].document = d
  BY DEF IInv, TypeOK, RequestState
<1>2. /\ req[r].pc = "delete" /\ chunks' = chunks \ ChunksOf(d) /\ docs' = [docs EXCEPT ![d].deleted = TRUE]
      /\ Goto(r, "over") /\ UNCHANGED <<base, faults, overlapped>>
  BY <1>1 DEF Delete, At
<1>3. /\ req' \in [Request -> RequestState] /\ \A q \in Request \ {r} : req'[q] = req[q]
      /\ req'[r].pc = "over" /\ req'[r].op = req[r].op
  BY <1>2, Moved DEF IInv, Label
<1>4. req[r].op = "delete" /\ InProgress(r) /\ ~Works(r)' /\ ~InProgress(r)'
  BY <1>2, <1>3 DEF IInv, CallsOfOps, InProgress, Works, Ingesting
<1>5. /\ docs' \in [Document -> [present : BOOLEAN, deleted : BOOLEAN, status : Status]]
      /\ \A e \in Document : docs'[e].present = docs[e].present
      /\ \A e \in Document \ {d} : docs'[e] = docs[e] /\ ChunksOf(e)' = ChunksOf(e)
      /\ docs'[d].deleted /\ ChunksOf(d)' = {}
  <2>1. docs \in [Document -> [present : BOOLEAN, deleted : BOOLEAN, status : Status]]
    BY DEF IInv, TypeOK
  <2>2. ChunksOf(d)' = {} /\ \A e \in Document \ {d} : ChunksOf(e)' = ChunksOf(e)
    BY <1>2 DEF ChunksOf
  <2>3. QED
    BY <1>2, <2>1, <2>2
<1>6. TypeOK'
  BY <1>2, <1>3, <1>5 DEF IInv, TypeOK, Chunk
<1>7. Overlaps'
  BY <1>2, <1>3, <1>4, SeenBefore
<1>8. CompletedIsWhole'
  <2>1. \A e \in Document : HalfReset(e) => HalfReset(e)'
    BY <1>3, <1>4 DEF HalfReset
  <2>2. \A e \in Document : Live(e)' => docs'[e] = docs[e] /\ ChunksOf(e)' = ChunksOf(e)
    BY <1>5 DEF Live
  <2>3. QED
    BY <1>2, <2>1, <2>2, CompletedKept DEF CompletedIsWhole
<1>9. DeletedHaveNoChunks'
  BY <1>2, <1>5 DEF IInv, DeletedHaveNoChunks, DeletedAlone
<1>10. DeletedAreLeft'
  <2> SUFFICES ASSUME DeletedAlone, NEW q \in Request, Works(q)' PROVE FALSE
    BY <1>2 DEF DeletedAreLeft, DeletedAlone
  <2>1. q # r /\ Works(q) /\ InProgress(q)
    BY <1>3, <1>4 DEF Works, InProgress, Ingesting
  <2>2. req[q].op \in {"upload", "reindex"}
    BY <2>1 DEF IInv, CallsOfOps, Works
  <2>3. QED
    BY <1>4, <2>1, <2>2, Seen
<1>11. ArchivedBaseIsEmpty' /\ ArchivedGetsNothing'
  BY <1>2, <1>3, <1>4, <1>5 DEF IInv, ArchivedBaseIsEmpty, ArchivedGetsNothing, Live, InProgress
<1>12. ASSUME NEW q \in Request PROVE CallsOfOps(req[q])' /\ NextPiece(req[q])' /\ OwnDocument(q)' /\ Progress(q)'
  <2>1. CASE q = r
    BY <1>3, <1>4, <2>1 DEF CallsOfOps, NextPiece, OwnDocument, Progress, Ingesting, Works
  <2>2. CASE q # r
    <3>1. CallsOfOps(req[q])' /\ NextPiece(req[q])' /\ OwnDocument(q)'
      BY <1>3, <1>4, <1>5, <2>2, OthersKept
    <3>2. PICK e \in Document : req[q].document = e
      BY DEF IInv, TypeOK, RequestState
    <3>3. Live(e)' => docs'[e] = docs[e] /\ ChunksOf(e)' = ChunksOf(e)
      BY <1>5 DEF Live
    <3>4. Progress(q)'
      BY <1>2, <1>3, <2>2, <3>2, <3>3, ProgressKept DEF IInv
    <3>5. QED
      BY <3>1, <3>4
  <2>3. QED
    BY <2>1, <2>2
<1>13. QED
  BY <1>6, <1>7, <1>8, <1>9, <1>10, <1>11, <1>12 DEF IInv

LEMMA ArchiveKeeps ==
  ASSUME IInv, NEW r \in Request, Archive(r)
  PROVE  IInv'
<1>1. /\ req[r].pc = "archive" /\ base' = [base EXCEPT !.deleted = TRUE] /\ Goto(r, "over")
      /\ docs' = [d \in Document |-> [docs[d] EXCEPT !.deleted = @ \/ docs[d].present]]
      /\ UNCHANGED <<chunks, faults, overlapped>>
  BY DEF Archive, At
<1>2. /\ req' \in [Request -> RequestState] /\ \A q \in Request \ {r} : req'[q] = req[q]
      /\ req'[r].pc = "over" /\ req'[r].op = req[r].op
  BY <1>1, Moved DEF IInv, Label
<1>3. req[r].op = "archive" /\ InProgress(r) /\ ~Works(r)' /\ ~InProgress(r)'
  BY <1>1, <1>2 DEF IInv, CallsOfOps, InProgress, Works, Ingesting
<1>4. /\ docs' \in [Document -> [present : BOOLEAN, deleted : BOOLEAN, status : Status]]
      /\ \A e \in Document : docs'[e].present = docs[e].present /\ ~Live(e)'
      /\ base' \in [deleted : BOOLEAN, chunking : Chunking] /\ base'.deleted
  <2>1. /\ docs \in [Document -> [present : BOOLEAN, deleted : BOOLEAN, status : Status]]
        /\ base \in [deleted : BOOLEAN, chunking : Chunking]
    BY DEF IInv, TypeOK
  <2>2. base' \in [deleted : BOOLEAN, chunking : Chunking] /\ base'.deleted
    BY <1>1, <2>1
  <2>3. ASSUME NEW e \in Document
        PROVE  /\ docs'[e] \in [present : BOOLEAN, deleted : BOOLEAN, status : Status]
               /\ docs'[e].present = docs[e].present /\ ~Live(e)'
    <3>1. docs'[e] = [docs[e] EXCEPT !.deleted = @ \/ docs[e].present]
      BY <1>1
    <3>2. docs[e] \in [present : BOOLEAN, deleted : BOOLEAN, status : Status]
      BY <2>1
    <3>3. QED
      BY <3>1, <3>2 DEF Live
  <2>4. QED
    BY <1>1, <2>2, <2>3
<1>5. TypeOK'
  BY <1>1, <1>2, <1>4 DEF IInv, TypeOK, Chunk
<1>6. Overlaps'
  BY <1>1, <1>2, <1>3, SeenBefore
<1>7. CompletedIsWhole' /\ DeletedHaveNoChunks' /\ DeletedAreLeft' /\ ArchivedBaseIsEmpty'
  <2>1. CompletedIsWhole'
    BY <1>4 DEF CompletedIsWhole
  <2>2. DeletedHaveNoChunks' /\ DeletedAreLeft'
    BY <1>4 DEF DeletedHaveNoChunks, DeletedAreLeft
  <2>3. ArchivedBaseIsEmpty'
    BY <1>4 DEF ArchivedBaseIsEmpty
  <2>4. QED
    BY <2>1, <2>2, <2>3
<1>8. ArchivedGetsNothing'
  <2> SUFFICES ASSUME {"upload", "archive"} \notin overlapped, NEW q \in Request, req'[q].op = "upload", InProgress(q)'
               PROVE  FALSE
    BY <1>1 DEF ArchivedGetsNothing
  <2>1. q # r /\ req[q].op = "upload" /\ InProgress(q)
    BY <1>2, <1>3 DEF InProgress
  <2>2. QED
    BY <1>3, <2>1, Seen
<1>9. ASSUME NEW q \in Request PROVE CallsOfOps(req[q])' /\ NextPiece(req[q])' /\ OwnDocument(q)' /\ Progress(q)'
  <2>1. PICK e \in Document : req'[q].document = e
    BY <1>2 DEF RequestState
  <2>2. Progress(q)'
    BY <1>4, <2>1, ProgressBecomes
  <2>3. CASE q = r
    BY <1>2, <1>3, <2>2, <2>3 DEF CallsOfOps, NextPiece, OwnDocument, Ingesting, Works
  <2>4. CASE q # r
    BY <1>2, <1>3, <1>4, <2>2, <2>4, OthersKept
  <2>5. QED
    BY <2>3, <2>4
<1>10. QED
  BY <1>5, <1>6, <1>7, <1>8, <1>9 DEF IInv

LEMMA CreateKeeps ==
  ASSUME IInv, NEW r \in Request, CreateDocument(r)
  PROVE  IInv'
<1>1. PICK d \in Document :
        /\ ~docs[d].present
        /\ docs' = [docs EXCEPT ![d] = [present |-> TRUE, deleted |-> FALSE, status |-> "PENDING"]]
        /\ Step(r, [req[r] EXCEPT !.pc = "announce", !.document = d])
  BY DEF CreateDocument
<1>2. req[r].pc = "store" /\ UNCHANGED <<base, chunks, faults, overlapped>>
  BY DEF CreateDocument, At
<1>3. /\ req' \in [Request -> RequestState] /\ \A q \in Request \ {r} : req'[q] = req[q]
      /\ req'[r].pc = "announce" /\ req'[r].op = req[r].op /\ req'[r].document = d
  <2> DEFINE new == [req[r] EXCEPT !.pc = "announce", !.document = d]
  <2>1. new \in RequestState /\ new.pc = "announce" /\ new.op = req[r].op /\ new.document = d
    BY DEF IInv, TypeOK, RequestState, Label
  <2>2. Step(r, new)
    BY <1>1
  <2> HIDE DEF new
  <2>3. QED
    BY <2>1, <2>2, Stepped DEF IInv
<1>4. req[r].op = "upload" /\ InProgress(r) /\ Works(r)'
  BY <1>2, <1>3 DEF IInv, CallsOfOps, InProgress, Works, Ingesting
<1>5. /\ docs' \in [Document -> [present : BOOLEAN, deleted : BOOLEAN, status : Status]]
      /\ \A e \in Document \ {d} : docs'[e] = docs[e]
      /\ docs'[d].present /\ ~docs'[d].deleted /\ docs'[d].status = "PENDING"
      /\ \A e \in Document : ChunksOf(e)' = ChunksOf(e)
      /\ ChunksOf(d) = {}
  <2>1. docs \in [Document -> [present : BOOLEAN, deleted : BOOLEAN, status : Status]]
    BY DEF IInv, TypeOK
  <2>2. \A e \in Document : ChunksOf(e)' = ChunksOf(e)
    BY <1>2 DEF ChunksOf
  <2>3. ChunksOf(d) = {}
    BY <1>1 DEF IInv, TypeOK, ChunksOf
  <2>4. QED
    BY <1>1, <2>1, <2>2, <2>3 DEF Status
<1>6. ASSUME NEW q \in Request, q # r, Works(q) PROVE req[q].document # d
  BY <1>1, <1>6 DEF IInv, OwnDocument
<1>7. TypeOK'
  <2>1. \A c \in chunks : docs[c.document].present /\ c.document \in Document
    BY DEF IInv, TypeOK, Chunk
  <2>2. \A c \in chunks' : docs'[c.document].present
    BY <1>2, <1>5, <2>1
  <2>3. QED
    BY <1>2, <1>3, <1>5, <2>2 DEF IInv, TypeOK
<1>8. Overlaps'
  BY <1>2, <1>3, <1>4, SeenBefore
<1>9. CompletedIsWhole'
  <2> SUFFICES ASSUME NEW e \in Document, Live(e)', docs'[e].status = "COMPLETED", IngestedAlone'
               PROVE  Whole(e)' \/ (HalfReset(e)' /\ ChunksOf(e)' = {})
    BY DEF CompletedIsWhole
  <2>1. e # d
    BY <1>5
  <2>2. HalfReset(e) => HalfReset(e)'
    BY <1>3, <1>4 DEF HalfReset
  <2>3. QED
    BY <1>2, <1>5, <2>1, <2>2, CompletedKept
<1>10. DeletedHaveNoChunks'
  BY <1>2, <1>5 DEF IInv, DeletedHaveNoChunks, DeletedAlone
<1>11. DeletedAreLeft'
  <2> SUFFICES ASSUME DeletedAlone, ~base.deleted, NEW q \in Request, Works(q)'
               PROVE  ~docs'[req'[q].document].deleted
    BY <1>2 DEF DeletedAreLeft, DeletedAlone
  <2>1. CASE q = r
    BY <1>3, <1>5, <2>1
  <2>2. CASE q # r
    <3>1. Works(q) /\ req'[q] = req[q] /\ req[q].document \in Document
      BY <1>3, <2>2 DEF Works, IInv, TypeOK, RequestState
    <3>2. ~docs[req[q].document].deleted
      BY <3>1 DEF IInv, DeletedAreLeft
    <3>3. QED
      BY <1>5, <1>6, <2>2, <3>1, <3>2
  <2>3. QED
    BY <2>1, <2>2
<1>12. ArchivedBaseIsEmpty' /\ ArchivedGetsNothing'
  <2>1. ~(base.deleted /\ {"upload", "archive"} \notin overlapped)
    BY <1>4 DEF IInv, ArchivedGetsNothing
  <2>2. QED
    BY <1>2, <2>1 DEF ArchivedBaseIsEmpty, ArchivedGetsNothing
<1>13. ASSUME NEW q \in Request PROVE CallsOfOps(req[q])' /\ NextPiece(req[q])' /\ OwnDocument(q)' /\ Progress(q)'
  <2>1. CASE q = r
    <3>1. CallsOfOps(req[r])' /\ NextPiece(req[r])'
      BY <1>3, <1>4 DEF CallsOfOps, NextPiece, Ingesting
    <3>2. OwnDocument(r)'
      <4>1. \A p \in Request \ {r} : Works(p)' => Works(p) /\ req'[p].document = req[p].document
        BY <1>3 DEF Works
      <4>2. QED
        BY <1>3, <1>5, <1>6, <4>1 DEF OwnDocument
    <3>3. Progress(r)'
      BY <1>3, <1>5, ProgressBecomes DEF Got
    <3>4. QED
      BY <2>1, <3>1, <3>2, <3>3
  <2>2. CASE q # r
    <3>1. CallsOfOps(req[q])' /\ NextPiece(req[q])' /\ OwnDocument(q)'
      BY <1>3, <1>5, <1>6, <2>2, OthersKept
    <3>2. PICK e \in Document : req[q].document = e
      BY DEF IInv, TypeOK, RequestState
    <3>3. ASSUME Works(q) PROVE Progress(q)'
      BY <1>2, <1>3, <1>5, <1>6, <2>2, <3>2, <3>3, ProgressKept DEF IInv
    <3>4. ASSUME ~Works(q) PROVE Progress(q)'
      BY <1>3, <2>2, <3>4 DEF Progress, Works
    <3>5. QED
      BY <3>1, <3>3, <3>4
  <2>3. QED
    BY <2>1, <2>2
<1>14. QED
  BY <1>7, <1>8, <1>9, <1>10, <1>11, <1>12, <1>13 DEF IInv

-----------------------------------------------------------------------------
(* The calls of an ingestion.                                              *)

(* What a call has to show of its own document: nobody else is disturbed.  *)
LEMMA WorkerKept ==
  ASSUME IInv, NEW r \in Request, Works(r), NEW d \in Document, req[r].document = d,
         req' \in [Request -> RequestState], \A q \in Request \ {r} : req'[q] = req[q],
         req'[r].op = req[r].op, req'[r].document = d, req'[r].pc # "idle",
         UNCHANGED <<base, faults, overlapped>>,
         docs' \in [Document -> [present : BOOLEAN, deleted : BOOLEAN, status : Status]],
         docs'[d].present = docs[d].present, docs'[d].deleted = docs[d].deleted,
         \A e \in Document \ {d} : docs'[e] = docs[e] /\ ChunksOf(e)' = ChunksOf(e),
         \A c \in chunks' : c \in chunks \/ (c \in Chunk /\ c.index < Pieces[c.chunking] /\ c.document = d),
         CallsOfOps(req[r])', NextPiece(req[r])',
         IngestedAlone /\ Live(d) =>
           /\ Works(r)' => Got(r, d)'
           /\ docs'[d].status = "COMPLETED" => Whole(d)' \/ (HalfReset(d)' /\ ChunksOf(d)' = {})
  PROVE  IInv'
<1>1. /\ InProgress(r) /\ docs[d].present /\ req[r].op \in {"upload", "reindex"}
      /\ \A e \in Document : docs'[e].present = docs[e].present /\ docs'[e].deleted = docs[e].deleted /\ (Live(e)' <=> Live(e))
  <2>1. InProgress(r) /\ docs[d].present /\ req[r].op \in {"upload", "reindex"}
    BY DEF IInv, OwnDocument, CallsOfOps, Works, InProgress, Ingesting
  <2>2. QED
    BY <2>1 DEF Live
<1>2. TypeOK'
  <2>1. \A c \in chunks : docs[c.document].present /\ c.document \in Document
    BY DEF IInv, TypeOK, Chunk
  <2>2. \A c \in chunks' : c \in Chunk /\ c.index < Pieces[c.chunking] /\ docs'[c.document].present
    BY <1>1, <2>1 DEF IInv, TypeOK
  <2>3. QED
    BY <2>2 DEF IInv, TypeOK
<1>3. Overlaps'
  BY <1>1, SeenBefore
<1>4. (IngestedAlone' <=> IngestedAlone) /\ (DeletedAlone' <=> DeletedAlone)
  BY DEF IngestedAlone, DeletedAlone
<1>5. CompletedIsWhole'
  <2> SUFFICES ASSUME NEW e \in Document, Live(e)', docs'[e].status = "COMPLETED", IngestedAlone'
               PROVE  Whole(e)' \/ (HalfReset(e)' /\ ChunksOf(e)' = {})
    BY DEF CompletedIsWhole
  <2>1. CASE e = d
    BY <1>1, <1>4, <2>1
  <2>2. CASE e # d
    <3>1. HalfReset(e) => HalfReset(e)'
      BY <2>2 DEF HalfReset
    <3>2. QED
      BY <2>2, <3>1, CompletedKept
  <2>3. QED
    BY <2>1, <2>2
<1>6. DeletedAreLeft'
  <2> SUFFICES ASSUME DeletedAlone, ~base.deleted, NEW q \in Request, Works(q)'
               PROVE  ~docs'[req'[q].document].deleted
    BY <1>4 DEF DeletedAreLeft
  <2>1. CASE q = r
    BY <1>1, <2>1 DEF IInv, DeletedAreLeft
  <2>2. CASE q # r
    <3>1. Works(q) /\ req'[q] = req[q] /\ req[q].document \in Document
      BY <2>2 DEF Works, IInv, TypeOK, RequestState
    <3>2. QED
      BY <1>1, <3>1 DEF IInv, DeletedAreLeft
  <2>3. QED
    BY <2>1, <2>2
<1>7. DeletedHaveNoChunks'
  <2> SUFFICES ASSUME NEW e \in Document, docs[e].deleted, ~base.deleted, DeletedAlone PROVE ChunksOf(e)' = {}
    BY <1>1, <1>4 DEF DeletedHaveNoChunks
  <2>1. e # d
    BY DEF IInv, DeletedAreLeft
  <2>2. QED
    BY <2>1 DEF IInv, DeletedHaveNoChunks
<1>8. ArchivedBaseIsEmpty' /\ ArchivedGetsNothing'
  <2>1. ArchivedBaseIsEmpty'
    BY <1>1 DEF IInv, ArchivedBaseIsEmpty
  <2>2. \A q \in Request : InProgress(q)' => InProgress(q) /\ req'[q].op = req[q].op
    BY <1>1 DEF InProgress
  <2>3. ArchivedGetsNothing'
    BY <2>2 DEF IInv, ArchivedGetsNothing
  <2>4. QED
    BY <2>1, <2>3
<1>9. ASSUME NEW q \in Request PROVE CallsOfOps(req[q])' /\ NextPiece(req[q])' /\ OwnDocument(q)' /\ Progress(q)'
  <2>1. CASE q = r
    <3>1. OwnDocument(r)'
      <4>1. \A p \in Request \ {r} : Works(p)' => Works(p) /\ req'[p].document = req[p].document /\ req'[p].op = req[p].op
        BY DEF Works
      <4>2. QED
        BY <1>1, <4>1 DEF IInv, OwnDocument
    <3>2. Progress(r)'
      BY <1>1, <1>4, ProgressBecomes
    <3>3. QED
      BY <2>1, <3>1, <3>2
  <2>2. CASE q # r
    <3>1. CallsOfOps(req[q])' /\ NextPiece(req[q])' /\ OwnDocument(q)'
      BY <1>1, <2>2, OthersKept DEF IInv, OwnDocument
    <3>2. PICK e \in Document : req[q].document = e
      BY DEF IInv, TypeOK, RequestState
    <3>3. ASSUME Works(q) /\ IngestedAlone PROVE Progress(q)'
      BY <2>2, <3>2, <3>3, WorksAlone, ProgressKept DEF IInv
    <3>4. ASSUME ~(Works(q) /\ IngestedAlone) PROVE Progress(q)'
      BY <1>4, <2>2, <3>4 DEF Progress, Works
    <3>5. QED
      BY <3>1, <3>3, <3>4
  <2>3. QED
    BY <2>1, <2>2
<1>10. QED
  BY <1>2, <1>3, <1>5, <1>6, <1>7, <1>8, <1>9 DEF IInv

(* A call that only reads: no row is written.                              *)
LEMMA ReaderKept ==
  ASSUME IInv, NEW r \in Request, Works(r), NEW d \in Document, req[r].document = d,
         req' \in [Request -> RequestState], \A q \in Request \ {r} : req'[q] = req[q],
         req'[r].op = req[r].op, req'[r].document = d, req'[r].pc # "idle",
         UNCHANGED <<base, faults, overlapped, docs, chunks>>,
         CallsOfOps(req[r])', NextPiece(req[r])',
         IngestedAlone /\ Live(d) =>
           /\ Works(r)' => Got(r, d)'
           /\ docs[d].status = "COMPLETED" => Whole(d)' \/ (HalfReset(d)' /\ ChunksOf(d)' = {})
  PROVE  IInv'
<1>1. docs' \in [Document -> [present : BOOLEAN, deleted : BOOLEAN, status : Status]]
  BY DEF IInv, TypeOK
<1>2. \A e \in Document : docs'[e] = docs[e] /\ ChunksOf(e)' = ChunksOf(e)
  BY DEF ChunksOf
<1>3. \A c \in chunks' : c \in chunks
  OBVIOUS
<1>4. QED
  BY <1>1, <1>2, <1>3, WorkerKept

(* A call that writes the status of the document.                          *)
LEMMA WriterKept ==
  ASSUME IInv, NEW r \in Request, Works(r), NEW d \in Document, req[r].document = d,
         req' \in [Request -> RequestState], \A q \in Request \ {r} : req'[q] = req[q],
         req'[r].op = req[r].op, req'[r].document = d, req'[r].pc # "idle",
         NEW s \in Status, SetStatus(r, s), UNCHANGED <<base, faults, overlapped, chunks>>,
         CallsOfOps(req[r])', NextPiece(req[r])',
         docs'[d].status = s /\ ChunksOf(d)' = ChunksOf(d) /\ (Whole(d)' <=> Whole(d)) /\ IngestedAlone /\ Live(d) =>
           /\ Works(r)' => Got(r, d)'
           /\ s = "COMPLETED" => Whole(d)
  PROVE  IInv'
<1>1. /\ docs' = [docs EXCEPT ![d].status = s]
      /\ docs \in [Document -> [present : BOOLEAN, deleted : BOOLEAN, status : Status]]
  BY DEF SetStatus, IInv, TypeOK
<1>2. /\ docs' \in [Document -> [present : BOOLEAN, deleted : BOOLEAN, status : Status]]
      /\ docs'[d].present = docs[d].present /\ docs'[d].deleted = docs[d].deleted /\ docs'[d].status = s
      /\ \A e \in Document \ {d} : docs'[e] = docs[e]
  BY <1>1
<1>3. \A e \in Document : ChunksOf(e)' = ChunksOf(e)
  BY DEF ChunksOf
<1>4. \A c \in chunks' : c \in chunks
  OBVIOUS
<1>5. Whole(d)' <=> Whole(d)
  BY <1>3 DEF Whole
<1>6. QED
  BY <1>2, <1>3, <1>4, <1>5, WorkerKept

LEMMA WhatIsGot ==
  ASSUME IInv, NEW r \in Request, Works(r)
  PROVE  \E d \in Document :
           /\ req[r].document = d
           /\ IngestedAlone /\ Live(d) => Got(r, d)
           /\ IngestedAlone /\ Live(d) /\ docs[d].status = "COMPLETED" => Whole(d) \/ (HalfReset(d) /\ ChunksOf(d) = {})
<1>1. PICK d \in Document : req[r].document = d
  BY DEF IInv, TypeOK, RequestState
<1>2. IngestedAlone /\ Live(d) => Got(r, d)
  BY <1>1, ProgressIs DEF IInv
<1>3. IngestedAlone /\ Live(d) /\ docs[d].status = "COMPLETED" => Whole(d) \/ (HalfReset(d) /\ ChunksOf(d) = {})
  BY DEF IInv, CompletedIsWhole
<1>4. QED
  BY <1>1, <1>2, <1>3

LEMMA ReadersKeep ==
  ASSUME IInv, NEW r \in Request, Announce(r) \/ ReadDocument(r) \/ Extract(r) \/ Log(r) \/ Throw(r)
  PROVE  IInv'
<1>1. PICK label \in {"read", "over", "base", "insert", "giveUp"} :
        /\ Goto(r, label) /\ UNCHANGED <<base, faults, overlapped, docs, chunks>>
        /\ \/ req[r].pc = "announce" /\ label = "read"
           \/ /\ req[r].pc = "read" /\ label \in {"over", "base"}
              /\ label = "over" => docs[req[r].document].status # "PENDING"
           \/ req[r].pc = "extract" /\ label = "insert" /\ Pieces[req[r].chunking] > 0
           \/ req[r].pc = "log" /\ label = "over"
           \/ req[r].pc \in {"begin", "extract", "insert", "complete", "log"} /\ label = "giveUp"
  <2>1. CASE Announce(r)
    BY <2>1 DEF Announce, At
  <2>2. CASE ReadDocument(r)
    BY <2>2 DEF ReadDocument, At
  <2>3. CASE Extract(r)
    BY <2>3 DEF Extract, At
  <2>4. CASE Log(r)
    BY <2>4 DEF Log, At
  <2>5. CASE Throw(r)
    BY <2>5 DEF Throw, At
  <2>6. QED
    BY <2>1, <2>2, <2>3, <2>4, <2>5
<1>2. Works(r)
  BY <1>1 DEF Works, Ingesting
<1>3. PICK d \in Document :
        /\ req[r].document = d
        /\ IngestedAlone /\ Live(d) => Got(r, d)
        /\ IngestedAlone /\ Live(d) /\ docs[d].status = "COMPLETED" => Whole(d) \/ (HalfReset(d) /\ ChunksOf(d) = {})
  BY <1>2, WhatIsGot
<1>4. /\ req' \in [Request -> RequestState] /\ \A q \in Request \ {r} : req'[q] = req[q]
      /\ req'[r].pc = label /\ req'[r].op = req[r].op /\ req'[r].document = d
      /\ req'[r].chunking = req[r].chunking /\ req'[r].next = req[r].next
  BY <1>1, <1>3, Moved DEF IInv, Label
<1>5. req[r].op \in {"upload", "reindex"} /\ req[r].chunking \in Chunking
  BY <1>2 DEF IInv, CallsOfOps, Works, TypeOK, RequestState
<1>6. CallsOfOps(req[r])' /\ NextPiece(req[r])'
  <2>1. CallsOfOps(req[r])'
    BY <1>1, <1>4, <1>5 DEF CallsOfOps, Ingesting
  <2>2. NextPiece(req[r])'
    BY <1>1, <1>4 DEF NextPiece, IInv
  <2>3. QED
    BY <2>1, <2>2
<1>7. ASSUME IngestedAlone, Live(d)
      PROVE  /\ Works(r)' => Got(r, d)'
             /\ docs[d].status = "COMPLETED" => Whole(d)' \/ (HalfReset(d)' /\ ChunksOf(d)' = {})
  <2>1. ChunksOf(d)' = ChunksOf(d) /\ (Whole(d)' <=> Whole(d)) /\ docs'[d] = docs[d]
    BY <1>1 DEF Whole, ChunksOf
  <2>2. Got(r, d)
    BY <1>3, <1>7
  <2>3. Works(r)' => Got(r, d)'
    <3>1. CASE label \in {"read", "base"}
      BY <1>1, <1>3, <1>4, <2>1, <2>2, <3>1 DEF Got
    <3>2. CASE label = "insert"
      <4>1. req[r].pc = "extract" /\ req[r].next = 0
        BY <1>1, <3>2 DEF IInv, NextPiece
      <4>2. Cuts(d, r, req[r].chunking, 0) = {}
        BY <1>5, CutsGrow
      <4>3. QED
        BY <1>4, <2>1, <2>2, <3>2, <4>1, <4>2 DEF Got
    <3>3. CASE label = "giveUp"
      BY <1>1, <1>4, <2>1, <2>2, <3>3 DEF Got
    <3>4. CASE label = "over"
      BY <1>4, <3>4 DEF Works, Ingesting
    <3>5. QED
      BY <3>1, <3>2, <3>3, <3>4
  <2>4. docs[d].status = "COMPLETED" => Whole(d)'
    BY <1>1, <1>3, <2>1, <2>2 DEF Got
  <2>5. QED
    BY <2>3, <2>4
<1>8. QED
  BY <1>1, <1>2, <1>3, <1>4, <1>6, <1>7, ReaderKept

LEMMA ReadBaseKeeps ==
  ASSUME IInv, NEW r \in Request, ReadBase(r)
  PROVE  IInv'
<1> DEFINE new == [req[r] EXCEPT !.pc = "begin", !.chunking = base.chunking, !.next = 0]
<1>1. req[r].pc = "base" /\ Step(r, new) /\ UNCHANGED <<base, faults, overlapped, docs, chunks>>
  BY DEF ReadBase, At
<1>2. Works(r)
  BY <1>1 DEF Works, Ingesting
<1>3. PICK d \in Document :
        /\ req[r].document = d
        /\ IngestedAlone /\ Live(d) => Got(r, d)
        /\ IngestedAlone /\ Live(d) /\ docs[d].status = "COMPLETED" => Whole(d) \/ (HalfReset(d) /\ ChunksOf(d) = {})
  BY <1>2, WhatIsGot
<1>4. /\ new \in RequestState /\ new.pc = "begin" /\ new.op = req[r].op /\ new.document = d /\ new.next = 0
  <2>1. req[r] \in RequestState /\ base.chunking \in Chunking
    BY DEF IInv, TypeOK
  <2>2. QED
    BY <1>3, <2>1 DEF RequestState, Label
<1> HIDE DEF new
<1>5. /\ req' \in [Request -> RequestState] /\ \A q \in Request \ {r} : req'[q] = req[q] /\ req'[r] = new
  BY <1>1, <1>4, Stepped DEF IInv
<1>6. req'[r] = new
  BY <1>1, <1>4, Stepped DEF IInv
<1>7. CallsOfOps(req[r])' /\ NextPiece(req[r])'
  BY <1>2, <1>4, <1>6 DEF IInv, CallsOfOps, NextPiece, Works, Ingesting
<1>8. ASSUME IngestedAlone, Live(d) PROVE Got(r, d)' /\ docs[d].status # "COMPLETED"
  <2>1. ChunksOf(d)' = ChunksOf(d) /\ docs'[d] = docs[d]
    BY <1>1 DEF ChunksOf
  <2>2. QED
    BY <1>1, <1>3, <1>4, <1>6, <1>8, <2>1 DEF Got
<1>9. QED
  BY <1>1, <1>2, <1>3, <1>4, <1>5, <1>6, <1>7, <1>8, ReaderKept

LEMMA ClearKeeps ==
  ASSUME IInv, NEW r \in Request, ClearChunks(r)
  PROVE  IInv'
<1>1. req[r].pc = "clear" /\ Goto(r, "reset") /\ UNCHANGED <<base, faults, overlapped, docs>>
  BY DEF ClearChunks, At
<1>2. Works(r)
  BY <1>1 DEF Works, Ingesting
<1>3. PICK d \in Document : req[r].document = d
  BY DEF IInv, TypeOK, RequestState
<1>4. /\ req' \in [Request -> RequestState] /\ \A q \in Request \ {r} : req'[q] = req[q]
      /\ req'[r].pc = "reset" /\ req'[r].op = req[r].op /\ req'[r].document = d
  BY <1>1, <1>3, Moved DEF IInv, Label
<1>5. req[r].op = "reindex"
  BY <1>1 DEF IInv, CallsOfOps
<1>6. chunks' = chunks \ ChunksOf(d)
  BY <1>3 DEF ClearChunks
<1>7. ChunksOf(d)' = {} /\ (\A e \in Document \ {d} : ChunksOf(e)' = ChunksOf(e)) /\ \A c \in chunks' : c \in chunks
  BY <1>6 DEF ChunksOf
<1>8. CallsOfOps(req[r])' /\ NextPiece(req[r])'
  BY <1>4, <1>5 DEF CallsOfOps, NextPiece
<1>9. Got(r, d)' /\ HalfReset(d)'
  BY <1>4, <1>5, <1>7 DEF Got, HalfReset
<1>10. docs' \in [Document -> [present : BOOLEAN, deleted : BOOLEAN, status : Status]]
  BY <1>1 DEF IInv, TypeOK
<1>11. QED
  BY <1>1, <1>2, <1>3, <1>4, <1>7, <1>8, <1>9, <1>10, WorkerKept

LEMMA WritersKeep ==
  ASSUME IInv, NEW r \in Request, ResetStatus(r) \/ BeginProcessing(r) \/ Complete(r) \/ GiveUp(r)
  PROVE  IInv'
<1>1. PICK label \in {"read", "extract", "log", "over"}, s \in Status :
        /\ Goto(r, label) /\ SetStatus(r, s) /\ UNCHANGED <<base, faults, overlapped, chunks>>
        /\ \/ req[r].pc = "reset" /\ label = "read" /\ s = "PENDING"
           \/ req[r].pc = "begin" /\ label = "extract" /\ s = "PROCESSING"
           \/ req[r].pc = "complete" /\ label = "log" /\ s = "COMPLETED"
           \/ req[r].pc = "giveUp" /\ label = "over" /\ s = "FAILED"
  <2>1. CASE ResetStatus(r)
    BY <2>1 DEF ResetStatus, At, Status
  <2>2. CASE BeginProcessing(r)
    BY <2>2 DEF BeginProcessing, At, Status
  <2>3. CASE Complete(r)
    BY <2>3 DEF Complete, At, Status
  <2>4. CASE GiveUp(r)
    BY <2>4 DEF GiveUp, At, Status
  <2>5. QED
    BY <2>1, <2>2, <2>3, <2>4
<1>2. Works(r)
  BY <1>1 DEF Works, Ingesting
<1>3. PICK d \in Document :
        /\ req[r].document = d
        /\ IngestedAlone /\ Live(d) => Got(r, d)
        /\ IngestedAlone /\ Live(d) /\ docs[d].status = "COMPLETED" => Whole(d) \/ (HalfReset(d) /\ ChunksOf(d) = {})
  BY <1>2, WhatIsGot
<1>4. /\ req' \in [Request -> RequestState] /\ \A q \in Request \ {r} : req'[q] = req[q]
      /\ req'[r].pc = label /\ req'[r].op = req[r].op /\ req'[r].document = d
      /\ req'[r].chunking = req[r].chunking /\ req'[r].next = req[r].next
  BY <1>1, <1>3, Moved DEF IInv, Label
<1>5. req[r].op \in {"upload", "reindex"}
  BY <1>2 DEF IInv, CallsOfOps, Works
<1>6. CallsOfOps(req[r])' /\ NextPiece(req[r])'
  <2>1. CallsOfOps(req[r])'
    BY <1>1, <1>4, <1>5 DEF CallsOfOps, Ingesting
  <2>2. NextPiece(req[r])'
    BY <1>1, <1>4 DEF NextPiece, IInv
  <2>3. QED
    BY <2>1, <2>2
<1>7. ASSUME docs'[d].status = s, ChunksOf(d)' = ChunksOf(d), Whole(d)' <=> Whole(d), IngestedAlone, Live(d)
      PROVE  /\ Works(r)' => Got(r, d)'
             /\ s = "COMPLETED" => Whole(d)
  <2>1. Got(r, d)
    BY <1>3, <1>7
  <2>2. CASE label = "over"
    BY <1>1, <1>4, <2>2 DEF Works, Ingesting
  <2>3. CASE label # "over"
    BY <1>1, <1>4, <1>7, <2>1, <2>3 DEF Got
  <2>4. QED
    BY <2>2, <2>3
<1>8. QED
  BY <1>1, <1>2, <1>3, <1>4, <1>6, <1>7, WriterKept

LEMMA InsertKeeps ==
  ASSUME IInv, NEW r \in Request, InsertChunk(r)
  PROVE  IInv'
<1>1. Works(r) /\ req[r].pc = "insert"
  BY DEF InsertChunk, At, Works, Ingesting
<1>2. PICK d \in Document :
        /\ req[r].document = d
        /\ IngestedAlone /\ Live(d) => Got(r, d)
        /\ IngestedAlone /\ Live(d) /\ docs[d].status = "COMPLETED" => Whole(d) \/ (HalfReset(d) /\ ChunksOf(d) = {})
  BY <1>1, WhatIsGot
<1>3. PICK c \in Chunking, n \in Nat : req[r].chunking = c /\ req[r].next = n /\ n < Pieces[c] /\ Pieces[c] \in Nat
  BY <1>1, PiecesAssumption DEF IInv, TypeOK, RequestState, NextPiece
<1>4. PICK label \in {"complete", "insert"} :
        /\ label = (IF n + 1 = Pieces[c] THEN "complete" ELSE "insert")
        /\ Step(r, [req[r] EXCEPT !.next = @ + 1, !.pc = label])
  BY <1>3 DEF InsertChunk
<1> DEFINE piece == [document |-> d, by |-> r, chunking |-> c, index |-> n]
           new == [req[r] EXCEPT !.next = @ + 1, !.pc = label]
<1>5. chunks' = chunks \cup {piece} /\ UNCHANGED <<base, faults, overlapped, docs>>
  BY <1>2, <1>3 DEF InsertChunk, At
<1>6. /\ new \in RequestState /\ new.pc = label /\ new.op = req[r].op /\ new.document = d
      /\ new.chunking = c /\ new.next = n + 1
  <2>1. req[r] \in RequestState
    BY DEF IInv, TypeOK
  <2>2. label \in Label /\ n + 1 \in Nat
    BY DEF Label
  <2>3. new = [req[r] EXCEPT !.next = n + 1, !.pc = label]
    BY <1>3
  <2> HIDE DEF new
  <2>4. QED
    BY <1>2, <1>3, <2>1, <2>2, <2>3 DEF RequestState
<1>7. piece \in Chunk /\ piece.index < Pieces[piece.chunking] /\ piece.document = d
  BY <1>3 DEF Chunk
<1>8. Step(r, new)
  BY <1>4
<1>9. Cuts(d, r, c, n + 1) = Cuts(d, r, c, n) \cup {piece}
  BY CutsGrow
<1> HIDE DEF new, piece
<1>10. /\ req' \in [Request -> RequestState] /\ \A q \in Request \ {r} : req'[q] = req[q]
       /\ req'[r] = new
  BY <1>6, <1>8, Stepped DEF IInv
<1>11. /\ ChunksOf(d)' = ChunksOf(d) \cup {piece} /\ \A e \in Document \ {d} : ChunksOf(e)' = ChunksOf(e)
       /\ \A k \in chunks' : k \in chunks \/ (k \in Chunk /\ k.index < Pieces[k.chunking] /\ k.document = d)
  BY <1>5, <1>7 DEF ChunksOf
<1>12. CallsOfOps(req[r])' /\ NextPiece(req[r])'
  <2>1. req[r].op \in {"upload", "reindex"}
    BY <1>1 DEF IInv, CallsOfOps, Works
  <2>2. label = "insert" => n + 1 < Pieces[c]
    BY <1>3, <1>4
  <2>3. QED
    BY <1>6, <1>10, <2>1, <2>2 DEF CallsOfOps, NextPiece
<1>13. ASSUME IngestedAlone, Live(d) PROVE Got(r, d)' /\ docs'[d].status # "COMPLETED"
  <2>1. docs[d].status = "PROCESSING" /\ ChunksOf(d) = Cuts(d, r, c, n)
    BY <1>1, <1>2, <1>3, <1>13 DEF Got
  <2>2. docs'[d].status = "PROCESSING" /\ ChunksOf(d)' = Cuts(d, r, c, n + 1)
    BY <1>5, <1>9, <1>11, <2>1
  <2>3. CASE label = "insert"
    BY <1>6, <1>10, <2>2, <2>3 DEF Got
  <2>4. CASE label = "complete"
    <3>1. n + 1 = Pieces[c]
      BY <1>4, <2>4
    <3>2. Cut(ChunksOf(d)', c)
      <4>1. Cuts(d, r, c, Pieces[c]) = ChunksOf(d)'
        BY <2>2, <3>1
      <4>2. QED
        BY <1>3, <4>1, CutsAreCut DEF Cut
    <3>3. Whole(d)'
      BY <3>2 DEF Whole
    <3>4. QED
      BY <1>6, <1>10, <2>2, <2>4, <3>3 DEF Got
  <2>5. QED
    BY <2>3, <2>4
<1>14. docs' \in [Document -> [present : BOOLEAN, deleted : BOOLEAN, status : Status]]
  BY <1>5 DEF IInv, TypeOK
<1>15. QED
  BY <1>1, <1>2, <1>5, <1>6, <1>10, <1>11, <1>12, <1>13, <1>14, WorkerKept

-----------------------------------------------------------------------------
(* All steps.                                                              *)

LEMMA CrashKeeps ==
  ASSUME IInv, Crash
  PROVE  IInv'
<1>1. /\ req' = [r \in Request |-> IF InProgress(r) THEN [req[r] EXCEPT !.pc = "lost"] ELSE req[r]]
      /\ faults' = faults + 1 /\ UNCHANGED <<base, docs, chunks, overlapped>>
  BY DEF Crash
<1>2. /\ req' \in [Request -> RequestState]
      /\ \A r \in Request : req'[r] \in RequestState /\ ~InProgress(r)' /\ req'[r].op = req[r].op /\ req'[r].document = req[r].document
      /\ \A r \in Request : req[r].pc \notin {"idle", "over"} => req'[r].pc \notin {"idle", "over"}
  <2>1. ASSUME NEW r \in Request
        PROVE  /\ req'[r] \in RequestState /\ ~InProgress(r)' /\ req'[r].op = req[r].op /\ req'[r].document = req[r].document
               /\ req[r].pc \notin {"idle", "over"} => req'[r].pc \notin {"idle", "over"}
    <3>1. req[r] \in RequestState
      BY DEF IInv, TypeOK
    <3>2. CASE InProgress(r)
      <4>1. req'[r] = [req[r] EXCEPT !.pc = "lost"]
        BY <1>1, <3>2
      <4>2. QED
        BY <3>1, <4>1 DEF RequestState, Label, InProgress
    <3>3. CASE ~InProgress(r)
      BY <1>1, <3>1, <3>3 DEF InProgress
    <3>4. QED
      BY <3>2, <3>3
  <2>2. req' \in [Request -> RequestState]
    BY <1>1, <2>1
  <2>3. QED
    BY <2>1, <2>2
<1>3. \A r \in Request : ~Works(r)'
  BY <1>2 DEF Works, Ingesting, InProgress
<1>4. TypeOK'
  BY <1>1, <1>2 DEF IInv, TypeOK
<1>5. Overlaps'
  BY <1>2 DEF Overlaps
<1>6. CompletedIsWhole'
  <2>1. \A d \in Document : docs'[d] = docs[d] /\ ChunksOf(d)' = ChunksOf(d)
    BY <1>1 DEF ChunksOf
  <2>2. \A d \in Document : HalfReset(d) => HalfReset(d)'
    BY <1>2 DEF HalfReset
  <2>3. QED
    BY <1>1, <2>1, <2>2, CompletedKept DEF CompletedIsWhole
<1>7. DeletedHaveNoChunks' /\ DeletedAreLeft' /\ ArchivedBaseIsEmpty' /\ ArchivedGetsNothing'
  <2>1. DeletedHaveNoChunks'
    BY <1>1 DEF IInv, DeletedHaveNoChunks, DeletedAlone, ChunksOf
  <2>2. DeletedAreLeft'
    BY <1>3 DEF DeletedAreLeft
  <2>3. ArchivedBaseIsEmpty'
    BY <1>1 DEF IInv, ArchivedBaseIsEmpty, Live
  <2>4. ArchivedGetsNothing'
    BY <1>2 DEF ArchivedGetsNothing
  <2>5. QED
    BY <2>1, <2>2, <2>3, <2>4
<1>8. ASSUME NEW r \in Request PROVE CallsOfOps(req[r])' /\ NextPiece(req[r])' /\ OwnDocument(r)' /\ Progress(r)'
  <2>1. CallsOfOps(req[r])' /\ NextPiece(req[r])'
    BY <1>2 DEF InProgress, CallsOfOps, NextPiece, Ingesting
  <2>2. OwnDocument(r)' /\ Progress(r)'
    BY <1>3 DEF OwnDocument, Progress
  <2>3. QED
    BY <2>1, <2>2
<1>9. QED
  BY <1>4, <1>5, <1>6, <1>7, <1>8 DEF IInv

LEMMA StutterKeeps ==
  ASSUME IInv, UNCHANGED vars
  PROVE  IInv'
<1>1. UNCHANGED <<base, docs, chunks, req, faults, overlapped>>
  BY DEF vars
<1>2. TypeOK' /\ Overlaps'
  BY <1>1 DEF IInv, TypeOK, Overlaps, InProgress
<1>3. CompletedIsWhole'
  <2>1. \A d \in Document : docs'[d] = docs[d] /\ ChunksOf(d)' = ChunksOf(d) /\ (HalfReset(d) => HalfReset(d)')
    BY <1>1 DEF ChunksOf, HalfReset
  <2>2. QED
    BY <1>1, <2>1, CompletedKept DEF CompletedIsWhole
<1>4. DeletedHaveNoChunks' /\ DeletedAreLeft'
  BY <1>1 DEF IInv, DeletedHaveNoChunks, DeletedAreLeft, DeletedAlone, ChunksOf, Works
<1>5. ArchivedBaseIsEmpty' /\ ArchivedGetsNothing'
  BY <1>1 DEF IInv, ArchivedBaseIsEmpty, ArchivedGetsNothing, Live, InProgress
<1>6. ASSUME NEW r \in Request PROVE CallsOfOps(req[r])' /\ NextPiece(req[r])' /\ OwnDocument(r)' /\ Progress(r)'
  <2>1. CallsOfOps(req[r])' /\ NextPiece(req[r])' /\ OwnDocument(r)'
    BY <1>1 DEF IInv, CallsOfOps, NextPiece, OwnDocument, Works
  <2>2. PICK d \in Document : req[r].document = d
    BY DEF IInv, TypeOK, RequestState
  <2>3. Progress(r)'
    BY <1>1, <2>2, ProgressKept DEF IInv, ChunksOf
  <2>4. QED
    BY <2>1, <2>3
<1>7. QED
  BY <1>2, <1>3, <1>4, <1>5, <1>6 DEF IInv

LEMMA InitHolds ==
  ASSUME Init
  PROVE  IInv
<1>1. PICK c \in Chunking, d \in Document :
        base = [deleted |-> FALSE, chunking |-> c] /\ req = [r \in Request |-> Idle(d, c)]
  BY DEF Init
<1>2. /\ docs = [e \in Document |-> [present |-> FALSE, deleted |-> FALSE, status |-> "PENDING"]]
      /\ chunks = {} /\ faults = 0 /\ overlapped = {}
  BY DEF Init
<1>3. Idle(d, c) \in RequestState /\ Idle(d, c).pc = "idle"
  BY DEF Idle, RequestState, Op, Label
<1>4. \A r \in Request : req[r].pc = "idle" /\ ~Works(r) /\ ~InProgress(r)
  BY <1>1, <1>3 DEF Works, Ingesting, InProgress
<1>5. TypeOK
  BY <1>1, <1>2, <1>3 DEF TypeOK, Status
<1>6. Overlaps /\ CompletedIsWhole /\ DeletedHaveNoChunks /\ DeletedAreLeft
  BY <1>2, <1>4 DEF Overlaps, CompletedIsWhole, DeletedHaveNoChunks, DeletedAreLeft, Live
<1>7. ArchivedBaseIsEmpty /\ ArchivedGetsNothing
  BY <1>2, <1>4 DEF ArchivedBaseIsEmpty, ArchivedGetsNothing, Live
<1>8. \A r \in Request : CallsOfOps(req[r]) /\ NextPiece(req[r]) /\ OwnDocument(r) /\ Progress(r)
  BY <1>4 DEF CallsOfOps, NextPiece, OwnDocument, Progress, Ingesting
<1>9. QED
  BY <1>5, <1>6, <1>7, <1>8 DEF IInv

LEMMA NextKeeps ==
  ASSUME IInv, [Next]_vars
  PROVE  IInv'
<1>1. ASSUME NEW r \in Request, Continues(r) PROVE IInv'
  <2>1. CASE CreateDocument(r)
    BY <2>1, CreateKeeps
  <2>2. CASE Announce(r) \/ ReadDocument(r) \/ Extract(r) \/ Log(r) \/ Throw(r)
    BY <2>2, ReadersKeep
  <2>3. CASE ResetStatus(r) \/ BeginProcessing(r) \/ Complete(r) \/ GiveUp(r)
    BY <2>3, WritersKeep
  <2>4. CASE ClearChunks(r)
    BY <2>4, ClearKeeps
  <2>5. CASE ReadBase(r)
    BY <2>5, ReadBaseKeeps
  <2>6. CASE InsertChunk(r)
    BY <2>6, InsertKeeps
  <2>7. CASE Delete(r)
    BY <2>7, DeleteKeeps
  <2>8. CASE Archive(r)
    BY <2>8, ArchiveKeeps
  <2>9. CASE Update(r)
    BY <2>9, UpdateKeeps
  <2>10. QED
    BY <1>1, <2>1, <2>2, <2>3, <2>4, <2>5, <2>6, <2>7, <2>8, <2>9 DEF Continues
<1>2. ASSUME NEW r \in Request, Begins(r) PROVE IInv'
  BY <1>2, BeginsKeep
<1>3. ASSUME NEW r \in Request, Reject(r) PROVE IInv'
  BY <1>3, RejectKeeps
<1>4. CASE Crash
  BY <1>4, CrashKeeps
<1>5. CASE UNCHANGED vars
  BY <1>5, StutterKeeps
<1>6. QED
  BY <1>1, <1>2, <1>3, <1>4, <1>5 DEF Next

(* The inductive invariant holds in every state.                           *)
LEMMA Inductive == Spec => []IInv
  BY InitHolds, NextKeeps, PTL DEF Spec

-----------------------------------------------------------------------------

(* KnowledgeService.ingestDocument, reindexDocument: a live COMPLETED      *)
(* document has each piece of its text once, cut by one pair of settings,  *)
(* whatever failed before, unless ingestions of it overlapped or a reindex *)
(* stopped between its two writes.                                         *)
THEOREM CompletedDocumentsAreWhole == Spec => []CompletedIsWhole
<1>1. IInv => CompletedIsWhole
  BY DEF IInv
<1>2. QED
  BY <1>1, Inductive, PTL

(* KnowledgeService.deleteDocument, archiveBase: a deleted document keeps  *)
(* no chunk and an archived base no live document, unless an ingestion     *)
(* was under way.                                                          *)
THEOREM DeletionsAreComplete == Spec => []IngestionInv
<1>1. IInv => IngestionInv
  BY DEF IInv, IngestionInv
<1>2. QED
  BY <1>1, Inductive, PTL

-----------------------------------------------------------------------------
(* Recursion over numbers.                                                 *)

LEMMA LeastOf ==
  ASSUME NEW T, T \subseteq Nat, T # {}
  PROVE  \E n \in T : \A m \in T : n <= m
<1> DEFINE R == OpToRel(<, Nat)
<1>1. \A x, y \in Nat : x < y <=> <<x, y>> \in R
  BY DEF OpToRel
<1>2. IsWellFoundedOn(R, Nat)
  BY NatLessThanWellFounded
<1> HIDE DEF R
<1>3. PICK n \in T : \A m \in T : ~(<<m, n>> \in R)
  BY <1>2, WFMin
<1>4. \A m \in T : ~(m < n)
  BY <1>1, <1>3
<1>5. QED
  BY <1>4

LEMMA Counting ==
  ASSUME NEW T, 0 \in T, \A n \in Nat : n \in T => n + 1 \in T
  PROVE  Nat \subseteq T
<1> SUFFICES ASSUME Nat \ T # {} PROVE FALSE
  OBVIOUS
<1>1. PICK n \in Nat \ T : \A m \in Nat \ T : n <= m
  BY LeastOf
<1>2. n # 0 /\ n - 1 \in Nat /\ n - 1 \in T
  BY <1>1
<1>3. QED
  BY <1>2

(* g begins with base, and each value gives the next.                      *)
Steps(g, n, start, step) == g[0] = start /\ \A k \in 1..n : g[k] = step[<<k, g[k - 1]>>]

LEMMA Recursive ==
  ASSUME NEW S, NEW n \in Nat, NEW start \in S, NEW step \in [(1..n) \X S -> S]
  PROVE  \E g \in [0..n -> S] : Steps(g, n, start, step)
<1> DEFINE Upto(m) == \E g \in [0..m -> S] : g[0] = start /\ \A k \in 1..m : g[k] = step[<<k, g[k - 1]>>]
           T == {m \in Nat : m <= n => Upto(m)}
<1>1. Upto(0)
  <2> DEFINE g == [k \in 0..0 |-> start]
  <2>1. g \in [0..0 -> S] /\ g[0] = start /\ 1..0 = {}
    OBVIOUS
  <2>2. QED
    BY <2>1
<1>2. ASSUME NEW m \in Nat, m + 1 <= n, Upto(m) PROVE Upto(m + 1)
  <2>1. PICK g \in [0..m -> S] : g[0] = start /\ \A k \in 1..m : g[k] = step[<<k, g[k - 1]>>]
    BY <1>2
  <2> DEFINE next == step[<<m + 1, g[m]>>]
             h == [k \in 0..(m + 1) |-> IF k = m + 1 THEN next ELSE g[k]]
  <2>2. next \in S
    <3>1. m + 1 \in 1..n /\ g[m] \in S
      BY <1>2
    <3>2. QED
      BY <3>1
  <2> HIDE DEF next
  <2>3. h \in [0..(m + 1) -> S]
    BY <2>1, <2>2
  <2>4. \A k \in 0..m : h[k] = g[k]
    OBVIOUS
  <2>5. h[m + 1] = step[<<m + 1, h[m]>>]
    <3>1. h[m + 1] = next /\ h[m] = g[m]
      BY <2>4
    <3> HIDE DEF h
    <3>2. QED
      BY <3>1 DEF next
  <2>6. ASSUME NEW k \in 1..(m + 1) PROVE h[k] = step[<<k, h[k - 1]>>]
    <3>1. CASE k = m + 1
      BY <2>5, <3>1
    <3>2. CASE k # m + 1
      <4>1. k \in 1..m /\ k \in 0..m /\ k - 1 \in 0..m
        BY <3>2
      <4> HIDE DEF h
      <4>2. QED
        BY <2>1, <2>4, <4>1
    <3>3. QED
      BY <3>1, <3>2
  <2>7. h[0] = start
    BY <2>1, <2>4
  <2> HIDE DEF h
  <2>8. QED
    BY <2>3, <2>6, <2>7
<1> HIDE DEF Upto
<1>3. 0 \in T /\ \A m \in Nat : m \in T => m + 1 \in T
  BY <1>1, <1>2
<1> HIDE DEF T
<1>4. n \in T
  BY <1>3, Counting
<1>5. Upto(n)
  BY <1>4 DEF T
<1>6. QED
  BY <1>5 DEF Upto, Steps

-----------------------------------------------------------------------------
(* What Keep keeps.                                                        *)

(* How the elements of t are chosen among the first k of s.                *)
Chosen(t, g, s, kept, k) ==
  /\ g \in [1..Len(t) -> 1..k]
  /\ \A i, j \in 1..Len(t) : i < j => g[i] < g[j]
  /\ \A i \in 1..Len(t) : g[i] \in kept /\ t[i] = s[g[i]]
  /\ \A p \in 1..k : p \in kept => \E i \in 1..Len(t) : g[i] = p

(* u has what is kept of the first k of s.                                 *)
Keeps(u, s, kept) ==
  /\ u[0] = <<>> /\ Keep(s, kept) = u[Len(s)]
  /\ \A k \in 1..Len(s) : u[k] = IF k \in kept THEN Append(u[k - 1], s[k]) ELSE u[k - 1]

LEMMA KeepUnfolds ==
  ASSUME NEW S, NEW s \in Seq(S), NEW kept
  PROVE  \E u \in [0..Len(s) -> Seq(S)] : Keeps(u, s, kept)
<1> DEFINE n == Len(s)
           step == [e \in (1..n) \X Seq(S) |-> IF e[1] \in kept THEN Append(e[2], s[e[1]]) ELSE e[2]]
           upTo == CHOOSE u : u = [k \in 0..n |-> IF k = 0 THEN <<>> ELSE IF k \in kept THEN Append(u[k - 1], s[k]) ELSE u[k - 1]]
<1>1. n \in Nat /\ \A k \in 1..n : s[k] \in S
  OBVIOUS
<1>2. Keep(s, kept) = upTo[n]
  BY DEF Keep
<1>3. step \in [(1..n) \X Seq(S) -> Seq(S)] /\ <<>> \in Seq(S)
  BY <1>1
<1>4. \A k \in 1..n, t \in Seq(S) : step[<<k, t>>] = IF k \in kept THEN Append(t, s[k]) ELSE t
  OBVIOUS
<1> HIDE DEF step, n
<1>5. PICK g \in [0..n -> Seq(S)] : Steps(g, n, <<>>, step)
  BY <1>1, <1>3, Recursive
<1>6. \A k \in 1..n : g[k - 1] \in Seq(S) /\ g[k] = IF k \in kept THEN Append(g[k - 1], s[k]) ELSE g[k - 1]
  <2>1. \A k \in 1..n : k - 1 \in 0..n
    BY <1>1
  <2>2. QED
    BY <1>4, <1>5, <2>1 DEF Steps
<1>7. g = [k \in 0..n |-> IF k = 0 THEN <<>> ELSE IF k \in kept THEN Append(g[k - 1], s[k]) ELSE g[k - 1]]
  <2>1. \A k \in 0..n : k = 0 \/ k \in 1..n
    BY <1>1
  <2>2. QED
    BY <1>5, <1>6, <2>1 DEF Steps
<1>8. upTo = [k \in 0..n |-> IF k = 0 THEN <<>> ELSE IF k \in kept THEN Append(upTo[k - 1], s[k]) ELSE upTo[k - 1]]
  BY <1>7
<1> HIDE DEF upTo
<1>9. upTo[0] = <<>> /\ \A k \in 1..n : upTo[k] = IF k \in kept THEN Append(upTo[k - 1], s[k]) ELSE upTo[k - 1]
  <2>1. 0 \in 0..n /\ \A k \in 1..n : k \in 0..n /\ k # 0
    BY <1>1
  <2>2. QED
    BY <1>8, <2>1
<1>10. \A k \in 0..n : upTo[k] \in Seq(S)
  <2> DEFINE T == {k \in Nat : k <= n => upTo[k] \in Seq(S)}
  <2>1. 0 \in T
    BY <1>3, <1>9
  <2>2. ASSUME NEW k \in Nat, k \in T PROVE k + 1 \in T
    <3> SUFFICES ASSUME k + 1 <= n PROVE upTo[k + 1] \in Seq(S)
      OBVIOUS
    <3>1. k + 1 \in 1..n /\ (k + 1) - 1 = k /\ upTo[k] \in Seq(S)
      BY <1>1, <2>2
    <3>2. upTo[k + 1] = IF k + 1 \in kept THEN Append(upTo[k], s[k + 1]) ELSE upTo[k]
      BY <1>9, <3>1
    <3>3. QED
      BY <1>1, <3>1, <3>2
  <2> HIDE DEF T
  <2>3. Nat \subseteq T
    BY <2>1, <2>2, Counting
  <2>4. QED
    BY <1>1, <2>3 DEF T
<1>11. upTo \in [0..n -> Seq(S)]
  BY <1>8, <1>10
<1>12. QED
  BY <1>2, <1>9, <1>11 DEF n, Keeps

LEMMA KeepIs ==
  ASSUME NEW S, NEW s \in Seq(S), NEW kept
  PROVE  /\ Keep(s, kept) \in Seq(S)
         /\ \E g : Chosen(Keep(s, kept), g, s, kept, Len(s))
<1> DEFINE n == Len(s)
<1>0. PICK u \in [0..n -> Seq(S)] : Keeps(u, s, kept)
  BY KeepUnfolds
<1>1. /\ u \in [0..n -> Seq(S)] /\ u[0] = <<>> /\ Keep(s, kept) = u[n]
      /\ \A k \in 1..n : u[k] = IF k \in kept THEN Append(u[k - 1], s[k]) ELSE u[k - 1]
  BY <1>0 DEF Keeps
<1>2. n \in Nat /\ \A k \in 1..n : s[k] \in S
  OBVIOUS
<1> HIDE DEF n
<1> DEFINE T == {k \in Nat : k <= n => \E g : Chosen(u[k], g, s, kept, k)}
<1>3. 0 \in T
  <2>1. Chosen(<<>>, <<>>, s, kept, 0)
    BY DEF Chosen
  <2>2. QED
    BY <1>1, <2>1
<1>4. ASSUME NEW k \in Nat, k \in T PROVE k + 1 \in T
  <2> SUFFICES ASSUME k + 1 <= n PROVE \E g : Chosen(u[k + 1], g, s, kept, k + 1)
    OBVIOUS
  <2>1. k + 1 \in 1..n /\ (k + 1) - 1 = k /\ k \in 0..n /\ u[k] \in Seq(S)
    BY <1>1, <1>2
  <2>2. PICK g : Chosen(u[k], g, s, kept, k)
    BY <1>2, <1>4
  <2>3. u[k + 1] = IF k + 1 \in kept THEN Append(u[k], s[k + 1]) ELSE u[k]
    BY <1>1, <2>1
  <2> DEFINE t == u[k]
             m == Len(t)
  <2>4. /\ m \in Nat /\ g \in [1..m -> 1..k]
        /\ \A i, j \in 1..m : i < j => g[i] < g[j]
        /\ \A i \in 1..m : g[i] \in kept /\ t[i] = s[g[i]]
        /\ \A p \in 1..k : p \in kept => \E i \in 1..m : g[i] = p
    BY <2>1, <2>2 DEF Chosen
  <2>5. CASE k + 1 \in kept
    <3> DEFINE h == [i \in 1..(m + 1) |-> IF i = m + 1 THEN k + 1 ELSE g[i]]
               r == Append(t, s[k + 1])
    <3>1. r = u[k + 1] /\ Len(r) = m + 1 /\ r[m + 1] = s[k + 1] /\ \A i \in 1..m : r[i] = t[i]
      BY <1>2, <2>1, <2>3, <2>5
    <3>2. h[m + 1] = k + 1 /\ \A i \in 1..m : h[i] = g[i]
      BY <2>4
    <3>3. h \in [1..(m + 1) -> 1..(k + 1)]
      BY <2>4
    <3> HIDE DEF h, r, m, t
    <3>4. \A i \in 1..(m + 1) : i = m + 1 \/ i \in 1..m
      BY <2>4
    <3>5. \A i, j \in 1..(m + 1) : i < j => h[i] < h[j]
      <4> SUFFICES ASSUME NEW i \in 1..(m + 1), NEW j \in 1..(m + 1), i < j PROVE h[i] < h[j]
        OBVIOUS
      <4>1. i \in 1..m /\ h[i] = g[i] /\ g[i] \in 1..k
        BY <2>4, <3>2
      <4>2. CASE j = m + 1
        BY <3>2, <4>1, <4>2
      <4>3. CASE j \in 1..m
        BY <2>4, <3>2, <4>1, <4>3
      <4>4. QED
        BY <3>4, <4>2, <4>3
    <3>6. \A i \in 1..(m + 1) : h[i] \in kept /\ r[i] = s[h[i]]
      BY <2>4, <2>5, <3>1, <3>2, <3>4
    <3>7. ASSUME NEW p \in 1..(k + 1), p \in kept PROVE \E i \in 1..(m + 1) : h[i] = p
      <4>1. CASE p = k + 1
        <5>1. m + 1 \in 1..(m + 1)
          BY <2>4
        <5>2. QED
          BY <3>2, <4>1, <5>1
      <4>2. CASE p \in 1..k
        <5>1. PICK i \in 1..m : g[i] = p
          BY <2>4, <3>7, <4>2
        <5>2. i \in 1..(m + 1)
          BY <2>4
        <5>3. QED
          BY <3>2, <5>1, <5>2
      <4>3. QED
        BY <4>1, <4>2
    <3>8. Chosen(r, h, s, kept, k + 1)
      BY <3>1, <3>3, <3>5, <3>6, <3>7 DEF Chosen
    <3>9. QED
      BY <3>1, <3>8
  <2>6. CASE k + 1 \notin kept
    <3>1. g \in [1..m -> 1..(k + 1)] /\ \A p \in 1..(k + 1) : p \in kept => p \in 1..k
      BY <2>4, <2>6
    <3>2. Chosen(t, g, s, kept, k + 1)
      BY <2>4, <3>1 DEF Chosen
    <3>3. QED
      BY <2>3, <2>6, <3>2
  <2>7. QED
    BY <2>5, <2>6
<1> HIDE DEF T
<1>5. n \in T
  BY <1>2, <1>3, <1>4, Counting
<1>6. \E g : Chosen(u[n], g, s, kept, n)
  BY <1>2, <1>5 DEF T
<1>7. u[n] \in Seq(S)
  BY <1>1, <1>2
<1>8. QED
  BY <1>1, <1>6, <1>7 DEF n

-----------------------------------------------------------------------------
(* Stretches of positions.                                                 *)

Stretch(x, y) == [i \in 1..(y + 1 - x) |-> x + i - 1]

(* s has the n positions from x on.                                        *)
Runs(s, x, n) == s \in Seq(Nat) /\ Len(s) = n /\ DOMAIN s = 1..n /\ \A i \in 1..n : s[i] = x + i - 1

LEMMA StretchRuns ==
  ASSUME NEW x \in Nat \ {0}, NEW y \in Nat, NEW n \in Nat, n = y + 1 - x
  PROVE  Runs(Stretch(x, y), x, n)
<1>1. \A i \in 1..n : x + i - 1 \in Nat
  OBVIOUS
<1>2. Stretch(x, y) = [i \in 1..n |-> x + i - 1]
  BY DEF Stretch
<1>3. Stretch(x, y) \in Seq(Nat) /\ Len(Stretch(x, y)) = n
  BY <1>1, <1>2
<1>4. QED
  BY <1>2, <1>3 DEF Runs

LEMMA RunsOnce ==
  ASSUME NEW s, NEW t, NEW x, NEW n, Runs(s, x, n), Runs(t, x, n)
  PROVE  s = t
<1>1. s \in Seq(Nat) /\ t \in Seq(Nat) /\ Len(s) = Len(t) /\ Len(s) = n /\ \A i \in 1..n : s[i] = t[i]
  BY DEF Runs
<1>2. QED
  BY <1>1, SeqEqual

LEMMA StretchPart ==
  ASSUME NEW x \in Nat \ {0}, NEW y \in Nat, x <= y + 1,
         NEW i \in Nat \ {0}, NEW j \in Nat, i <= j + 1, j <= y + 1 - x
  PROVE  SubSeq(Stretch(x, y), i, j) = Stretch(x + i - 1, x + j - 1)
<1> DEFINE s == Stretch(x, y)
           a == x + i - 1
           b == x + j - 1
           m == j + 1 - i
           n == y + 1 - x
<1>1. n \in Nat /\ n = y + 1 - x /\ j <= n /\ a \in Nat \ {0} /\ b \in Nat /\ m \in Nat /\ m = b + 1 - a /\ m = j + 1 - i
  OBVIOUS
<1>2. \A k \in 1..m : i + k - 1 \in 1..n /\ x + (i + k - 1) - 1 = a + k - 1
  OBVIOUS
<1> HIDE DEF a, b, m, n
<1>3. Runs(s, x, n) /\ Runs(Stretch(a, b), a, m)
  BY <1>1, StretchRuns
<1> HIDE DEF s
<1>4. s \in Seq(Nat) /\ Len(s) = n
  BY <1>3 DEF Runs
<1> DEFINE r == SubSeq(s, i, j)
<1>5. r \in Seq(Nat) /\ Len(r) = m /\ \A k \in 1..m : r[k] = s[i + k - 1]
  BY <1>1, <1>4
<1> HIDE DEF r
<1>6. \A k \in 1..m : r[k] = a + k - 1
  BY <1>2, <1>3, <1>5 DEF Runs
<1>7. Runs(r, a, m)
  BY <1>5, <1>6 DEF Runs
<1>8. QED
  BY <1>3, <1>7, RunsOnce DEF r, s, a, b

-----------------------------------------------------------------------------
(* What Parts cuts.                                                        *)

Cutting(ps, from, to, end) == [part |-> SubSeq(ps, from, to), sep |-> SubSeq(ps, to + 1, end)]

CutStep(before, k, ps, sep) ==
  IF before.from <= k - Len(sep) + 1 /\ SubSeq(Chars(ps), k - Len(sep) + 1, k) = sep
  THEN [done |-> Append(before.done, Cutting(ps, before.from, k - Len(sep), k)), from |-> k + 1]
  ELSE before

CutsUp(u, ps, sep) ==
  /\ u[0] = [done |-> <<>>, from |-> 1]
  /\ \A k \in 1..Len(ps) : u[k] = CutStep(u[k - 1], k, ps, sep)
  /\ Parts(ps, sep) = IF sep = <<>> THEN u[Len(ps)].done
                      ELSE Append(u[Len(ps)].done, Cutting(ps, u[Len(ps)].from, Len(ps), Len(ps)))

Part == [part : Seq(Nat), sep : Seq(Nat)]

CutState == [done : Seq(Part), from : Nat \ {0}]

(* The same, of what fits together.                                        *)
PartFits(x, y, i, j) ==
  /\ x \in Nat \ {0} /\ y \in Nat /\ i \in Nat \ {0} /\ j \in Nat
  /\ x <= y + 1 /\ i <= j + 1 /\ j <= y + 1 - x

LEMMA FittingPart ==
  ASSUME NEW x, NEW y, NEW i, NEW j, PartFits(x, y, i, j)
  PROVE  SubSeq(Stretch(x, y), i, j) = Stretch(x + i - 1, x + j - 1)
<1>1. /\ x \in Nat \ {0} /\ y \in Nat /\ i \in Nat \ {0} /\ j \in Nat
      /\ x <= y + 1 /\ i <= j + 1 /\ j <= y + 1 - x
  BY DEF PartFits
<1> QED
  BY <1>1, StretchPart

LEMMA CutStepType ==
  ASSUME NEW ps \in Seq(Nat), NEW sep, Len(sep) \in Nat, NEW before \in CutState, NEW k \in 1..Len(ps)
  PROVE  CutStep(before, k, ps, sep) \in CutState
<1>1. before.done \in Seq(Part) /\ before.from \in Nat \ {0} /\ Len(ps) \in Nat /\ k \in Nat /\ k <= Len(ps)
  BY DEF CutState
<1> DEFINE to == k - Len(sep)
<1>2. ASSUME before.from <= to + 1 PROVE Cutting(ps, before.from, to, k) \in Part
  <2>1. to \in Int /\ to <= Len(ps) /\ to + 1 \in Int /\ to + 1 >= 1
    BY <1>1, <1>2
  <2> HIDE DEF to
  <2>2. \A i \in before.from..to : ps[i] \in Nat
    <3>1. \A i \in before.from..to : i \in 1..Len(ps)
      BY <1>1, <2>1
    <3>2. QED
      BY <3>1, ElementOfSeq
  <2>3. \A i \in (to + 1)..k : ps[i] \in Nat
    <3>1. \A i \in (to + 1)..k : i \in 1..Len(ps)
      BY <1>1, <2>1
    <3>2. QED
      BY <3>1, ElementOfSeq
  <2>4. SubSeq(ps, before.from, to) \in Seq(Nat) /\ SubSeq(ps, to + 1, k) \in Seq(Nat)
    BY <1>1, <2>1, <2>2, <2>3, SubSeqProperties
  <2>5. QED
    BY <2>4 DEF Cutting, Part
<1>3. CASE before.from <= to + 1 /\ SubSeq(Chars(ps), to + 1, k) = sep
  <2> DEFINE d == Append(before.done, Cutting(ps, before.from, to, k))
  <2>1. Cutting(ps, before.from, to, k) \in Part
    BY <1>2, <1>3
  <2>2. d \in Seq(Part)
    <3> HIDE DEF to
    <3>1. QED
      BY <1>1, <2>1
  <2>3. CutStep(before, k, ps, sep) = [done |-> d, from |-> k + 1]
    BY <1>3 DEF CutStep
  <2> HIDE DEF d
  <2>4. k + 1 \in Nat \ {0}
    BY <1>1
  <2>5. QED
    BY <2>2, <2>3, <2>4 DEF CutState
<1>4. CASE ~(before.from <= to + 1 /\ SubSeq(Chars(ps), to + 1, k) = sep)
  <2>1. CutStep(before, k, ps, sep) = before
    BY <1>4 DEF CutStep
  <2>2. QED
    BY <2>1
<1>5. QED
  BY <1>3, <1>4

LEMMA PartsUnfold ==
  ASSUME NEW ps \in Seq(Nat), NEW sep, Len(sep) \in Nat
  PROVE  \E u \in [0..Len(ps) -> CutState] : CutsUp(u, ps, sep)
<1> DEFINE n == Len(ps)
           start == [done |-> <<>>, from |-> 1]
           step == [e \in (1..n) \X CutState |-> CutStep(e[2], e[1], ps, sep)]
           cut == CHOOSE cut : cut = [k \in 0..n |-> IF k = 0 THEN start ELSE CutStep(cut[k - 1], k, ps, sep)]
<1>1. n \in Nat /\ \A k \in 1..n, b \in CutState : CutStep(b, k, ps, sep) \in CutState
  BY CutStepType
<1>2. start \in CutState
  BY DEF CutState
<1> HIDE DEF start
<1>3. step \in [(1..n) \X CutState -> CutState]
  BY <1>1
<1>4. \A k \in 1..n, b \in CutState : step[<<k, b>>] = CutStep(b, k, ps, sep)
  OBVIOUS
<1>5. Parts(ps, sep) = IF sep = <<>> THEN cut[n].done ELSE Append(cut[n].done, Cutting(ps, cut[n].from, n, n))
  BY DEF Parts, CutStep, Cutting, start
<1> HIDE DEF step, n
<1>6. PICK g \in [0..n -> CutState] : Steps(g, n, start, step)
  BY <1>1, <1>2, <1>3, Recursive
<1>7. g[0] = start /\ \A k \in 1..n : g[k - 1] \in CutState /\ g[k] = CutStep(g[k - 1], k, ps, sep)
  <2>1. \A k \in 1..n : k - 1 \in 0..n
    BY <1>1
  <2>2. QED
    BY <1>4, <1>6, <2>1 DEF Steps
<1>8. g = [k \in 0..n |-> IF k = 0 THEN start ELSE CutStep(g[k - 1], k, ps, sep)]
  <2>1. \A k \in 0..n : k = 0 \/ k \in 1..n
    BY <1>1
  <2>2. QED
    BY <1>6, <1>7, <2>1
<1>9. cut = [k \in 0..n |-> IF k = 0 THEN start ELSE CutStep(cut[k - 1], k, ps, sep)]
  BY <1>8
<1> HIDE DEF cut
<1>10. cut[0] = start /\ \A k \in 1..n : cut[k] = CutStep(cut[k - 1], k, ps, sep)
  <2>1. 0 \in 0..n /\ \A k \in 1..n : k \in 0..n /\ k # 0
    BY <1>1
  <2>2. QED
    BY <1>9, <2>1
<1>11. \A k \in 0..n : cut[k] \in CutState
  <2> DEFINE T == {k \in Nat : k <= n => cut[k] \in CutState}
  <2>1. 0 \in T
    BY <1>2, <1>10
  <2>2. ASSUME NEW k \in Nat, k \in T PROVE k + 1 \in T
    <3> SUFFICES ASSUME k + 1 <= n PROVE cut[k + 1] \in CutState
      OBVIOUS
    <3>1. k + 1 \in 1..n /\ (k + 1) - 1 = k /\ cut[k] \in CutState
      BY <1>1, <2>2
    <3>2. cut[k + 1] = CutStep(cut[k], k + 1, ps, sep)
      BY <1>10, <3>1
    <3>3. QED
      BY <1>1, <3>1, <3>2
  <2> HIDE DEF T
  <2>3. Nat \subseteq T
    BY <2>1, <2>2, Counting
  <2>4. QED
    BY <1>1, <2>3 DEF T
<1>12. cut \in [0..n -> CutState]
  BY <1>9, <1>11
<1>13. QED
  BY <1>5, <1>10, <1>12 DEF n, start, CutsUp

(* sep is in the text behind position x.                                   *)
Matches(sep, x) == \A j \in 1..Len(sep) : text[x + j] = sep[j]

(* Part d begins behind position x, and with its separator ends at y.      *)
PartAt(d, x, y, sep) ==
  /\ x <= y - Len(sep)
  /\ d = [part |-> Stretch(x + 1, y - Len(sep)), sep |-> Stretch(y - Len(sep) + 1, y)]
  /\ Matches(sep, y - Len(sep))
  /\ Len(sep) = 1 => \A p \in (x + 1)..(y - Len(sep)) : text[p] # sep[1]
  /\ Len(sep) = 0 => y = x + 1

(* What has been cut from the first k of the positions from lo to hi: the  *)
(* parts end at e.                                                         *)
CutTo(r, e, k, lo, hi, sep) ==
  /\ e \in [0..Len(r.done) -> Nat] /\ e[0] = lo - 1
  /\ \A j \in 1..Len(r.done) : e[j] <= hi /\ PartAt(r.done[j], e[j - 1], e[j], sep)
  /\ e[Len(r.done)] = lo + r.from - 2 /\ r.from <= k + 1
  /\ Len(sep) = 1 => \A p \in (lo + r.from - 1)..(lo + k - 1) : text[p] # sep[1]
  /\ Len(sep) = 0 => r.from = k + 1

LEMMA CharsOfStretch ==
  ASSUME text \in Seq(Character), NEW lo \in Nat \ {0}, NEW hi \in Nat, lo <= hi, hi <= Len(text),
         NEW n \in Nat, n = hi + 1 - lo
  PROVE  /\ Chars(Stretch(lo, hi)) \in Seq(Character) /\ Len(Chars(Stretch(lo, hi))) = n
         /\ \A i \in 1..n : Chars(Stretch(lo, hi))[i] = text[lo + i - 1]
<1>1. Runs(Stretch(lo, hi), lo, n)
  BY StretchRuns
<1> DEFINE ps == Stretch(lo, hi)
<1> HIDE DEF ps
<1>2. DOMAIN ps = 1..n /\ \A i \in 1..n : ps[i] = lo + i - 1
  BY <1>1 DEF Runs, ps
<1>3. \A i \in 1..n : lo + i - 1 \in 1..Len(text) /\ text[lo + i - 1] \in Character
  BY ElementOfSeq
<1>4. Chars(ps) = [i \in 1..n |-> text[lo + i - 1]]
  BY <1>2 DEF Chars
<1>5. Chars(ps) \in Seq(Character) /\ Len(Chars(ps)) = n /\ \A i \in 1..n : Chars(ps)[i] = text[lo + i - 1]
  BY <1>3, <1>4
<1>6. QED
  BY <1>5 DEF ps

LEMMA CutStepTo ==
  ASSUME text \in Seq(Character), NEW lo \in Nat \ {0}, NEW hi \in Nat, lo <= hi, hi <= Len(text),
         NEW sep \in Seq(Character), NEW n \in Nat, n = hi + 1 - lo,
         NEW k \in 1..n, NEW r \in CutState, NEW e, CutTo(r, e, k - 1, lo, hi, sep)
  PROVE  \E f : CutTo(CutStep(r, k, Stretch(lo, hi), sep), f, k, lo, hi, sep)
<1> DEFINE ps == Stretch(lo, hi)
           l == Len(sep)
           m == Len(r.done)
           from == r.from
           to == k - l
           c == Chars(ps)
<1>1. /\ r.done \in Seq(Part) /\ m \in Nat /\ from \in Nat \ {0} /\ l \in Nat /\ k \in Nat /\ k <= n
      /\ (l = 0 <=> sep = <<>>)
  BY DEF CutState
<1>2. /\ e \in [0..m -> Nat] /\ e[0] = lo - 1
      /\ \A j \in 1..m : e[j] <= hi /\ PartAt(r.done[j], e[j - 1], e[j], sep)
      /\ e[m] = lo + from - 2 /\ from <= k
      /\ (l = 1 => \A p \in (lo + from - 1)..(lo + k - 2) : text[p] # sep[1])
      /\ (l = 0 => from = k)
  <2>1. (k - 1) + 1 = k /\ lo + (k - 1) - 1 = lo + k - 2
    BY <1>1
  <2>2. QED
    BY <2>1 DEF CutTo
<1>3. c \in Seq(Character) /\ Len(c) = n /\ \A i \in 1..n : c[i] = text[lo + i - 1]
  BY CharsOfStretch
<1>4. CASE from <= to + 1 /\ SubSeq(c, to + 1, k) = sep
  <2> DEFINE d == Cutting(ps, from, to, k)
             s == [done |-> Append(r.done, d), from |-> k + 1]
             y == lo + k - 1
             x == lo + from - 2
             f == [j \in 0..(m + 1) |-> IF j = m + 1 THEN y ELSE e[j]]
  <2>1. CutStep(r, k, ps, sep) = s
    BY <1>4 DEF CutStep
  <2>2. to \in Nat /\ to <= k /\ x \in Nat /\ y \in Nat /\ y <= hi /\ y - l = lo + to - 1 /\ x <= y - l /\ e[m] = x
    <3>1. from \in Nat \ {0} /\ l \in Nat /\ k \in Nat /\ k <= n /\ n = hi + 1 - lo /\ from <= to + 1 /\ e[m] = lo + from - 2
      BY <1>1, <1>2, <1>4
    <3> HIDE DEF from, l, m, c, ps
    <3>2. QED
      BY <3>1
  <2>3. d = [part |-> Stretch(x + 1, y - l), sep |-> Stretch(y - l + 1, y)]
    <3>1. SubSeq(ps, from, to) = Stretch(lo + from - 1, lo + to - 1)
      <4>1. PartFits(lo, hi, from, to)
        BY <1>1, <1>4, <2>2 DEF PartFits
      <4> HIDE DEF to, from, ps, c
      <4>2. SubSeq(Stretch(lo, hi), from, to) = Stretch(lo + from - 1, lo + to - 1)
        BY <4>1, FittingPart
      <4>3. QED
        BY <4>2 DEF ps
    <3>2. SubSeq(ps, to + 1, k) = Stretch(lo + to, lo + k - 1)
      <4> DEFINE z == to + 1
      <4>1. PartFits(lo, hi, z, k) /\ lo + z - 1 = lo + to
        BY <1>1, <2>2 DEF PartFits
      <4> HIDE DEF z, ps, c
      <4>2. SubSeq(Stretch(lo, hi), z, k) = Stretch(lo + z - 1, lo + k - 1)
        BY <4>1, FittingPart
      <4>3. SubSeq(ps, z, k) = Stretch(lo + z - 1, lo + k - 1)
        BY <4>2 DEF ps
      <4>4. QED
        BY <4>1, <4>3 DEF z
    <3>3. lo + from - 1 = x + 1 /\ lo + to - 1 = y - l /\ lo + to = y - l + 1 /\ lo + k - 1 = y
      <4>1. from \in Nat /\ l \in Nat /\ k \in Nat
        BY <1>1
      <4> HIDE DEF from, l, m, c, ps
      <4>2. QED
        BY <4>1
    <3> HIDE DEF x, y, l
    <3>4. QED
      BY <3>1, <3>2, <3>3 DEF Cutting
  <2>4. Matches(sep, y - l)
    <3> SUFFICES ASSUME NEW j \in 1..l PROVE text[y - l + j] = sep[j]
      BY DEF Matches
    <3>1. to + j \in 1..n /\ lo + (to + j) - 1 = y - l + j /\ to + 1 \in Nat /\ k - (to + 1) + 1 = l /\ (to + 1) + j - 1 = to + j
      BY <1>1, <2>2
    <3>2. SubSeq(c, to + 1, k)[j] = c[to + j]
      <4> DEFINE z == to + 1
      <4>5. l \in Nat /\ to \in Nat /\ k \in Nat /\ k <= n /\ to + l = k
        BY <1>1, <2>2
      <4> HIDE DEF c, m, from, to, l
      <4>1. z \in Nat \ {0} /\ k \in Nat /\ z <= k + 1 /\ k <= n /\ j \in 1..(k - z + 1) /\ z + j - 1 = to + j
        BY <4>5
      <4> HIDE DEF z
      <4>2. \A i \in z..k : c[i] \in Character
        <5>1. \A i \in z..k : i \in 1..n
          BY <4>1
        <5> QED
          BY <1>3, <5>1, ElementOfSeq
      <4>3. SubSeq(c, z, k)[j] = c[z + j - 1]
        BY <1>3, <4>1, <4>2
      <4>4. QED
        BY <4>1, <4>3 DEF z
    <3> HIDE DEF to, y, l, c
    <3>3. QED
      BY <1>3, <1>4, <3>1, <3>2
  <2>5. l = 1 => \A p \in (x + 1)..(y - l) : text[p] # sep[1]
    <3>1. l = 1 => \A p \in (x + 1)..(y - l) : p \in (lo + from - 1)..(lo + k - 2)
      BY <1>1, <1>2
    <3> HIDE DEF x, y, d, l, to, from
    <3>2. QED
      BY <1>2, <3>1
  <2>6. l = 0 => y = x + 1
    BY <1>1, <1>2
  <2> HIDE DEF x, y, d, l, to, from
  <2>7. PartAt(d, x, y, sep)
    BY <2>2, <2>3, <2>4, <2>5, <2>6 DEF PartAt, l
  <2>8. /\ Len(s.done) = m + 1 /\ s.done[m + 1] = d /\ (\A j \in 1..m : s.done[j] = r.done[j]) /\ s.from = k + 1
    BY <1>1
  <2>9. f[m + 1] = y /\ (\A j \in 0..m : f[j] = e[j]) /\ f \in [0..(m + 1) -> Nat]
    <3>1. m \in Nat /\ y \in Nat /\ e \in [0..m -> Nat]
      BY <1>1, <1>2, <2>2
    <3> HIDE DEF s, m
    <3>2. m + 1 \in 0..(m + 1) /\ \A j \in 0..m : j \in 0..(m + 1) /\ j # m + 1
      BY <3>1
    <3>3. \A j \in 0..(m + 1) : j = m + 1 \/ j \in 0..m
      BY <3>1
    <3>4. QED
      BY <3>1, <3>2, <3>3
  <2> HIDE DEF f, s, m
  <2>10. f[0] = lo - 1
    BY <1>1, <1>2, <2>9
  <2>11. ASSUME NEW j \in 1..(m + 1) PROVE f[j] <= hi /\ PartAt(s.done[j], f[j - 1], f[j], sep)
    <3>1. CASE j = m + 1
      <4>1. j - 1 = m /\ m \in 0..m
        BY <1>1, <3>1
      <4>2. f[j - 1] = x /\ f[j] = y /\ s.done[j] = d
        BY <2>2, <2>8, <2>9, <3>1, <4>1
      <4>3. QED
        BY <2>2, <2>7, <4>2
    <3>2. CASE j \in 1..m
      <4>1. j \in 0..m /\ j - 1 \in 0..m
        BY <1>1, <3>2
      <4>2. QED
        BY <1>2, <2>8, <2>9, <3>2, <4>1
    <3>3. QED
      BY <1>1, <3>1, <3>2
  <2>12. /\ f[Len(s.done)] = lo + s.from - 2 /\ s.from <= k + 1
         /\ \A p \in (lo + s.from - 1)..(lo + k - 1) : text[p] # sep[1]
    <3>1. f[m + 1] = lo + (k + 1) - 2 /\ (lo + (k + 1) - 1)..(lo + k - 1) = {} /\ k + 1 <= k + 1
      BY <1>1, <2>9 DEF y
    <3>2. f[Len(s.done)] = lo + s.from - 2 /\ (lo + s.from - 1)..(lo + k - 1) = {} /\ s.from <= k + 1
      BY <2>8, <3>1
    <3>3. QED
      BY <3>2
  <2>13. CutTo(s, f, k, lo, hi, sep)
    BY <1>1, <2>8, <2>9, <2>10, <2>11, <2>12 DEF CutTo
  <2>14. QED
    BY <2>1, <2>13
<1>5. CASE ~(from <= to + 1 /\ SubSeq(c, to + 1, k) = sep)
  <2>1. CutStep(r, k, ps, sep) = r
    BY <1>5 DEF CutStep
  <2>2. ASSUME l = 1, NEW p \in (lo + from - 1)..(lo + k - 1) PROVE text[p] # sep[1]
    <3>1. CASE p <= lo + k - 2
      BY <1>1, <1>2, <2>2, <3>1
    <3>2. CASE p = lo + k - 1
      <4>1. to + 1 = k /\ from <= to + 1 /\ SubSeq(c, k, k) # sep
        BY <1>1, <1>2, <1>5, <2>2
      <4>2. c[k] = text[p] /\ k \in 1..n
        BY <1>1, <1>3, <3>2
      <4> HIDE DEF c
      <4>3. SubSeq(c, k, k) \in Seq(Character) /\ Len(SubSeq(c, k, k)) = 1 /\ SubSeq(c, k, k)[1] = c[k]
        <5>1. k \in Int /\ k - k + 1 = 1 /\ k <= k /\ 1 \in 1..1 /\ k + 1 - 1 = k /\ \A i \in k..k : i = k
          BY <1>1
        <5>2. c[k] \in Character
          BY <1>3, <4>2, ElementOfSeq
        <5>3. \A i \in k..k : c[i] \in Character
          BY <5>1, <5>2
        <5>4. QED
          BY <5>1, <5>3, SubSeqProperties
      <4>4. ASSUME c[k] = sep[1] PROVE SubSeq(c, k, k) = sep
        <5> DEFINE t == SubSeq(c, k, k)
        <5>1. t \in Seq(Character) /\ Len(t) = Len(sep) /\ \A i \in 1..Len(t) : t[i] = sep[i]
          BY <2>2, <4>3, <4>4
        <5> HIDE DEF t
        <5>2. t = sep
          BY <5>1, SeqEqual
        <5>3. QED
          BY <5>2 DEF t
      <4>5. QED
        BY <4>1, <4>2, <4>4
    <3>3. QED
      BY <1>1, <3>1, <3>2
  <2>3. l # 0
    <3> SUFFICES ASSUME l = 0 PROVE FALSE
      OBVIOUS
    <3>1. to = k /\ from <= to + 1 /\ sep = <<>>
      BY <1>1, <1>2
    <3>2. SubSeq(c, k + 1, k) = <<>>
      BY <1>1, SubSeqEmpty
    <3>3. QED
      BY <1>5, <3>1, <3>2
  <2>4. CutTo(r, e, k, lo, hi, sep)
    <3>1. from <= k + 1
      BY <1>1, <1>2
    <3>2. QED
      BY <1>2, <2>2, <2>3, <3>1 DEF CutTo
  <2>5. QED
    BY <2>1, <2>4
<1>6. QED
  BY <1>4, <1>5

(* The parts of the positions from lo to hi: the first part of each ends   *)
(* at b, the separator at e.                                               *)
PartIs(d, x, b, y, sep, last) ==
  /\ x <= b /\ b <= y /\ d = [part |-> Stretch(x + 1, b), sep |-> Stretch(b + 1, y)]
  /\ ~last => y = b + Len(sep) /\ Matches(sep, b)
  /\ last => y = b
  /\ Len(sep) = 1 => \A p \in (x + 1)..b : text[p] # sep[1]
  /\ Len(sep) = 0 => b = x + 1 /\ y = b

PartsAre(parts, e, b, lo, hi, sep) ==
  /\ parts \in Seq(Part) /\ Len(parts) >= 1
  /\ e \in [0..Len(parts) -> Nat] /\ b \in [1..Len(parts) -> Nat] /\ e[0] = lo - 1 /\ e[Len(parts)] = hi
  /\ \A k \in 1..Len(parts) : e[k] <= hi /\ PartIs(parts[k], e[k - 1], b[k], e[k], sep, k = Len(parts))

LEMMA PartsOfStretch ==
  ASSUME text \in Seq(Character), NEW lo \in Nat \ {0}, NEW hi \in Nat, lo <= hi, hi <= Len(text),
         NEW sep \in Seq(Character)
  PROVE  \E e, b : PartsAre(Parts(Stretch(lo, hi), sep), e, b, lo, hi, sep)
<1> DEFINE ps == Stretch(lo, hi)
           n == hi + 1 - lo
           l == Len(sep)
<1>1. n \in Nat /\ n >= 1 /\ n = hi + 1 - lo /\ l \in Nat /\ (l = 0 <=> sep = <<>>)
  OBVIOUS
<1> HIDE DEF n
<1>2. Runs(ps, lo, n)
  BY <1>1, StretchRuns
<1>3. ps \in Seq(Nat) /\ Len(ps) = n
  BY <1>2 DEF Runs
<1>4. PICK u \in [0..n -> CutState] : CutsUp(u, ps, sep)
  BY <1>1, <1>3, PartsUnfold
<1>5. /\ u[0] = [done |-> <<>>, from |-> 1]
      /\ \A k \in 1..n : u[k] = CutStep(u[k - 1], k, ps, sep)
      /\ Parts(ps, sep) = IF sep = <<>> THEN u[n].done ELSE Append(u[n].done, Cutting(ps, u[n].from, n, n))
  BY <1>3, <1>4 DEF CutsUp
<1> DEFINE T == {k \in Nat : k <= n => \E e : CutTo(u[k], e, k, lo, hi, sep)}
<1>6. 0 \in T
  <2> DEFINE e == [j \in 0..0 |-> lo - 1]
             none == <<>>
  <2>1. Len(none) = 0 /\ none = <<>>
    OBVIOUS
  <2>2. e \in [0..0 -> Nat] /\ e[0] = lo - 1 /\ 1..0 = {} /\ (lo + 1 - 1)..(lo + 0 - 1) = {} /\ lo - 1 = lo + 1 - 2
    OBVIOUS
  <2> HIDE DEF e, none
  <2>3. u[0].done = none /\ u[0].from = 1 /\ Len(u[0].done) = 0
    BY <1>5, <2>1
  <2>4. CutTo(u[0], e, 0, lo, hi, sep)
    BY <2>2, <2>3 DEF CutTo
  <2>5. QED
    BY <2>4
<1>7. ASSUME NEW k \in Nat, k \in T PROVE k + 1 \in T
  <2> SUFFICES ASSUME k + 1 <= n PROVE \E e : CutTo(u[k + 1], e, k + 1, lo, hi, sep)
    OBVIOUS
  <2>1. k + 1 \in 1..n /\ (k + 1) - 1 = k /\ k \in 0..n /\ u[k] \in CutState
    BY <1>1, <1>4
  <2>2. PICK e : CutTo(u[k], e, k, lo, hi, sep)
    BY <1>1, <1>7, <2>1
  <2> DEFINE j == k + 1
  <2>3. j \in 1..n /\ CutTo(u[k], e, j - 1, lo, hi, sep)
    BY <2>1, <2>2
  <2>4. u[j] = CutStep(u[k], j, ps, sep)
    BY <1>5, <2>1
  <2> HIDE DEF j
  <2>5. \E f : CutTo(CutStep(u[k], j, ps, sep), f, j, lo, hi, sep)
    BY <1>1, <2>1, <2>3, CutStepTo
  <2>6. QED
    BY <2>4, <2>5 DEF j
<1> HIDE DEF T
<1>8. n \in T
  BY <1>1, <1>6, <1>7, Counting
<1>9. PICK f : CutTo(u[n], f, n, lo, hi, sep)
  BY <1>1, <1>8 DEF T
<1>10. u[n] \in CutState
  BY <1>1, <1>4
<1> DEFINE d == u[n].done
           m == Len(d)
           from == u[n].from
           parts == Parts(ps, sep)
<1>11. d \in Seq(Part) /\ m \in Nat /\ from \in Nat \ {0}
  BY <1>10 DEF CutState
<1>12. /\ f \in [0..m -> Nat] /\ f[0] = lo - 1
       /\ \A j \in 1..m : f[j] <= hi /\ PartAt(d[j], f[j - 1], f[j], sep)
       /\ f[m] = lo + from - 2 /\ from <= n + 1
       /\ l = 1 => \A p \in (lo + from - 1)..hi : text[p] # sep[1]
       /\ l = 0 => from = n + 1
  <2>1. lo + n - 1 = hi
    BY <1>1
  <2>2. QED
    BY <1>9, <2>1 DEF CutTo
<1> HIDE DEF d, m, from
<1>13. ASSUME NEW j \in 1..m PROVE
         /\ f[j] \in Nat /\ f[j - 1] \in Nat /\ f[j] - l \in Nat /\ f[j] <= hi
         /\ \A last \in BOOLEAN : (last => l = 0) => PartIs(d[j], f[j - 1], f[j] - l, f[j], sep, last)
  <2> DEFINE x == f[j - 1]
             y == f[j]
             b == y - l
  <2>1. x \in Nat /\ y \in Nat /\ PartAt(d[j], x, y, sep) /\ y <= hi
    <3>1. j \in 0..m /\ j - 1 \in 0..m
      BY <1>11
    <3>2. f[j] \in Nat /\ f[j - 1] \in Nat
      BY <1>12, <3>1
    <3>3. f[j] <= hi /\ PartAt(d[j], f[j - 1], f[j], sep)
      BY <1>12
    <3>4. QED
      BY <3>2, <3>3, Zenon
  <2>2. x <= b
    BY <2>1 DEF PartAt
  <2>3. b \in Nat /\ b <= y /\ y = b + l /\ (l = 0 => y = b)
    <3>1. l \in Nat /\ x \in Nat /\ y \in Nat /\ x <= y - l
      BY <1>1, <2>1, <2>2
    <3> HIDE DEF x, y, l
    <3> QED
      BY <3>1
  <2>4. /\ d[j] = [part |-> Stretch(x + 1, b), sep |-> Stretch(b + 1, y)] /\ Matches(sep, b)
        /\ l = 1 => \A p \in (x + 1)..b : text[p] # sep[1]
        /\ l = 0 => y = x + 1
    BY <2>1 DEF PartAt
  <2> HIDE DEF x, y, b
  <2>5. ASSUME NEW last \in BOOLEAN, last => l = 0 PROVE PartIs(d[j], x, b, y, sep, last)
    BY <2>2, <2>3, <2>4, <2>5 DEF PartIs
  <2>6. QED
    BY <2>1, <2>3, <2>5 DEF x, y, b
<1>14. CASE l = 0
  <2>1. parts = d
    BY <1>1, <1>5, <1>14 DEF d
  <2>2. f[m] = hi /\ m >= 1
    BY <1>1, <1>11, <1>12, <1>14
  <2> DEFINE b == [j \in 1..m |-> f[j] - l]
  <2>3. b \in [1..m -> Nat] /\ \A j \in 1..m : b[j] = f[j] - l
    BY <1>13
  <2> HIDE DEF b
  <2>4. \A j \in 1..m : f[j] <= hi /\ PartIs(d[j], f[j - 1], b[j], f[j], sep, j = m)
    BY <1>13, <1>14, <2>3
  <2>5. Len(parts) = m
    BY <2>1 DEF m
  <2> HIDE DEF parts
  <2>6. PartsAre(parts, f, b, lo, hi, sep)
    BY <1>11, <1>12, <2>1, <2>2, <2>3, <2>4, <2>5 DEF PartsAre
  <2>7. QED
    BY <2>6 DEF parts
<1>15. CASE l # 0
  <2> DEFINE z == Cutting(ps, from, n, n)
             e == [j \in 0..(m + 1) |-> IF j = m + 1 THEN hi ELSE f[j]]
             b == [j \in 1..(m + 1) |-> IF j = m + 1 THEN hi ELSE f[j] - l]
             x == f[m]
  <2>1. parts = Append(d, z)
    BY <1>1, <1>5, <1>15 DEF d, from
  <2>2. x \in Nat /\ x <= hi /\ x + 1 = lo + from - 1
    BY <1>1, <1>11, <1>12
  <2>3. z = [part |-> Stretch(x + 1, hi), sep |-> Stretch(hi + 1, hi)]
    <3>1. SubSeq(ps, from, n) = Stretch(lo + from - 1, lo + n - 1)
      <4>1. from \in Nat \ {0} /\ n \in Nat /\ from <= n + 1 /\ n <= hi + 1 - lo /\ lo <= hi + 1
        BY <1>1, <1>11, <1>12
      <4>2. QED
        BY <4>1, StretchPart, ZenonT(40)
    <3>2. SubSeq(ps, n + 1, n) = <<>>
      BY <1>1, SubSeqEmpty
    <3>3. Stretch(hi + 1, hi) = <<>>
      <4> DEFINE h == hi + 1
      <4>1. h \in Nat \ {0} /\ 0 \in Nat /\ 0 = hi + 1 - h
        OBVIOUS
      <4> HIDE DEF h
      <4>2. Runs(Stretch(h, hi), h, 0)
        BY <4>1, StretchRuns
      <4>3. Stretch(h, hi) = <<>>
        BY <4>2 DEF Runs
      <4>4. QED
        BY <4>3 DEF h
    <3>4. lo + n - 1 = hi
      BY <1>1
    <3> HIDE DEF x, ps
    <3>5. QED
      BY <2>2, <3>1, <3>2, <3>3, <3>4 DEF Cutting
  <2>4. \A p \in (x + 1)..hi : l = 1 => text[p] # sep[1]
    BY <1>12, <2>2
  <2> HIDE DEF z, x
  <2>5. PartIs(z, x, hi, hi, sep, TRUE)
    BY <1>15, <2>2, <2>3, <2>4 DEF PartIs
  <2>6. z \in Part
    <3>1. hi - x \in Nat /\ hi - x = hi + 1 - (x + 1) /\ x + 1 \in Nat \ {0} /\ hi + 1 \in Nat \ {0} /\ 0 = hi + 1 - (hi + 1)
      BY <2>2
    <3>2. Stretch(x + 1, hi) \in Seq(Nat) /\ Stretch(hi + 1, hi) \in Seq(Nat)
      <4> DEFINE a == x + 1
                 c == hi + 1
                 r == hi - x
      <4>1. a \in Nat \ {0} /\ c \in Nat \ {0} /\ r \in Nat /\ r = hi + 1 - a /\ 0 = hi + 1 - c /\ 0 \in Nat
        BY <3>1
      <4> HIDE DEF a, c, r
      <4>2. Runs(Stretch(a, hi), a, r) /\ Runs(Stretch(c, hi), c, 0)
        BY <4>1, StretchRuns
      <4>3. QED
        BY <4>2 DEF Runs, a, c
    <3>3. QED
      BY <2>3, <3>2 DEF Part
  <2>7. parts \in Seq(Part) /\ Len(parts) = m + 1 /\ parts[m + 1] = z /\ \A j \in 1..m : parts[j] = d[j]
    BY <1>11, <2>1, <2>6 DEF m
  <2>8. /\ e[m + 1] = hi /\ (\A j \in 0..m : e[j] = f[j]) /\ e \in [0..(m + 1) -> Nat]
        /\ b[m + 1] = hi /\ (\A j \in 1..m : b[j] = f[j] - l) /\ b \in [1..(m + 1) -> Nat]
    <3>1. /\ m + 1 \in 0..(m + 1) /\ m + 1 \in 1..(m + 1) /\ m + 1 \notin 0..m
          /\ (\A j \in 0..m : j \in 0..(m + 1)) /\ (\A j \in 1..m : j \in 1..(m + 1))
          /\ (\A j \in 0..(m + 1) : j = m + 1 \/ j \in 0..m) /\ (\A j \in 1..(m + 1) : j = m + 1 \/ j \in 1..m)
      BY <1>11
    <3>2. (\A j \in 0..m : f[j] \in Nat) /\ (\A j \in 1..m : f[j] - l \in Nat)
      BY <1>12, <1>13
    <3>3. /\ e[m + 1] = hi /\ (\A j \in 0..m : e[j] = f[j])
          /\ b[m + 1] = hi /\ (\A j \in 1..m : b[j] = f[j] - l)
      BY <1>11, <3>1
    <3>4. e \in [0..(m + 1) -> Nat]
      BY <3>1, <3>2
    <3>5. b \in [1..(m + 1) -> Nat]
      BY <3>1, <3>2
    <3>6. QED
      BY <3>3, <3>4, <3>5
  <2> HIDE DEF e, b, parts
  <2>9. ASSUME NEW j \in 1..(m + 1) PROVE e[j] <= hi /\ PartIs(parts[j], e[j - 1], b[j], e[j], sep, j = m + 1)
    <3>1. CASE j = m + 1
      <4>1. j - 1 = m /\ m \in 0..m
        BY <1>11, <3>1
      <4>2. e[j - 1] = x /\ e[j] = hi /\ b[j] = hi /\ parts[j] = z /\ (j = m + 1) = TRUE
        BY <2>7, <2>8, <3>1, <4>1 DEF x
      <4>3. PartIs(parts[j], e[j - 1], b[j], e[j], sep, j = m + 1)
        BY <2>5, <4>2, Zenon
      <4>4. QED
        BY <4>2, <4>3
    <3>2. CASE j \in 1..m
      <4>1. j \in 0..m /\ j - 1 \in 0..m /\ (j = m + 1) = FALSE
        BY <1>11, <3>2
      <4>2. f[j] <= hi /\ PartIs(d[j], f[j - 1], f[j] - l, f[j], sep, FALSE)
        BY <1>13, <3>2
      <4>3. QED
        BY <2>7, <2>8, <3>2, <4>1, <4>2
    <3>3. QED
      BY <1>11, <3>1, <3>2
  <2>10. e[0] = lo - 1 /\ m + 1 >= 1
    BY <1>11, <1>12, <2>8
  <2>11. PartsAre(parts, e, b, lo, hi, sep)
    BY <2>7, <2>8, <2>9, <2>10 DEF PartsAre
  <2>12. QED
    BY <2>11 DEF parts
<1>16. QED
  BY <1>14, <1>15

-----------------------------------------------------------------------------
(* The recursions of Collected and recursiveSplit.                         *)

PieceLists == Seq(Seq(Nat))

Splitter == [Seq(Nat) -> PieceLists]

LEMMA PartsType ==
  ASSUME NEW ps \in Seq(Nat), NEW sep, Len(sep) \in Nat
  PROVE  Parts(ps, sep) \in Seq(Part)
<1> DEFINE n == Len(ps)
<1>1. PICK u \in [0..n -> CutState] : CutsUp(u, ps, sep)
  BY PartsUnfold
<1>2. n \in Nat /\ u[n] \in CutState
  BY <1>1
<1> DEFINE d == u[n].done
           from == u[n].from
           z == Cutting(ps, from, n, n)
<1>3. d \in Seq(Part) /\ from \in Nat \ {0}
  BY <1>2 DEF CutState
<1>4. Parts(ps, sep) = IF sep = <<>> THEN d ELSE Append(d, z)
  BY <1>1 DEF CutsUp
<1> HIDE DEF d, from, n
<1>5. z \in Part
  <2>1. \A i \in from..n : ps[i] \in Nat
    BY <1>2, <1>3 DEF n
  <2>2. SubSeq(ps, from, n) \in Seq(Nat)
    BY <1>2, <1>3, <2>1, SubSeqProperties
  <2>3. SubSeq(ps, n + 1, n) \in Seq(Nat)
    BY <1>2, SubSeqEmpty
  <2>4. QED
    BY <2>2, <2>3 DEF Cutting, Part
<1> HIDE DEF z
<1>6. QED
  BY <1>3, <1>4, <1>5

(* What part p adds to the pieces before it.                               *)
Added(p, last, deeper) == IF ~last /\ countTokens(p.part) > PieceLimit THEN deeper[p.part] ELSE <<p.part>>

CollectStep(before, p, last, deeper) ==
  LET all == before \o Added(p, last, deeper)
  IN IF p.part = <<>> THEN before ELSE IF all = <<>> THEN <<>> ELSE [all EXCEPT ![Len(all)] = @ \o p.sep]

Collects(u, parts, last, deeper) ==
  /\ u[0] = <<>>
  /\ \A k \in 1..Len(parts) : u[k] = CollectStep(u[k - 1], parts[k], last, deeper)
  /\ Collected(parts, last, deeper) = Keep(u[Len(parts)], {k \in DOMAIN u[Len(parts)] : Dark(u[Len(parts)][k]) # {}})

LEMMA CollectStepType ==
  ASSUME NEW before \in PieceLists, NEW p \in Part, NEW last \in BOOLEAN, NEW deeper, ~last => deeper \in Splitter
  PROVE  CollectStep(before, p, last, deeper) \in PieceLists
<1>1. p.part \in Seq(Nat) /\ p.sep \in Seq(Nat)
  BY DEF Part
<1>2. Added(p, last, deeper) \in PieceLists
  <2>1. <<p.part>> \in Seq(Seq(Nat))
    BY <1>1
  <2>2. CASE ~last
    <3>1. deeper[p.part] \in PieceLists
      BY <1>1, <2>2 DEF Splitter
    <3>2. QED
      BY <2>1, <3>1 DEF Added, PieceLists
  <2>3. CASE last
    BY <2>1, <2>3 DEF Added, PieceLists
  <2>4. QED
    BY <2>2, <2>3
<1> DEFINE S == Seq(Nat)
           all == before \o Added(p, last, deeper)
           grown == all[Len(all)] \o p.sep
           q == [all EXCEPT ![Len(all)] = grown]
<1>3. all \in Seq(S)
  BY <1>2, ConcatProperties DEF PieceLists
<1> HIDE DEF all
<1>4. ASSUME all # <<>> PROVE q \in Seq(S)
  <2>1. Len(all) \in 1..Len(all)
    BY <1>3, <1>4
  <2>2. all[Len(all)] \in Seq(Nat)
    BY <1>3, <2>1
  <2>3. grown \in S
    BY <1>1, <2>2
  <2> HIDE DEF grown, S
  <2>4. QED
    BY <1>3, <2>1, <2>3, ExceptSeq
<1>5. CollectStep(before, p, last, deeper) = IF p.part = <<>> THEN before ELSE IF all = <<>> THEN <<>> ELSE q
  BY DEF CollectStep, all
<1>6. <<>> \in PieceLists
  BY DEF PieceLists
<1> HIDE DEF all, q
<1>7. QED
  BY <1>4, <1>5, <1>6 DEF PieceLists

LEMMA CollectedUnfolds ==
  ASSUME NEW parts \in Seq(Part), NEW last \in BOOLEAN, NEW deeper, ~last => deeper \in Splitter
  PROVE  \E u \in [0..Len(parts) -> PieceLists] : Collects(u, parts, last, deeper)
<1> DEFINE n == Len(parts)
           none == <<>>
           step == [e \in (1..n) \X PieceLists |-> CollectStep(e[2], parts[e[1]], last, deeper)]
           out == CHOOSE out : out = [k \in 0..n |-> IF k = 0 THEN none ELSE CollectStep(out[k - 1], parts[k], last, deeper)]
<1>1. n \in Nat /\ \A k \in 1..n, b \in PieceLists : CollectStep(b, parts[k], last, deeper) \in PieceLists
  BY CollectStepType
<1>2. none \in PieceLists /\ none = <<>>
  BY DEF PieceLists
<1>3. step \in [(1..n) \X PieceLists -> PieceLists]
  BY <1>1
<1>4. \A k \in 1..n, b \in PieceLists : step[<<k, b>>] = CollectStep(b, parts[k], last, deeper)
  OBVIOUS
<1>5. Collected(parts, last, deeper) = Keep(out[n], {k \in DOMAIN out[n] : Dark(out[n][k]) # {}})
  BY DEF Collected, CollectStep, Added
<1> HIDE DEF step, n, none
<1>6. PICK g \in [0..n -> PieceLists] : Steps(g, n, none, step)
  BY <1>1, <1>2, <1>3, Recursive
<1>7. g[0] = none /\ \A k \in 1..n : g[k - 1] \in PieceLists /\ g[k] = CollectStep(g[k - 1], parts[k], last, deeper)
  <2>1. \A k \in 1..n : k - 1 \in 0..n
    BY <1>1
  <2>2. QED
    BY <1>4, <1>6, <2>1 DEF Steps
<1>8. g = [k \in 0..n |-> IF k = 0 THEN none ELSE CollectStep(g[k - 1], parts[k], last, deeper)]
  <2>1. \A k \in 0..n : k = 0 \/ k \in 1..n
    BY <1>1
  <2>2. QED
    BY <1>6, <1>7, <2>1
<1>9. out = [k \in 0..n |-> IF k = 0 THEN none ELSE CollectStep(out[k - 1], parts[k], last, deeper)]
  BY <1>8
<1> HIDE DEF out
<1>10. out[0] = none /\ \A k \in 1..n : out[k] = CollectStep(out[k - 1], parts[k], last, deeper)
  <2>1. 0 \in 0..n /\ \A k \in 1..n : k \in 0..n /\ k # 0
    BY <1>1
  <2>2. QED
    BY <1>9, <2>1
<1>11. \A k \in 0..n : out[k] \in PieceLists
  <2> DEFINE T == {k \in Nat : k <= n => out[k] \in PieceLists}
  <2>1. 0 \in T
    BY <1>2, <1>10
  <2>2. ASSUME NEW k \in Nat, k \in T PROVE k + 1 \in T
    <3> SUFFICES ASSUME k + 1 <= n PROVE out[k + 1] \in PieceLists
      OBVIOUS
    <3>1. k + 1 \in 1..n /\ (k + 1) - 1 = k /\ out[k] \in PieceLists
      BY <1>1, <2>2
    <3>2. out[k + 1] = CollectStep(out[k], parts[k + 1], last, deeper)
      BY <1>10, <3>1
    <3>3. QED
      BY <1>1, <3>1, <3>2
  <2> HIDE DEF T
  <2>3. Nat \subseteq T
    BY <2>1, <2>2, Counting
  <2>4. QED
    BY <1>1, <2>3 DEF T
<1>12. out \in [0..n -> PieceLists]
  BY <1>9, <1>11
<1>13. QED
  BY <1>2, <1>5, <1>10, <1>12 DEF n, Collects

LEMMA CollectedType ==
  ASSUME NEW parts \in Seq(Part), NEW last \in BOOLEAN, NEW deeper, ~last => deeper \in Splitter
  PROVE  Collected(parts, last, deeper) \in PieceLists
<1> DEFINE n == Len(parts)
<1>1. PICK u \in [0..n -> PieceLists] : Collects(u, parts, last, deeper)
  BY CollectedUnfolds
<1>2. n \in Nat /\ u[n] \in Seq(Seq(Nat))
  BY <1>1 DEF PieceLists
<1>3. \E kept : Collected(parts, last, deeper) = Keep(u[n], kept)
  BY <1>1 DEF Collects
<1>4. QED
  BY <1>2, <1>3, KeepIs DEF PieceLists

(* The call with the separators from rank on.                              *)
SplitAt(rank, deeper) ==
  LET last == rank = 9
  IN [ps \in Seq(Nat) |->
       LET parts == Parts(ps, SEPARATORS[rank])
       IN IF Len(parts) = 1 /\ ~last THEN deeper[ps] ELSE Collected(parts, last, deeper)]

(* There are nine separators, without words, and the last is empty.        *)
LEMMA Separators ==
  /\ Len(SEPARATORS) = 9 /\ SEPARATORS[9] = <<>>
  /\ \A rank \in 1..9 : /\ SEPARATORS[rank] \in Seq(Character) /\ Len(SEPARATORS[rank]) \in Nat
                        /\ \A j \in 1..Len(SEPARATORS[rank]) : SEPARATORS[rank][j] # "word"
<1> DEFINE C == Character \ {"word"}
           S == Seq(C)
<1>1. {"newline", "blank", "stop", "exclamation", "question", "semicolon", "comma"} \subseteq C
  BY DEF Character, Mark
<1> HIDE DEF C
<1>2. /\ <<"newline", "newline">> \in S /\ <<"newline">> \in S /\ <<"blank">> \in S /\ <<>> \in S
      /\ <<"stop", "blank">> \in S /\ <<"exclamation", "blank">> \in S /\ <<"question", "blank">> \in S
      /\ <<"semicolon", "blank">> \in S /\ <<"comma", "blank">> \in S
  BY <1>1
<1> HIDE DEF S
<1>3. SEPARATORS \in Seq(S) /\ Len(SEPARATORS) = 9
  BY <1>2 DEF SEPARATORS
<1>4. SEPARATORS[9] = <<>>
  BY DEF SEPARATORS
<1>5. \A rank \in 1..9 : SEPARATORS[rank] \in Seq(C)
  <2>1. ASSUME NEW rank \in 1..9 PROVE SEPARATORS[rank] \in S
    <3> DEFINE s == SEPARATORS
    <3>1. s \in Seq(S) /\ rank \in 1..Len(s)
      BY <1>3
    <3> HIDE DEF s
    <3>2. s[rank] \in S
      BY <3>1
    <3> QED
      BY <3>2 DEF s
  <2>2. \A rank \in 1..9 : SEPARATORS[rank] \in S
    BY <2>1
  <2> QED
    BY <2>2 DEF S
<1>6. ASSUME NEW s \in Seq(C) PROVE s \in Seq(Character) /\ Len(s) \in Nat /\ \A j \in 1..Len(s) : s[j] # "word"
  <2>1. \A j \in 1..Len(s) : s[j] \in C
    OBVIOUS
  <2> QED
    BY <2>1 DEF C
<1> QED
  BY <1>3, <1>4, <1>5, <1>6

LEMMA SplitAtType ==
  ASSUME NEW rank \in 1..9, NEW deeper, rank # 9 => deeper \in Splitter
  PROVE  SplitAt(rank, deeper) \in Splitter
<1> DEFINE last == rank = 9
<1>1. last \in BOOLEAN /\ (~last => deeper \in Splitter)
  OBVIOUS
<1>2. SplitAt(rank, deeper) = [ps \in Seq(Nat) |-> IF Len(Parts(ps, SEPARATORS[rank])) = 1 /\ ~last THEN deeper[ps]
                                                    ELSE Collected(Parts(ps, SEPARATORS[rank]), last, deeper)]
  BY DEF SplitAt
<1> HIDE DEF last
<1>3. ASSUME NEW ps \in Seq(Nat) PROVE Collected(Parts(ps, SEPARATORS[rank]), last, deeper) \in PieceLists
  <2>1. Parts(ps, SEPARATORS[rank]) \in Seq(Part)
    BY Separators, PartsType
  <2> QED
    BY <1>1, <2>1, CollectedType
<1>4. ASSUME NEW ps \in Seq(Nat), ~last PROVE deeper[ps] \in PieceLists
  BY <1>1, <1>4 DEF Splitter
<1> QED
  BY <1>2, <1>3, <1>4 DEF Splitter

LEMMA SplitUnfolds ==
  /\ recursiveSplit[9] = SplitAt(9, <<>>)
  /\ \A rank \in 1..8 : recursiveSplit[rank] = SplitAt(rank, recursiveSplit[rank + 1]) /\ recursiveSplit[rank + 1] \in Splitter
<1> DEFINE none == <<>>
           bottom == SplitAt(9, none)
           step == [e \in (1..8) \X Splitter |-> SplitAt(9 - e[1], e[2])]
           R(h) == [rank \in 1..9 |-> SplitAt(rank, IF rank = 9 THEN none ELSE h[rank + 1])]
<1>1. recursiveSplit = CHOOSE h : h = R(h)
  BY Separators DEF recursiveSplit, SplitAt
<1>2. bottom \in Splitter
  BY SplitAtType
<1>3. \A k \in 1..8, f \in Splitter : SplitAt(9 - k, f) \in Splitter
  <2>1. \A k \in 1..8 : 9 - k \in 1..9
    OBVIOUS
  <2> QED
    BY <2>1, SplitAtType
<1>4. step \in [(1..8) \X Splitter -> Splitter] /\ \A k \in 1..8, f \in Splitter : step[<<k, f>>] = SplitAt(9 - k, f)
  BY <1>3
<1> HIDE DEF none, bottom, step
<1>5. PICK u \in [0..8 -> Splitter] : Steps(u, 8, bottom, step)
  BY <1>2, <1>4, Recursive
<1>6. u[0] = bottom /\ \A k \in 1..8 : u[k] = SplitAt(9 - k, u[k - 1])
  <2>1. \A k \in 1..8 : k - 1 \in 0..8
    OBVIOUS
  <2> QED
    BY <1>4, <1>5, <2>1 DEF Steps
<1> DEFINE g == [rank \in 1..9 |-> u[9 - rank]]
<1>7. ASSUME NEW rank \in 1..9 PROVE g[rank] = SplitAt(rank, IF rank = 9 THEN none ELSE g[rank + 1])
  <2>1. CASE rank = 9
    <3>1. 9 - rank = 0 /\ g[rank] = u[9 - rank]
      BY <2>1
    <3> HIDE DEF g
    <3> QED
      BY <1>6, <2>1, <3>1 DEF bottom
  <2>2. CASE rank # 9
    <3> DEFINE k == 9 - rank
    <3>1. k \in 1..8 /\ 9 - k = rank /\ 9 - (rank + 1) = k - 1 /\ rank + 1 \in 1..9
      BY <2>2
    <3>2. g[rank] = u[k] /\ g[rank + 1] = u[k - 1]
      BY <3>1
    <3> HIDE DEF g, k
    <3> QED
      BY <1>6, <2>2, <3>1, <3>2
  <2> QED
    BY <2>1, <2>2
<1>8. g = R(g)
  <2>1. g = [rank \in 1..9 |-> g[rank]]
    OBVIOUS
  <2> HIDE DEF g
  <2> QED
    BY <1>7, <2>1
<1>9. recursiveSplit = R(recursiveSplit)
  <2> HIDE DEF g, R
  <2> QED
    BY <1>1, <1>8
<1> HIDE DEF g
<1>10. \A rank \in 1..9 : recursiveSplit[rank] = SplitAt(rank, IF rank = 9 THEN none ELSE recursiveSplit[rank + 1])
  <2> DEFINE h == recursiveSplit
  <2>1. h = R(h)
    BY <1>9
  <2> HIDE DEF h
  <2>2. \A rank \in 1..9 : h[rank] = SplitAt(rank, IF rank = 9 THEN none ELSE h[rank + 1])
    BY <2>1
  <2> QED
    BY <2>2 DEF h
<1> HIDE DEF R
<1>11. recursiveSplit[9] = SplitAt(9, none)
  <2>1. 9 \in 1..9
    OBVIOUS
  <2> QED
    BY <1>10, <2>1
<1>12. \A rank \in 1..8 : recursiveSplit[rank] = SplitAt(rank, recursiveSplit[rank + 1])
  <2>1. \A rank \in 1..8 : rank \in 1..9 /\ rank # 9
    OBVIOUS
  <2> QED
    BY <1>10, <2>1
<1> DEFINE T == {k \in Nat : k <= 7 => recursiveSplit[9 - k] \in Splitter}
<1>13. 0 \in T
  <2>1. 9 - 0 = 9
    OBVIOUS
  <2> QED
    BY <1>2, <1>11, <2>1 DEF bottom
<1>14. ASSUME NEW k \in Nat, k \in T PROVE k + 1 \in T
  <2> SUFFICES ASSUME k + 1 <= 7 PROVE recursiveSplit[9 - (k + 1)] \in Splitter
    OBVIOUS
  <2> DEFINE rank == 9 - (k + 1)
  <2>1. rank \in 1..8 /\ rank + 1 = 9 - k /\ k <= 7
    OBVIOUS
  <2>2. rank \in 1..9 /\ recursiveSplit[rank + 1] \in Splitter
    BY <1>14, <2>1
  <2> HIDE DEF rank
  <2>3. recursiveSplit[rank] \in Splitter
    BY <1>12, <2>1, <2>2, SplitAtType
  <2> QED
    BY <2>3 DEF rank
<1> HIDE DEF T
<1>15. Nat \subseteq T
  BY <1>13, <1>14, Counting
<1>16. \A rank \in 1..8 : recursiveSplit[rank + 1] \in Splitter
  <2>1. \A rank \in 1..8 : 8 - rank \in Nat /\ 8 - rank <= 7 /\ 9 - (8 - rank) = rank + 1
    OBVIOUS
  <2> QED
    BY <1>15, <2>1 DEF T
<1> QED
  BY <1>11, <1>12, <1>16 DEF none

-----------------------------------------------------------------------------
(* Tokens.                                                                 *)

LEMMA Quotient ==
  ASSUME NEW x \in Nat, NEW d \in Nat \ {0}
  PROVE  x \div d \in Nat /\ d * (x \div d) <= x /\ x < d * (x \div d) + d
OBVIOUS

LEMMA Products ==
  ASSUME NEW d \in Nat, NEW a \in Int, NEW b \in Int, a <= b
  PROVE  d * a \in Int /\ d * b \in Int /\ d * a <= d * b
OBVIOUS

(* n characters, of which d make a token.                                  *)
Ceiling(n, d) == (n + d - 1) \div d

LEMMA CeilingIs ==
  ASSUME NEW n \in Nat, NEW d \in Nat \ {0}
  PROVE  /\ Ceiling(n, d) \in Nat /\ n <= d * Ceiling(n, d)
         /\ \A t \in Nat : n <= d * t => Ceiling(n, d) <= t
<1> DEFINE c == Ceiling(n, d)
<1>1. n + d - 1 \in Nat
  OBVIOUS
<1>2. c \in Nat /\ d * c <= n + d - 1 /\ n + d - 1 < d * c + d
  BY <1>1, Quotient DEF Ceiling
<1> HIDE DEF c
<1>3. n <= d * c
  BY <1>2
<1>4. ASSUME NEW t \in Nat, n <= d * t, t < c PROVE FALSE
  <2>1. d * (t + 1) <= d * c
    BY <1>2, <1>4, Products
  <2>2. d * (t + 1) = d * t + d
    OBVIOUS
  <2>3. d * t \in Nat /\ d * c \in Nat
    BY <1>2
  <2>4. QED
    BY <1>2, <1>4, <2>1, <2>2, <2>3
<1>5. QED
  BY <1>2, <1>3, <1>4 DEF c

LEMMA CeilingSums ==
  ASSUME NEW d \in Nat \ {0}, NEW a \in Nat, NEW b \in Nat
  PROVE  /\ Ceiling(a + b, d) <= Ceiling(a, d) + Ceiling(b, d)
         /\ Ceiling(a, d) <= a /\ (a <= b => Ceiling(a, d) <= Ceiling(b, d))
         /\ \A t \in Nat : a <= t * d + b => Ceiling(a, d) <= t + b
         /\ \A t \in Nat : Ceiling(a, d) <= t => a <= t * d
<1> DEFINE x == Ceiling(a, d)
           y == Ceiling(b, d)
<1>1. /\ x \in Nat /\ a <= d * x /\ \A t \in Nat : a <= d * t => x <= t
      /\ y \in Nat /\ b <= d * y
  BY CeilingIs
<1> HIDE DEF x, y
<1>2. d * (x + y) = d * x + d * y /\ d * x \in Nat /\ d * y \in Nat /\ x + y \in Nat
  BY <1>1
<1>3. Ceiling(a + b, d) <= x + y
  <2>1. a + b \in Nat /\ a + b <= d * (x + y)
    BY <1>1, <1>2
  <2> HIDE DEF Ceiling
  <2>2. QED
    BY <1>2, <2>1, CeilingIs
<1>4. x <= a
  <2>1. a <= d * a
    <3>1. a * 1 <= a * d /\ a * 1 = a /\ a * d = d * a
      BY Products
    <3>2. QED
      BY <3>1
  <2>2. QED
    BY <1>1, <2>1
<1>5. a <= b => x <= y
  BY <1>1, <1>2
<1>6. ASSUME NEW t \in Nat, a <= t * d + b PROVE x <= t + b
  <2>1. b <= d * b
    <3>1. b * 1 <= b * d /\ b * 1 = b /\ b * d = d * b
      BY Products
    <3>2. QED
      BY <3>1
  <2>2. d * (t + b) = d * t + d * b /\ d * t = t * d /\ d * t \in Nat /\ d * b \in Nat /\ t + b \in Nat
    OBVIOUS
  <2>3. a <= d * (t + b)
    BY <1>6, <2>1, <2>2
  <2>4. QED
    BY <1>1, <2>2, <2>3
<1>7. ASSUME NEW t \in Nat, x <= t PROVE a <= t * d
  <2>1. d * x <= d * t /\ d * t = t * d /\ d * t \in Nat
    BY <1>1, <1>7, Products
  <2>2. QED
    BY <1>1, <1>2, <2>1
<1>8. QED
  BY <1>3, <1>4, <1>5, <1>6, <1>7 DEF x, y

LEMMA TokensAreCeiling ==
  ASSUME NEW p
  PROVE  countTokens(p) = Ceiling(Len(p), setting.density)
BY DEF countTokens, Ceiling

(* The characters a part may have that is not split further.               *)
Room == PieceLimit * setting.density

LEMMA RoomIs ==
  ASSUME setting.density \in Nat \ {0}
  PROVE  Room \in Nat /\ Room >= 1
<1> DEFINE d == setting.density
<1>1. PieceLimit \in Nat /\ PieceLimit >= 1
  BY LimitsAssumption
<1>2. d * 1 <= d * PieceLimit
  BY <1>1, Products
<1> HIDE DEF d
<1>3. d \in Nat \ {0} /\ Room = PieceLimit * d
  BY DEF Room, d
<1> QED
  BY <1>1, <1>2, <1>3

-----------------------------------------------------------------------------
(* Pieces that follow each other in the text and leave out no word.        *)

From(p) == p[1]

To(p) == p[Len(p)]

(* p has positions from lo to hi in their order, with all the words that   *)
(* are between its first and its last; these are close to each other.      *)
PieceIn(p, lo, hi, words, room) ==
  /\ p \in Seq(Nat) /\ p # <<>> /\ \A i, j \in 1..Len(p) : i < j => p[i] < p[j]
  /\ lo <= From(p) /\ To(p) <= hi
  /\ \A w \in words : From(p) <= w /\ w <= To(p) => \E i \in 1..Len(p) : p[i] = w
  /\ \A v, w \in words : From(p) <= v /\ w <= To(p) => w < v + room

Tiles(q, lo, hi) ==
  /\ q \in PieceLists
  /\ \A k \in 1..Len(q) : PieceIn(q[k], lo, hi, AllWords, Room)
  /\ \A j, k \in 1..Len(q) : j < k => To(q[j]) < From(q[k])
  /\ \A w \in AllWords : lo <= w /\ w <= hi => \E k \in 1..Len(q) : From(q[k]) <= w /\ w <= To(q[k])

Final(q) == q[Len(q)]

LEMMA PieceOrder ==
  ASSUME NEW p, NEW lo, NEW hi, NEW words, NEW room, PieceIn(p, lo, hi, words, room)
  PROVE  /\ p \in Seq(Nat) /\ Len(p) \in Nat \ {0} /\ DOMAIN p = 1..Len(p)
         /\ From(p) \in Nat /\ To(p) \in Nat /\ From(p) <= To(p) /\ lo <= From(p) /\ To(p) <= hi
         /\ \A i \in 1..Len(p) : p[i] \in Nat /\ From(p) <= p[i] /\ p[i] <= To(p)
<1> DEFINE n == Len(p)
<1>1. p \in Seq(Nat) /\ p # <<>> /\ \A i, j \in 1..n : i < j => p[i] < p[j]
  BY DEF PieceIn
<1>2. n \in Nat \ {0} /\ DOMAIN p = 1..n /\ 1 \in 1..n /\ n \in 1..n /\ \A i \in 1..n : p[i] \in Nat
  BY <1>1
<1> HIDE DEF n
<1>3. ASSUME NEW i \in 1..n PROVE p[1] <= p[i] /\ p[i] <= p[n]
  <2>1. i = 1 \/ 1 < i
    BY <1>2
  <2>2. i = n \/ i < n
    BY <1>2
  <2>3. p[1] <= p[i]
    BY <1>1, <1>2, <2>1
  <2>4. p[i] <= p[n]
    BY <1>1, <1>2, <2>2
  <2> QED
    BY <2>3, <2>4
<1> QED
  BY <1>1, <1>2, <1>3 DEF n, From, To, PieceIn

LEMMA PieceBetween ==
  ASSUME NEW p, NEW lo, NEW hi, NEW words, NEW room, PieceIn(p, lo, hi, words, room), NEW x, NEW y, x <= From(p), To(p) <= y
  PROVE  PieceIn(p, x, y, words, room)
BY DEF PieceIn

LEMMA StretchPiece ==
  ASSUME NEW a \in Nat \ {0}, NEW b \in Nat, a <= b
  PROVE  /\ Stretch(a, b) \in Seq(Nat) /\ From(Stretch(a, b)) = a /\ To(Stretch(a, b)) = b
         /\ Len(Stretch(a, b)) = b + 1 - a /\ Stretch(a, b) # <<>>
<1> DEFINE n == b + 1 - a
<1>1. n \in Nat /\ n = b + 1 - a /\ 1 \in 1..n /\ n \in 1..n /\ a + 1 - 1 = a /\ a + n - 1 = b
  OBVIOUS
<1> HIDE DEF n
<1>2. Runs(Stretch(a, b), a, n)
  BY <1>1, StretchRuns
<1>3. QED
  BY <1>1, <1>2 DEF Runs, From, To

LEMMA TilesNone ==
  ASSUME NEW lo \in Nat \ {0}, NEW hi, hi = lo - 1, AllWords \subseteq Nat
  PROVE  Tiles(<<>>, lo, hi)
<1> DEFINE q == <<>>
<1>1. q \in PieceLists /\ Len(q) = 0 /\ 1..0 = {}
  BY DEF PieceLists
<1> HIDE DEF q
<1>2. \A w \in AllWords : ~(lo <= w /\ w <= hi)
  OBVIOUS
<1>3. Tiles(q, lo, hi)
  BY <1>1, <1>2 DEF Tiles
<1>4. QED
  BY <1>3 DEF q

LEMMA TilesWider ==
  ASSUME NEW q, NEW lo \in Nat \ {0}, NEW m \in Nat, Tiles(q, lo, m), NEW hi \in Nat, m <= hi,
         AllWords \subseteq Nat, \A w \in AllWords : ~(m < w /\ w <= hi)
  PROVE  Tiles(q, lo, hi)
<1>1. ASSUME NEW k \in 1..Len(q) PROVE PieceIn(q[k], lo, hi, AllWords, Room)
  <2>1. PieceIn(q[k], lo, m, AllWords, Room)
    BY DEF Tiles
  <2>2. To(q[k]) \in Nat /\ To(q[k]) <= m
    BY <2>1, PieceOrder
  <2>3. To(q[k]) <= hi
    BY <2>2
  <2> QED
    BY <2>1, <2>3 DEF PieceIn
<1>2. \A w \in AllWords : lo <= w /\ w <= hi => w <= m
  OBVIOUS
<1>3. QED
  BY <1>1, <1>2 DEF Tiles

LEMMA TilesJoin ==
  ASSUME NEW q, NEW r, NEW lo \in Nat \ {0}, NEW m \in Nat, NEW hi \in Nat, AllWords \subseteq Nat,
         lo <= m + 1, m <= hi, Tiles(q, lo, m), Tiles(r, m + 1, hi)
  PROVE  Tiles(q \o r, lo, hi)
<1> DEFINE a == Len(q)
           b == Len(r)
           t == q \o r
<1>1. q \in PieceLists /\ r \in PieceLists /\ a \in Nat /\ b \in Nat
  BY DEF Tiles, PieceLists
<1>2. /\ t \in PieceLists /\ Len(t) = a + b
      /\ \A k \in 1..(a + b) : t[k] = IF k <= a THEN q[k] ELSE r[k - a]
  BY <1>1, ConcatProperties DEF PieceLists
<1> HIDE DEF a, b, t
<1>3. ASSUME NEW k \in 1..(a + b) PROVE (k \in 1..a /\ t[k] = q[k]) \/ (k - a \in 1..b /\ k > a /\ t[k] = r[k - a])
  BY <1>1, <1>2
<1>4. (\A k \in 1..a : k \in 1..(a + b) /\ t[k] = q[k]) /\ (\A k \in 1..b : k + a \in 1..(a + b) /\ t[k + a] = r[k])
  <2>1. \A k \in 1..a : k \in 1..(a + b) /\ t[k] = q[k]
    BY <1>1, <1>2
  <2>2. \A k \in 1..b : k + a \in 1..(a + b) /\ ~(k + a <= a) /\ (k + a) - a = k
    BY <1>1
  <2>3. QED
    BY <1>2, <2>1, <2>2
<1>5. /\ \A k \in 1..a : PieceIn(q[k], lo, m, AllWords, Room) /\ From(q[k]) \in Nat /\ To(q[k]) \in Nat /\ lo <= From(q[k]) /\ To(q[k]) <= m
      /\ \A k \in 1..b : PieceIn(r[k], m + 1, hi, AllWords, Room) /\ From(r[k]) \in Nat /\ To(r[k]) \in Nat
                         /\ m + 1 <= From(r[k]) /\ To(r[k]) <= hi
  <2>1. \A k \in 1..a : PieceIn(q[k], lo, m, AllWords, Room)
    BY DEF Tiles, a
  <2>2. \A k \in 1..b : PieceIn(r[k], m + 1, hi, AllWords, Room)
    BY DEF Tiles, b
  <2> QED
    BY <2>1, <2>2, PieceOrder
<1>6. ASSUME NEW k \in 1..(a + b) PROVE PieceIn(t[k], lo, hi, AllWords, Room)
  <2>1. CASE k \in 1..a /\ t[k] = q[k]
    <3>1. To(q[k]) <= hi
      BY <1>5, <2>1
    <3> QED
      BY <1>5, <2>1, <3>1 DEF PieceIn
  <2>2. CASE k - a \in 1..b /\ t[k] = r[k - a]
    <3> DEFINE p == r[k - a]
    <3>1. PieceIn(p, m + 1, hi, AllWords, Room) /\ From(p) \in Nat /\ m + 1 <= From(p) /\ To(p) <= hi
      BY <1>5, <2>2
    <3> HIDE DEF p, From, To
    <3>2. lo <= From(p)
      BY <3>1
    <3>3. PieceIn(p, lo, hi, AllWords, Room)
      BY <3>1, <3>2, PieceBetween
    <3> QED
      BY <2>2, <3>3 DEF p
  <2>3. QED
    BY <1>3, <2>1, <2>2
<1>7. ASSUME NEW j \in 1..(a + b), NEW k \in 1..(a + b), j < k PROVE To(t[j]) < From(t[k])
  <2>1. CASE k \in 1..a
    <3>1. j \in 1..a
      BY <1>1, <1>7, <2>1
    <3>2. QED
      BY <1>4, <1>7, <2>1, <3>1 DEF Tiles, a
  <2>2. CASE j > a
    <3>1. k - a \in 1..b /\ j - a \in 1..b /\ j - a < k - a /\ t[k] = r[k - a] /\ t[j] = r[j - a]
      BY <1>1, <1>2, <1>7, <2>2
    <3> HIDE DEF To, From
    <3>2. QED
      BY <3>1 DEF Tiles, b
  <2>3. CASE j \in 1..a /\ k > a
    <3>1. k - a \in 1..b /\ t[k] = r[k - a] /\ t[j] = q[j]
      BY <1>1, <1>2, <2>3
    <3>2. To(q[j]) \in Nat /\ To(q[j]) <= m /\ From(r[k - a]) \in Nat /\ m + 1 <= From(r[k - a])
      BY <1>5, <2>3, <3>1
    <3> HIDE DEF To, From
    <3>3. To(q[j]) < From(r[k - a])
      BY <3>2
    <3> QED
      BY <3>1, <3>3
  <2>4. QED
    BY <1>1, <2>1, <2>2, <2>3
<1>8. ASSUME NEW w \in AllWords, lo <= w, w <= hi PROVE \E k \in 1..(a + b) : From(t[k]) <= w /\ w <= To(t[k])
  <2>1. CASE w <= m
    <3>1. PICK k \in 1..a : From(q[k]) <= w /\ w <= To(q[k])
      BY <1>8, <2>1 DEF Tiles, a
    <3>2. QED
      BY <1>4, <3>1
  <2>2. CASE m + 1 <= w
    <3>1. PICK k \in 1..b : From(r[k]) <= w /\ w <= To(r[k])
      BY <1>8, <2>2 DEF Tiles, b
    <3>2. QED
      BY <1>4, <3>1
  <2>3. QED
    BY <2>1, <2>2
<1>9. QED
  BY <1>2, <1>6, <1>7, <1>8 DEF Tiles, t

LEMMA DarkIf ==
  ASSUME NEW p, NEW lo, NEW hi, PieceIn(p, lo, hi, AllWords, Room),
         NEW w \in AllWords, From(p) <= w, w <= To(p)
  PROVE  Dark(p) # {}
<1>1. PICK i \in 1..Len(p) : p[i] = w
  BY DEF PieceIn
<1>2. i \in DOMAIN p
  BY <1>1, PieceOrder
<1>3. text[w] \notin White
  BY DEF AllWords, White
<1> QED
  BY <1>1, <1>2, <1>3 DEF Dark

(* A piece takes what is behind it, when this has no words.                *)
Enlarges(f, sep, lo, m, hi, words, room) ==
  /\ PieceIn(f, lo, m, words, room) /\ words \subseteq Nat /\ m \in Nat /\ hi \in Nat /\ m <= hi
  /\ sep = Stretch(m + 1, hi) /\ \A w \in words : ~(To(f) < w /\ w <= hi)

LEMMA PieceEnlarged ==
  ASSUME NEW f, NEW sep, NEW lo, NEW m, NEW hi, NEW words, NEW room, Enlarges(f, sep, lo, m, hi, words, room)
  PROVE  /\ PieceIn(f \o sep, lo, hi, words, room) /\ From(f \o sep) = From(f)
         /\ To(f \o sep) \in Nat /\ To(f) <= To(f \o sep)
<1> USE DEF Enlarges
<1> DEFINE n == Len(f)
           l == hi - m
           t == f \o sep
           z == m + 1
<1>1. /\ f \in Seq(Nat) /\ n \in Nat \ {0} /\ From(f) \in Nat /\ To(f) \in Nat /\ From(f) <= To(f)
      /\ lo <= From(f) /\ To(f) <= m
      /\ \A i \in 1..n : f[i] \in Nat /\ f[i] <= To(f)
  BY PieceOrder
<1>2. z \in Nat \ {0} /\ l \in Nat /\ l = hi + 1 - z /\ z = m + 1 /\ l = hi - m
  OBVIOUS
<1> HIDE DEF z, l
<1>3. Runs(sep, z, l)
  BY <1>2, StretchRuns
<1>4. sep \in Seq(Nat) /\ Len(sep) = l /\ \A i \in 1..l : sep[i] = z + i - 1
  BY <1>3 DEF Runs
<1>5. t \in Seq(Nat) /\ Len(t) = n + l /\ \A i \in 1..(n + l) : t[i] = IF i <= n THEN f[i] ELSE sep[i - n]
  <2>1. f \in Seq(Nat) /\ sep \in Seq(Nat) /\ Len(f) = n /\ Len(sep) = l
    BY <1>1, <1>4
  <2> HIDE DEF n
  <2> QED
    BY <2>1, ConcatProperties
<1> HIDE DEF n, t
<1>6. \A i \in 1..n : i \in 1..(n + l) /\ t[i] = f[i]
  BY <1>1, <1>2, <1>5
<1>7. ASSUME NEW i \in 1..(n + l), i > n PROVE t[i] = m + (i - n) /\ t[i] \in Nat /\ m < t[i] /\ t[i] <= hi
  <2>1. i - n \in 1..l
    BY <1>1, <1>2, <1>7
  <2> DEFINE j == i - n
  <2>2. ~(i <= n) /\ j \in 1..l
    BY <1>1, <1>7, <2>1
  <2>3. t[i] = sep[j]
    BY <1>5, <2>2
  <2>4. sep[j] = z + j - 1
    BY <1>4, <2>2
  <2>5. t[i] = m + j /\ t[i] \in Nat /\ m < t[i] /\ t[i] <= hi
    <3> HIDE DEF j
    <3> QED
      BY <1>1, <1>2, <2>2, <2>3, <2>4
  <2> QED
    BY <2>5
<1>8. ASSUME NEW i \in 1..(n + l), NEW j \in 1..(n + l), i < j PROVE t[i] < t[j]
  <2>1. CASE j <= n
    <3>1. i \in 1..n /\ j \in 1..n
      BY <1>1, <1>2, <1>8, <2>1
    <3> QED
      BY <1>6, <1>8, <3>1 DEF PieceIn, n
  <2>2. CASE i <= n /\ j > n
    <3>1. i \in 1..n
      BY <1>1, <2>2
    <3>2. t[i] \in Nat /\ t[i] <= m
      BY <1>1, <1>6, <3>1
    <3> QED
      BY <1>7, <2>2, <3>2
  <2>3. CASE i > n
    <3>1. j > n
      BY <1>1, <1>2, <1>8, <2>3
    <3>2. t[i] = m + (i - n) /\ t[j] = m + (j - n)
      BY <1>7, <2>3, <3>1
    <3> QED
      BY <1>1, <1>2, <1>8, <3>2
  <2> QED
    BY <1>1, <1>2, <2>1, <2>2, <2>3
<1>9. From(t) = From(f)
  <2>1. 1 \in 1..n
    BY <1>1
  <2> QED
    BY <1>6, <2>1 DEF From
<1>10. To(t) \in Nat /\ To(f) <= To(t) /\ To(t) <= hi
  <2>1. CASE l = 0
    <3>1. n + l = n /\ n \in 1..n
      BY <1>1, <2>1
    <3>2. To(t) = To(f)
      BY <1>5, <1>6, <3>1 DEF To, n
    <3> QED
      BY <1>1, <3>2
  <2>2. CASE l # 0
    <3>1. n + l \in 1..(n + l) /\ n + l > n
      BY <1>1, <1>2, <2>2
    <3>2. To(t) \in Nat /\ m < To(t) /\ To(t) <= hi
      BY <1>5, <1>7, <3>1 DEF To
    <3> QED
      BY <1>1, <3>2
  <2> QED
    BY <2>1, <2>2
<1>11. ASSUME NEW w \in words, w <= To(t) PROVE w <= To(f)
  BY <1>1, <1>10, <1>11
<1>12. ASSUME NEW w \in words, From(t) <= w, w <= To(t) PROVE \E i \in 1..Len(t) : t[i] = w
  <2>1. PICK i \in 1..n : f[i] = w
    BY <1>9, <1>11, <1>12 DEF PieceIn, n
  <2> QED
    BY <1>5, <1>6, <2>1
<1>13. ASSUME NEW v \in words, NEW w \in words, From(t) <= v, w <= To(t) PROVE w < v + room
  BY <1>9, <1>11, <1>13 DEF PieceIn
<1>14. t # <<>>
  BY <1>1, <1>2, <1>5
<1>15. \A i, j \in 1..Len(t) : i < j => t[i] < t[j]
  BY <1>5, <1>8
<1>16. lo <= From(t)
  BY <1>1, <1>9
<1>17. PieceIn(t, lo, hi, words, room)
  BY <1>5, <1>10, <1>12, <1>13, <1>14, <1>15, <1>16 DEF PieceIn
<1> QED
  BY <1>9, <1>10, <1>17 DEF t

(* The final piece does.                                                   *)
Grows(t, q, lo, m, hi, sep) ==
  /\ lo \in Nat \ {0} /\ m \in Nat /\ hi \in Nat /\ m <= hi /\ AllWords \subseteq Nat /\ \A w \in AllWords : ~(m < w /\ w <= hi)
  /\ Tiles(q, lo, m) /\ Len(q) # 0 /\ sep = Stretch(m + 1, hi) /\ t = [q EXCEPT ![Len(q)] = @ \o sep]

LEMMA TilesGrow ==
  ASSUME NEW t, NEW q, NEW lo, NEW m, NEW hi, NEW sep, Grows(t, q, lo, m, hi, sep)
  PROVE  Tiles(t, lo, hi)
<1> DEFINE n == Len(q)
           f == Final(q)
           grown == f \o sep
           S == Seq(Nat)
<1> USE DEF Grows
<1>0. t = [q EXCEPT ![n] = grown]
  BY DEF Final
<1>1. q \in Seq(S) /\ n \in Nat /\ n \in 1..n
  BY DEF Tiles, PieceLists
<1> HIDE DEF n
<1>2. \A k \in 1..n : PieceIn(q[k], lo, m, AllWords, Room) /\ From(q[k]) \in Nat /\ To(q[k]) \in Nat /\ From(q[k]) <= To(q[k]) /\ To(q[k]) <= m
  <2>1. \A k \in 1..n : PieceIn(q[k], lo, m, AllWords, Room)
    BY DEF Tiles, n
  <2> QED
    BY <2>1, PieceOrder
<1>3. f = q[n]
  BY DEF Final, n
<1> HIDE DEF f
<1>4. ASSUME NEW w \in AllWords, To(f) < w, w <= hi PROVE FALSE
  <2>1. lo <= From(f) /\ To(f) \in Nat /\ From(f) \in Nat /\ From(f) <= To(f) /\ w \in Nat
    BY <1>1, <1>2, <1>3 DEF PieceIn
  <2>2. lo <= w /\ w <= m
    BY <1>4, <2>1
  <2>3. PICK k \in 1..n : From(q[k]) <= w /\ w <= To(q[k])
    BY <2>2 DEF Tiles, n
  <2>4. CASE k = n
    BY <1>3, <1>4, <2>1, <2>3, <2>4
  <2>5. CASE k # n
    <3>1. k < n
      BY <1>1, <2>5
    <3>2. To(q[k]) < From(q[n])
      BY <1>1, <3>1 DEF Tiles, n
    <3>3. To(q[k]) \in Nat
      BY <1>2
    <3> HIDE DEF From, To
    <3> QED
      BY <1>3, <1>4, <2>1, <2>3, <3>2, <3>3
  <2> QED
    BY <2>4, <2>5
<1>5. Enlarges(f, sep, lo, m, hi, AllWords, Room)
  BY <1>1, <1>2, <1>3, <1>4 DEF Enlarges
<1>6. PieceIn(grown, lo, hi, AllWords, Room) /\ From(grown) = From(f) /\ To(grown) \in Nat /\ To(f) <= To(grown)
  BY <1>5, PieceEnlarged
<1> HIDE DEF grown
<1>7. grown \in S
  BY <1>6, PieceOrder
<1> HIDE DEF S
<1>8. t \in Seq(S) /\ Len(t) = n /\ t[n] = grown /\ \A k \in 1..n : k # n => t[k] = q[k]
  <2> DEFINE r == [q EXCEPT ![n] = grown]
  <2>1. n \in 1..Len(q) /\ Len(q) = n
    BY <1>1 DEF n
  <2>2. r \in Seq(S) /\ Len(r) = n /\ r[n] = grown /\ \A k \in 1..n : k # n => r[k] = q[k]
    BY <1>1, <1>7, <2>1, ExceptSeq
  <2>3. QED
    BY <1>0, <2>2
<1>9. ASSUME NEW k \in 1..n
      PROVE  PieceIn(t[k], lo, hi, AllWords, Room) /\ From(t[k]) = From(q[k]) /\ To(t[k]) \in Nat /\ To(q[k]) <= To(t[k])
  <2>1. CASE k = n
    BY <1>3, <1>6, <1>8, <2>1
  <2>2. CASE k # n
    <3>1. PieceIn(q[k], lo, m, AllWords, Room) /\ To(q[k]) \in Nat /\ To(q[k]) <= m
      BY <1>2
    <3>2. To(q[k]) <= hi /\ To(q[k]) <= To(q[k])
      BY <3>1
    <3>3. PieceIn(q[k], lo, hi, AllWords, Room)
      BY <3>1, <3>2 DEF PieceIn
    <3> HIDE DEF From, To
    <3>4. QED
      BY <1>8, <2>2, <3>1, <3>2, <3>3
  <2>3. QED
    BY <2>1, <2>2
<1>10. ASSUME NEW j \in 1..n, NEW k \in 1..n, j < k PROVE To(t[j]) < From(t[k])
  <2>1. j # n
    BY <1>1, <1>10
  <2>2. t[j] = q[j] /\ From(t[k]) = From(q[k])
    BY <1>8, <1>9, <2>1
  <2>3. To(q[j]) < From(q[k])
    BY <1>10 DEF Tiles, n
  <2>4. QED
    BY <2>2, <2>3
<1>11. ASSUME NEW w \in AllWords, lo <= w, w <= hi PROVE \E k \in 1..n : From(t[k]) <= w /\ w <= To(t[k])
  <2>1. w <= m
    BY <1>11
  <2>2. PICK k \in 1..n : From(q[k]) <= w /\ w <= To(q[k])
    BY <1>11, <2>1 DEF Tiles, n
  <2>3. To(q[k]) \in Nat /\ To(q[k]) <= To(t[k]) /\ To(t[k]) \in Nat /\ From(t[k]) = From(q[k]) /\ w \in Nat
    BY <1>2, <1>9
  <2> HIDE DEF From, To
  <2>4. From(t[k]) <= w /\ w <= To(t[k])
    BY <2>2, <2>3
  <2> QED
    BY <2>4
<1>12. QED
  BY <1>8, <1>9, <1>10, <1>11 DEF Tiles, PieceLists, S

(* The pieces that show nothing go.                                        *)
LEMMA TilesKeep ==
  ASSUME NEW q, NEW lo, NEW hi, Tiles(q, lo, hi), NEW kept, kept = {k \in DOMAIN q : Dark(q[k]) # {}}
  PROVE  Tiles(Keep(q, kept), lo, hi)
<1> DEFINE n == Len(q)
           t == Keep(q, kept)
           m == Len(t)
<1>1. q \in Seq(Seq(Nat)) /\ n \in Nat /\ DOMAIN q = 1..n
  BY DEF Tiles, PieceLists
<1>2. t \in Seq(Seq(Nat)) /\ \E g : Chosen(t, g, q, kept, n)
  BY <1>1, KeepIs
<1>3. PICK g : Chosen(t, g, q, kept, n)
  BY <1>2
<1> HIDE DEF t
<1>4. m \in Nat
  BY <1>2
<1> HIDE DEF m, n
<1>5. /\ g \in [1..m -> 1..n] /\ \A i, j \in 1..m : i < j => g[i] < g[j]
      /\ \A i \in 1..m : g[i] \in kept /\ t[i] = q[g[i]]
      /\ \A p \in 1..n : p \in kept => \E i \in 1..m : g[i] = p
  BY <1>3 DEF Chosen, m
<1>6. /\ \A k \in 1..n : PieceIn(q[k], lo, hi, AllWords, Room)
      /\ \A j, k \in 1..n : j < k => To(q[j]) < From(q[k])
      /\ \A w \in AllWords : lo <= w /\ w <= hi => \E k \in 1..n : From(q[k]) <= w /\ w <= To(q[k])
  BY DEF Tiles, n
<1>7. \A k \in 1..n : k \in kept <=> Dark(q[k]) # {}
  BY <1>1
<1>8. \A i \in 1..m : PieceIn(t[i], lo, hi, AllWords, Room)
  BY <1>5, <1>6
<1>9. \A i, j \in 1..m : i < j => To(t[i]) < From(t[j])
  BY <1>5, <1>6
<1>10. ASSUME NEW w \in AllWords, lo <= w, w <= hi PROVE \E i \in 1..m : From(t[i]) <= w /\ w <= To(t[i])
  <2>1. PICK k \in 1..n : From(q[k]) <= w /\ w <= To(q[k])
    BY <1>6, <1>10
  <2>2. Dark(q[k]) # {}
    <3>1. PieceIn(q[k], lo, hi, AllWords, Room)
      BY <1>6
    <3> HIDE DEF From, To
    <3>2. QED
      BY <2>1, <3>1, DarkIf
  <2>3. PICK i \in 1..m : g[i] = k
    BY <1>5, <1>7, <2>2
  <2>4. QED
    BY <1>5, <2>1, <2>3
<1>11. Tiles(t, lo, hi)
  BY <1>2, <1>8, <1>9, <1>10 DEF Tiles, PieceLists, m
<1> QED
  BY <1>11 DEF t

-----------------------------------------------------------------------------
(* What recursiveSplit leaves of a text.                                   *)

Fit(lo, hi) == lo \in Nat \ {0} /\ hi \in Nat /\ lo <= hi /\ hi <= Len(text)

Splits(f) == \A lo, hi : Fit(lo, hi) => Tiles(f[Stretch(lo, hi)], lo, hi)

Texted == text \in Seq(Character) /\ setting.density \in Nat \ {0}

LEMMA WordsAre ==
  ASSUME Texted
  PROVE  Len(text) \in Nat /\ AllWords \subseteq 1..Len(text) /\ AllWords \subseteq Nat
<1>1. Len(text) \in Nat /\ DOMAIN text = 1..Len(text)
  BY DEF Texted
<1> QED
  BY <1>1 DEF AllWords

LEMMA PartsOrdered ==
  ASSUME NEW parts, NEW e, NEW b, NEW lo \in Nat \ {0}, NEW hi \in Nat, NEW sep, PartsAre(parts, e, b, lo, hi, sep), lo <= hi
  PROVE  /\ Len(parts) \in Nat /\ \A k \in 0..Len(parts) : e[k] \in Nat /\ lo - 1 <= e[k] /\ e[k] <= hi
         /\ \A k \in 1..Len(parts) : /\ e[k] \in Nat /\ e[k - 1] \in Nat /\ b[k] \in Nat /\ lo - 1 <= e[k - 1]
                                     /\ e[k - 1] <= b[k] /\ b[k] <= e[k] /\ e[k] <= hi
<1> DEFINE n == Len(parts)
<1>1. /\ n \in Nat /\ e \in [0..n -> Nat] /\ b \in [1..n -> Nat] /\ e[0] = lo - 1
      /\ \A k \in 1..n : e[k] <= hi /\ e[k - 1] <= b[k] /\ b[k] <= e[k]
  <2>1. /\ parts \in Seq(Part) /\ e \in [0..n -> Nat] /\ b \in [1..n -> Nat] /\ e[0] = lo - 1
        /\ \A k \in 1..n : e[k] <= hi /\ PartIs(parts[k], e[k - 1], b[k], e[k], sep, k = n)
    BY DEF PartsAre
  <2>2. n \in Nat
    BY <2>1
  <2> HIDE DEF n
  <2>3. \A k \in 1..n : e[k - 1] <= b[k] /\ b[k] <= e[k]
    BY <2>1 DEF PartIs
  <2>4. QED
    BY <2>1, <2>2, <2>3
<1> HIDE DEF n
<1> DEFINE T == {k \in Nat : k <= n => lo - 1 <= e[k]}
<1>2. 0 \in T
  BY <1>1
<1>3. ASSUME NEW k \in Nat, k \in T PROVE k + 1 \in T
  <2> SUFFICES ASSUME k + 1 <= n PROVE lo - 1 <= e[k + 1]
    OBVIOUS
  <2>1. k + 1 \in 1..n /\ (k + 1) - 1 = k /\ k \in 0..n /\ k + 1 \in 0..n /\ lo - 1 <= e[k]
    BY <1>1, <1>3
  <2>2. e[k] <= b[k + 1] /\ b[k + 1] <= e[k + 1] /\ e[k] \in Nat /\ b[k + 1] \in Nat /\ e[k + 1] \in Nat
    BY <1>1, <2>1
  <2>3. QED
    BY <2>1, <2>2
<1> HIDE DEF T
<1>4. Nat \subseteq T
  BY <1>2, <1>3, Counting
<1>5. \A k \in 0..n : e[k] \in Nat /\ lo - 1 <= e[k] /\ e[k] <= hi
  <2> SUFFICES ASSUME NEW k \in 0..n PROVE e[k] \in Nat /\ lo - 1 <= e[k] /\ e[k] <= hi
    OBVIOUS
  <2>1. e[k] \in Nat /\ lo - 1 <= e[k]
    BY <1>1, <1>4 DEF T
  <2>2. k = 0 \/ k \in 1..n
    BY <1>1
  <2>3. e[k] <= hi
    BY <1>1, <2>2
  <2>4. QED
    BY <2>1, <2>3
<1>6. \A k \in 1..n : k \in 0..n /\ k - 1 \in 0..n
  BY <1>1
<1>7. \A k \in 1..n : b[k] \in Nat
  BY <1>1
<1>8. QED
  BY <1>1, <1>5, <1>6, <1>7 DEF n

(* The separator behind a part has no words.                               *)
LEMMA NoWordsBehind ==
  ASSUME NEW rank \in 1..9, NEW d, NEW x, NEW b \in Nat, NEW y \in Nat, NEW last \in BOOLEAN,
         PartIs(d, x, b, y, SEPARATORS[rank], last), AllWords \subseteq Nat
  PROVE  \A w \in AllWords : ~(b < w /\ w <= y)
<1> DEFINE sep == SEPARATORS[rank]
           l == Len(sep)
<1>1. (~last => y = b + l /\ Matches(sep, b)) /\ (last => y = b)
  BY DEF PartIs
<1>2. l \in Nat /\ \A j \in 1..l : sep[j] # "word"
  BY Separators
<1>3. Matches(sep, b) => \A j \in 1..l : text[b + j] = sep[j]
  BY DEF Matches
<1> HIDE DEF sep, l
<1>4. ASSUME NEW w \in AllWords, b < w, w <= y PROVE FALSE
  <2>1. w \in Nat /\ text[w] = "word"
    BY DEF AllWords
  <2>2. ~last
    BY <1>1, <1>4, <2>1
  <2>3. w - b \in 1..l /\ b + (w - b) = w
    BY <1>1, <1>2, <1>4, <2>1, <2>2
  <2>4. text[b + (w - b)] = sep[w - b] /\ sep[w - b] # "word"
    BY <1>1, <1>2, <1>3, <2>2, <2>3
  <2> QED
    BY <2>1, <2>3, <2>4
<1> QED
  BY <1>4

(* A part that is short is a piece.                                        *)
LEMMA TilesOne ==
  ASSUME NEW a \in Nat \ {0}, NEW b \in Nat, a <= b, Room \in Nat, b + 1 - a <= Room, AllWords \subseteq Nat
  PROVE  Tiles(<<Stretch(a, b)>>, a, b)
<1> DEFINE p == Stretch(a, b)
           q == <<p>>
           n == b + 1 - a
<1>1. p \in Seq(Nat) /\ From(p) = a /\ To(p) = b /\ p # <<>>
  BY StretchPiece
<1>2. n \in Nat /\ n = b + 1 - a
  OBVIOUS
<1> HIDE DEF n
<1>3. Runs(p, a, n)
  BY <1>2, StretchRuns
<1>4. Len(p) = n /\ \A i \in 1..n : p[i] = a + i - 1
  BY <1>3 DEF Runs
<1> HIDE DEF p
<1>5. \A i, j \in 1..n : i < j => p[i] < p[j]
  BY <1>2, <1>4
<1>6. ASSUME NEW w \in AllWords, a <= w, w <= b PROVE \E i \in 1..n : p[i] = w
  <2>1. w + 1 - a \in 1..n /\ a + (w + 1 - a) - 1 = w
    BY <1>2, <1>6
  <2> QED
    BY <1>4, <2>1
<1>7. \A v, w \in AllWords : a <= v /\ w <= b => w < v + Room
  <2> SUFFICES ASSUME NEW v \in AllWords, NEW w \in AllWords, a <= v, w <= b PROVE w < v + Room
    OBVIOUS
  <2>1. v \in Nat /\ w \in Nat
    OBVIOUS
  <2> QED
    BY <2>1
<1>8. PieceIn(p, a, b, AllWords, Room)
  BY <1>1, <1>4, <1>5, <1>6, <1>7 DEF PieceIn
<1>9. q \in Seq(Seq(Nat)) /\ Len(q) = 1 /\ q[1] = p
  BY <1>1
<1> HIDE DEF q
<1>10. \A k \in 1..1 : k = 1
  OBVIOUS
<1>11. \A k \in 1..Len(q) : PieceIn(q[k], a, b, AllWords, Room)
  BY <1>8, <1>9, <1>10
<1>12. \A j, k \in 1..Len(q) : j < k => To(q[j]) < From(q[k])
  BY <1>9, <1>10
<1>13. \A w \in AllWords : a <= w /\ w <= b => \E k \in 1..Len(q) : From(q[k]) <= w /\ w <= To(q[k])
  <2>1. 1 \in 1..Len(q)
    BY <1>9
  <2> QED
    BY <1>1, <1>9, <2>1
<1> QED
  BY <1>9, <1>11, <1>12, <1>13 DEF Tiles, PieceLists, q, p

(* d is a part of the positions from lo to hi, and q has what those before *)
(* it are split into.                                                      *)
Follows(q, d, x, b, y, last, rank, lo, hi) ==
  /\ x \in Nat /\ b \in Nat /\ y \in Nat /\ last \in BOOLEAN /\ PartIs(d, x, b, y, SEPARATORS[rank], last)
  /\ lo - 1 <= x /\ y <= hi /\ Tiles(q, lo, x)

(* A part adds pieces of itself.                                           *)
LEMMA PartAdds ==
  ASSUME Texted, NEW rank \in 1..9, NEW lo, NEW hi, Fit(lo, hi), NEW deeper, rank # 9 => Splits(deeper),
         NEW q, NEW d, NEW x, NEW b, NEW y, NEW last, Follows(q, d, x, b, y, last, rank, lo, hi), x < b
  PROVE  Tiles(Added(d, rank = 9, deeper), x + 1, b)
<1> USE DEF Follows
<1> DEFINE p == Stretch(x + 1, b)
           l == x + 1
           n == b - x
<1>1. /\ d.part = p /\ x <= b /\ b <= y /\ l \in Nat \ {0} /\ l <= b /\ n \in Nat /\ n = b + 1 - l
      /\ (Len(SEPARATORS[rank]) = 0 => b = x + 1)
  BY DEF PartIs
<1>2. Room \in Nat /\ Room >= 1 /\ setting.density \in Nat \ {0}
  BY RoomIs DEF Texted
<1>3. Fit(l, b)
  <2>1. hi \in Nat /\ hi <= Len(text) /\ Len(text) \in Nat
    BY WordsAre DEF Fit
  <2>2. b <= Len(text)
    BY <1>1, <2>1
  <2> QED
    BY <1>1, <2>2 DEF Fit
<1>4. Len(p) = n
  BY <1>1, StretchPiece
<1>5. CASE rank # 9 /\ countTokens(p) > PieceLimit
  <2>1. Added(d, rank = 9, deeper) = deeper[p]
    BY <1>1, <1>5 DEF Added
  <2> QED
    BY <1>3, <1>5, <2>1 DEF Splits
<1>6. CASE ~(rank # 9 /\ countTokens(p) > PieceLimit)
  <2>1. Added(d, rank = 9, deeper) = <<p>>
    BY <1>1, <1>6 DEF Added
  <2>2. n <= Room
    <3>1. CASE rank = 9
      <4>1. Len(SEPARATORS[rank]) = 0
        BY <3>1, Separators
      <4>2. b = x + 1
        BY <1>1, <4>1
      <4> QED
        BY <1>2, <4>2
    <3>2. CASE rank # 9
      <4>1. PieceLimit \in Nat
        BY LimitsAssumption
      <4>2. countTokens(p) = Ceiling(n, setting.density)
        BY <1>4, TokensAreCeiling
      <4> HIDE DEF p, n
      <4>3. Ceiling(n, setting.density) \in Nat
        BY <1>1, <1>2, CeilingIs
      <4>4. Ceiling(n, setting.density) <= PieceLimit
        BY <1>6, <3>2, <4>1, <4>2, <4>3
      <4> QED
        BY <1>1, <1>2, <4>1, <4>4, CeilingSums DEF Room
    <3> QED
      BY <3>1, <3>2
  <2>3. b + 1 - l <= Room
    BY <1>1, <2>2
  <2>4. AllWords \subseteq Nat
    BY WordsAre
  <2> HIDE DEF l
  <2>5. Tiles(<<Stretch(l, b)>>, l, b)
    BY <1>1, <1>2, <2>3, <2>4, TilesOne
  <2> QED
    BY <2>1, <2>5 DEF l
<1> QED
  BY <1>5, <1>6

LEMMA CollectTo ==
  ASSUME Texted, NEW rank \in 1..9, NEW lo, NEW hi, Fit(lo, hi), NEW deeper, rank # 9 => Splits(deeper),
         NEW q, NEW d, NEW x, NEW b, NEW y, NEW last, Follows(q, d, x, b, y, last, rank, lo, hi)
  PROVE  Tiles(CollectStep(q, d, rank = 9, deeper), lo, y)
<1> USE DEF Follows
<1> DEFINE new == CollectStep(q, d, rank = 9, deeper)
           r == Added(d, rank = 9, deeper)
           all == q \o r
<1>1. /\ x <= b /\ b <= y /\ d.part = Stretch(x + 1, b) /\ d.sep = Stretch(b + 1, y) /\ lo \in Nat \ {0} /\ lo <= x + 1
  BY DEF PartIs, Fit
<1>2. AllWords \subseteq Nat /\ \A w \in AllWords : ~(b < w /\ w <= y)
  BY WordsAre, NoWordsBehind
<1>3. d.part = <<>> <=> x = b
  <2> DEFINE l == x + 1
             n == b - x
  <2>1. l \in Nat \ {0} /\ n \in Nat /\ n = b + 1 - l /\ (n = 0 <=> x = b)
    BY <1>1
  <2> HIDE DEF l, n
  <2>2. Runs(Stretch(l, b), l, n)
    BY <2>1, StretchRuns
  <2>3. Stretch(l, b) = <<>> <=> n = 0
    BY <2>1, <2>2 DEF Runs
  <2>4. QED
    BY <1>1, <2>1, <2>3 DEF l
<1>4. new = IF d.part = <<>> THEN q ELSE IF all = <<>> THEN <<>> ELSE [all EXCEPT ![Len(all)] = @ \o d.sep]
  BY DEF CollectStep
<1> HIDE DEF new, r
<1>5. CASE x = b
  <2>1. new = q /\ x <= y
    BY <1>1, <1>3, <1>4, <1>5
  <2> QED
    BY <1>1, <1>2, <1>5, <2>1, TilesWider DEF new
<1>6. CASE x # b
  <2>1. x < b
    BY <1>1, <1>6
  <2>2. Tiles(all, lo, b)
    <3>1. Tiles(r, x + 1, b)
      BY <2>1, PartAdds DEF r
    <3> QED
      BY <1>1, <1>2, <3>1, TilesJoin
  <2>3. CASE all = <<>>
    <3>1. new = all
      BY <1>3, <1>4, <1>6, <2>3
    <3> HIDE DEF all
    <3>2. Tiles(all, lo, y)
      BY <1>1, <1>2, <2>2, TilesWider
    <3> QED
      BY <3>1, <3>2 DEF new
  <2>4. CASE all # <<>>
    <3> DEFINE sep == d.sep
    <3>1. new = [all EXCEPT ![Len(all)] = @ \o sep] /\ sep = Stretch(b + 1, y)
      BY <1>1, <1>3, <1>4, <1>6, <2>4
    <3> HIDE DEF all, sep
    <3>2. Len(all) # 0
      BY <2>2, <2>4 DEF Tiles, PieceLists
    <3>3. Grows(new, all, lo, b, y, sep)
      BY <1>1, <1>2, <2>2, <3>1, <3>2 DEF Grows
    <3> QED
      BY <3>3, TilesGrow DEF new
  <2> QED
    BY <2>3, <2>4
<1> QED
  BY <1>5, <1>6

LEMMA CollectedTiles ==
  ASSUME Texted, NEW rank \in 1..9, NEW lo, NEW hi, Fit(lo, hi),
         NEW parts, NEW e, NEW b, PartsAre(parts, e, b, lo, hi, SEPARATORS[rank]),
         NEW deeper, rank # 9 => deeper \in Splitter /\ Splits(deeper)
  PROVE  Tiles(Collected(parts, rank = 9, deeper), lo, hi)
<1> DEFINE n == Len(parts)
           sep == SEPARATORS[rank]
<1>1. lo \in Nat \ {0} /\ hi \in Nat /\ lo <= hi
  BY DEF Fit
<1>2. /\ n \in Nat /\ \A k \in 1..n : /\ e[k] \in Nat /\ e[k - 1] \in Nat /\ b[k] \in Nat /\ lo - 1 <= e[k - 1]
                                      /\ e[k - 1] <= b[k] /\ b[k] <= e[k] /\ e[k] <= hi
  BY <1>1, PartsOrdered
<1>3. /\ parts \in Seq(Part) /\ n >= 1 /\ e[0] = lo - 1 /\ e[n] = hi
      /\ \A k \in 1..n : PartIs(parts[k], e[k - 1], b[k], e[k], sep, k = n)
  BY DEF PartsAre
<1>4. PICK u \in [0..n -> PieceLists] : Collects(u, parts, rank = 9, deeper)
  BY <1>3, CollectedUnfolds
<1>5. /\ u[0] = <<>> /\ \A k \in 1..n : u[k] = CollectStep(u[k - 1], parts[k], rank = 9, deeper)
      /\ Collected(parts, rank = 9, deeper) = Keep(u[n], {k \in DOMAIN u[n] : Dark(u[n][k]) # {}})
  BY <1>4 DEF Collects
<1> HIDE DEF n, sep
<1>6. ASSUME NEW k \in 1..n, Tiles(u[k - 1], lo, e[k - 1]) PROVE Tiles(u[k], lo, e[k])
  <2> DEFINE last == k = n
             x == e[k - 1]
             y == e[k]
             c == b[k]
             d == parts[k]
             q == u[k - 1]
  <2>1. Follows(q, d, x, c, y, last, rank, lo, hi)
    BY <1>2, <1>3, <1>6 DEF sep, Follows
  <2>2. u[k] = CollectStep(q, d, rank = 9, deeper)
    BY <1>5
  <2> HIDE DEF last, x, y, c, d, q
  <2>3. Tiles(CollectStep(q, d, rank = 9, deeper), lo, y)
    BY <2>1, CollectTo
  <2>4. QED
    BY <2>2, <2>3 DEF y
<1> DEFINE T == {k \in Nat : k <= n => Tiles(u[k], lo, e[k])}
<1>7. 0 \in T
  <2>1. Tiles(<<>>, lo, lo - 1)
    BY <1>1, WordsAre, TilesNone
  <2>2. QED
    BY <1>3, <1>5, <2>1
<1>8. ASSUME NEW k \in Nat, k \in T PROVE k + 1 \in T
  <2> SUFFICES ASSUME k + 1 <= n PROVE Tiles(u[k + 1], lo, e[k + 1])
    OBVIOUS
  <2> DEFINE j == k + 1
  <2>1. j \in 1..n /\ j - 1 = k /\ Tiles(u[k], lo, e[k])
    BY <1>2, <1>8
  <2> HIDE DEF j
  <2>2. Tiles(u[j], lo, e[j])
    BY <1>6, <2>1
  <2>3. QED
    BY <2>2 DEF j
<1> HIDE DEF T
<1>9. Nat \subseteq T
  BY <1>7, <1>8, Counting
<1> DEFINE q == u[n]
           kept == {k \in DOMAIN q : Dark(q[k]) # {}}
<1>10. Tiles(q, lo, hi)
  BY <1>2, <1>3, <1>9 DEF T
<1>11. kept = {k \in DOMAIN q : Dark(q[k]) # {}}
  OBVIOUS
<1>12. Collected(parts, rank = 9, deeper) = Keep(q, kept)
  BY <1>5
<1> HIDE DEF q, kept
<1>13. Tiles(Keep(q, kept), lo, hi)
  BY <1>10, <1>11, TilesKeep
<1> QED
  BY <1>12, <1>13

LEMMA SplitAtTiles ==
  ASSUME Texted, NEW rank \in 1..9, NEW deeper, rank # 9 => deeper \in Splitter /\ Splits(deeper)
  PROVE  Splits(SplitAt(rank, deeper))
<1> SUFFICES ASSUME NEW lo, NEW hi, Fit(lo, hi)
             PROVE  Tiles(SplitAt(rank, deeper)[Stretch(lo, hi)], lo, hi)
  BY DEF Splits
<1> DEFINE ps == Stretch(lo, hi)
           sep == SEPARATORS[rank]
           parts == Parts(ps, sep)
<1>1. /\ lo \in Nat \ {0} /\ hi \in Nat /\ lo <= hi /\ hi <= Len(text) /\ text \in Seq(Character)
      /\ sep \in Seq(Character)
  BY Separators DEF Fit, Texted
<1>2. ps \in Seq(Nat)
  BY <1>1, StretchPiece
<1>3. SplitAt(rank, deeper)[ps] = IF Len(parts) = 1 /\ ~(rank = 9) THEN deeper[ps] ELSE Collected(parts, rank = 9, deeper)
  BY <1>2 DEF SplitAt
<1>4. PICK e, b : PartsAre(parts, e, b, lo, hi, sep)
  BY <1>1, PartsOfStretch
<1> HIDE DEF ps, parts
<1>5. CASE Len(parts) = 1 /\ rank # 9
  BY <1>3, <1>5 DEF Splits, ps
<1>6. CASE ~(Len(parts) = 1 /\ rank # 9)
  <2>1. Tiles(Collected(parts, rank = 9, deeper), lo, hi)
    BY <1>4, CollectedTiles
  <2>2. QED
    BY <1>3, <1>6, <2>1 DEF ps
<1>7. QED
  BY <1>5, <1>6

LEMMA recursiveSplitTiles ==
  ASSUME Texted
  PROVE  Splits(recursiveSplit[1])
<1> DEFINE T == {k \in Nat : k <= 8 => Splits(recursiveSplit[9 - k])}
<1>1. 0 \in T
  <2> DEFINE none == <<>>
             nine == 9
  <2>1. recursiveSplit[nine] = SplitAt(nine, none) /\ nine \in 1..9 /\ nine = 9 /\ 9 - 0 = nine
    BY SplitUnfolds
  <2> HIDE DEF none, nine
  <2>2. Splits(SplitAt(nine, none))
    BY <2>1, SplitAtTiles
  <2>3. QED
    BY <2>1, <2>2
<1>2. ASSUME NEW k \in Nat, k \in T PROVE k + 1 \in T
  <2> SUFFICES ASSUME k + 1 <= 8 PROVE Splits(recursiveSplit[9 - (k + 1)])
    OBVIOUS
  <2> DEFINE rank == 9 - (k + 1)
             deeper == recursiveSplit[rank + 1]
  <2>1. rank \in 1..8 /\ rank \in 1..9 /\ rank + 1 = 9 - k /\ k <= 8
    OBVIOUS
  <2>2. Splits(deeper)
    BY <1>2, <2>1
  <2> HIDE DEF rank
  <2>3. deeper \in Splitter /\ recursiveSplit[rank] = SplitAt(rank, deeper)
    BY <2>1, SplitUnfolds
  <2> HIDE DEF deeper
  <2>4. Splits(SplitAt(rank, deeper))
    BY <2>1, <2>2, <2>3, SplitAtTiles
  <2> QED
    BY <2>3, <2>4 DEF rank
<1> HIDE DEF T
<1>3. Nat \subseteq T
  BY <1>1, <1>2, Counting
<1>4. 8 \in T /\ 9 - 8 = 1
  BY <1>3
<1> QED
  BY <1>4 DEF T

(* The pieces of a text that is not empty.                                 *)
LEMMA PiecesTile ==
  ASSUME Texted, text # <<>>
  PROVE  Tiles(recursiveSplit[1][Positions], 1, Len(text))
<1>1. Len(text) \in Nat /\ 1 <= Len(text) /\ DOMAIN text = 1..Len(text)
  BY DEF Texted
<1>2. Positions = Stretch(1, Len(text))
  <2>1. Len(text) + 1 - 1 = Len(text) /\ \A i \in 1..Len(text) : 1 + i - 1 = i
    BY <1>1
  <2>2. QED
    BY <1>1, <2>1 DEF Positions, Stretch
<1>3. Fit(1, Len(text))
  BY <1>1 DEF Fit
<1> QED
  BY <1>2, <1>3, recursiveSplitTiles DEF Splits

-----------------------------------------------------------------------------
(* Slices.                                                                 *)

(* Where the k-th slice of n ends, of len.                                 *)
CutOff(k, n, len) == IF k * n < len THEN k * n ELSE len

(* The slices follow each other, and none is longer than n.                *)
CutsOff(n, len) ==
  /\ Ceiling(len, n) \in Nat /\ CutOff(0, n, len) = 0 /\ CutOff(Ceiling(len, n), n, len) = len
  /\ \A k \in Nat : CutOff(k, n, len) \in Nat /\ CutOff(k, n, len) <= len
  /\ \A k \in 1..Ceiling(len, n) :
       /\ CutOff(k - 1, n, len) = (k - 1) * n
       /\ CutOff(k, n, len) = (IF (k - 1) * n + n < len THEN (k - 1) * n + n ELSE len)
       /\ CutOff(k - 1, n, len) < CutOff(k, n, len) /\ CutOff(k, n, len) <= CutOff(k - 1, n, len) + n

LEMMA CutOffs ==
  ASSUME NEW n \in Nat \ {0}, NEW len \in Nat
  PROVE  CutsOff(n, len)
<1>1. Ceiling(len, n) \in Nat /\ len <= n * Ceiling(len, n) /\ \A t \in Nat : len <= n * t => Ceiling(len, n) <= t
  BY CeilingIs
<1>2. CutOff(0, n, len) = 0
  <2>1. 0 * n = 0
    OBVIOUS
  <2> QED
    BY <2>1 DEF CutOff
<1>3. CutOff(Ceiling(len, n), n, len) = len
  <2> DEFINE m == Ceiling(len, n)
  <2>1. m \in Nat /\ len <= n * m
    BY <1>1
  <2> HIDE DEF m
  <2>2. m * n = n * m /\ m * n \in Nat
    BY <2>1
  <2>3. CutOff(m, n, len) = len
    BY <2>1, <2>2 DEF CutOff
  <2> QED
    BY <2>3 DEF m
<1>4. \A k \in Nat : k * n \in Nat /\ CutOff(k, n, len) \in Nat /\ CutOff(k, n, len) <= len
  <2> TAKE k \in Nat
  <2> DEFINE y == k * n
  <2>1. y \in Nat
    OBVIOUS
  <2>2. CutOff(k, n, len) = IF y < len THEN y ELSE len
    BY DEF CutOff
  <2> HIDE DEF y
  <2>3. CutOff(k, n, len) \in Nat /\ CutOff(k, n, len) <= len
    BY <2>1, <2>2
  <2> QED
    BY <2>1, <2>3 DEF y
<1>5. ASSUME NEW k \in 1..Ceiling(len, n)
      PROVE  /\ CutOff(k - 1, n, len) = (k - 1) * n
             /\ CutOff(k, n, len) = (IF (k - 1) * n + n < len THEN (k - 1) * n + n ELSE len)
             /\ CutOff(k - 1, n, len) < CutOff(k, n, len) /\ CutOff(k, n, len) <= CutOff(k - 1, n, len) + n
  <2> DEFINE j == k - 1
             m == Ceiling(len, n)
             y == j * n
             z == k * n
  <2>1. j \in Nat /\ k \in Nat /\ m \in Nat /\ j < m /\ k = j + 1
    BY <1>1
  <2>2. z = y + n /\ y \in Nat /\ z \in Nat /\ n * j = y
    <3> HIDE DEF j
    <3>1. (j + 1) * n = j * n + n /\ j * n \in Nat /\ n * j = j * n
      BY <2>1
    <3> QED
      BY <2>1, <3>1
  <2>3. y < len
    <3>1. len <= n * j => m <= j
      BY <1>1, <2>1
    <3> HIDE DEF j, m, y
    <3> QED
      BY <2>1, <2>2, <3>1
  <2>4. CutOff(k - 1, n, len) = (IF y < len THEN y ELSE len) /\ CutOff(k, n, len) = IF z < len THEN z ELSE len
    BY DEF CutOff
  <2>5. (k - 1) * n = y
    OBVIOUS
  <2> HIDE DEF j, m, y, z
  <2>6. CutOff(k - 1, n, len) = y /\ CutOff(k, n, len) = IF y + n < len THEN y + n ELSE len
    BY <2>2, <2>3, <2>4
  <2>7. y < CutOff(k, n, len) /\ CutOff(k, n, len) <= y + n
    BY <2>2, <2>3, <2>6
  <2> QED
    BY <2>3, <2>5, <2>6, <2>7
<1> QED
  BY <1>1, <1>2, <1>3, <1>4, <1>5 DEF CutsOff

(* r is slice k of s.                                                      *)
SliceOf(r, s, k, n) == r = SubSeq(s, CutOff(k - 1, n, Len(s)) + 1, CutOff(k, n, Len(s)))

LEMMA SlicesAre ==
  ASSUME NEW S, NEW s \in Seq(S), NEW n \in Nat \ {0}
  PROVE  /\ Len(Slices(s, n)) = Ceiling(Len(s), n) /\ DOMAIN Slices(s, n) = 1..Ceiling(Len(s), n)
         /\ \A k \in 1..Ceiling(Len(s), n) : SliceOf(Slices(s, n)[k], s, k, n)
<1>2. /\ Ceiling(Len(s), n) \in Nat
      /\ \A k \in 1..Ceiling(Len(s), n) :
              /\ CutOff(k - 1, n, Len(s)) = (k - 1) * n
              /\ CutOff(k, n, Len(s)) = (IF (k - 1) * n + n < Len(s) THEN (k - 1) * n + n ELSE Len(s))
  <2> DEFINE len == Len(s)
  <2>1. len \in Nat
    OBVIOUS
  <2> HIDE DEF len
  <2>2. CutsOff(n, len)
    BY <2>1, CutOffs
  <2> QED
    BY <2>2, Zenon DEF len, CutsOff
<1>3. Slices(s, n) = [k \in 1..Ceiling(Len(s), n) |-> Slice(s, (k - 1) * n, n)]
  BY DEF Slices, Ceiling
<1>4. \A x \in 1..Ceiling(Len(s), n) : Slices(s, n)[x] = Slice(s, (x - 1) * n, n)
  BY <1>3
<1>5. ASSUME NEW k \in 1..Ceiling(Len(s), n)
      PROVE  SliceOf(Slices(s, n)[k], s, k, n)
  <2>1. Slices(s, n)[k] = Slice(s, (k - 1) * n, n)
    BY <1>4
  <2>2. Slice(s, (k - 1) * n, n) =
          SubSeq(s, (k - 1) * n + 1, IF (k - 1) * n + n < Len(s) THEN (k - 1) * n + n ELSE Len(s))
    BY DEF Slice
  <2> QED
    BY <1>2, <2>1, <2>2 DEF SliceOf
<1>6. Len(Slices(s, n)) = Ceiling(Len(s), n) /\ DOMAIN Slices(s, n) = 1..Ceiling(Len(s), n)
  <2> DEFINE m == Ceiling(Len(s), n)
             f == Slices(s, n)
  <2>1. m \in Nat /\ DOMAIN f = 1..m
    BY <1>2, <1>3
  <2>2. f = [k \in 1..m |-> f[k]]
    BY <1>3, <1>4
  <2> HIDE DEF m, f
  <2>3. Len(f) = m
    BY <2>1, <2>2
  <2> QED
    BY <2>1, <2>3 DEF m, f
<1> QED
  BY <1>5, <1>6

(* What the answers embedMany has so far are, and what the next adds.      *)
Embeddings(S) == {Embedding(content) : content \in S}

EmbedStep(q, slice) == q \o [j \in DOMAIN slice |-> Embedding(slice[j])]

Embedded(q, texts, n, S) ==
  q \in Seq(Embeddings(S)) /\ Len(q) = n /\ \A j \in 1..n : q[j] = Embedding(texts[j])

LEMMA EmbedStepType ==
  ASSUME NEW S, NEW slice \in Seq(S), NEW q \in Seq(Embeddings(S))
  PROVE  /\ EmbedStep(q, slice) \in Seq(Embeddings(S)) /\ Len(EmbedStep(q, slice)) = Len(q) + Len(slice)
         /\ \A j \in 1..Len(q) : EmbedStep(q, slice)[j] = q[j]
         /\ \A j \in 1..Len(slice) : EmbedStep(q, slice)[Len(q) + j] = Embedding(slice[j])
<1> DEFINE E == Embeddings(S)
           t == [j \in DOMAIN slice |-> Embedding(slice[j])]
           n == Len(slice)
<1>1. n \in Nat /\ DOMAIN slice = 1..n /\ \A j \in 1..n : slice[j] \in S
  OBVIOUS
<1>2. \A j \in 1..n : Embedding(slice[j]) \in E
  BY <1>1 DEF Embeddings
<1>3. t = [j \in 1..n |-> Embedding(slice[j])]
  BY <1>1
<1>4. \A j \in 1..n : t[j] = Embedding(slice[j])
  BY <1>3
<1> HIDE DEF n, E
<1>5. t \in Seq(E) /\ Len(t) = n
  BY <1>1, <1>2, <1>3
<1>6. EmbedStep(q, slice) = q \o t
  BY DEF EmbedStep
<1> HIDE DEF t
<1>7. q \in Seq(E)
  BY DEF E
<1>8. /\ q \o t \in Seq(E) /\ Len(q \o t) = Len(q) + n /\ \A j \in 1..Len(q) : (q \o t)[j] = q[j]
      /\ \A j \in 1..n : (q \o t)[Len(q) + j] = t[j]
  BY <1>1, <1>5, <1>7
<1> QED
  BY <1>4, <1>6, <1>8 DEF E, n

LEMMA EmbedStepIs ==
  \A S, slice, q : slice \in Seq(S) /\ q \in Seq(Embeddings(S)) =>
    /\ EmbedStep(q, slice) \in Seq(Embeddings(S)) /\ Len(EmbedStep(q, slice)) = Len(q) + Len(slice)
    /\ \A j \in 1..Len(q) : EmbedStep(q, slice)[j] = q[j]
    /\ \A j \in 1..Len(slice) : EmbedStep(q, slice)[Len(q) + j] = Embedding(slice[j])
BY EmbedStepType, ZenonT(40)

LEMMA EmbedStepTo ==
  ASSUME NEW S, NEW texts \in Seq(S), NEW x \in Nat, NEW y \in Nat, x <= y, y <= Len(texts),
         NEW q, Embedded(q, texts, x, S)
  PROVE  Embedded(EmbedStep(q, SubSeq(texts, x + 1, y)), texts, y, S)
<1> DEFINE slice == SubSeq(texts, x + 1, y)
           r == EmbedStep(q, slice)
<1>1. slice \in Seq(S) /\ Len(slice) = y - x /\ \A j \in 1..(y - x) : slice[j] = texts[x + j]
  OBVIOUS
<1>2. q \in Seq(Embeddings(S)) /\ Len(q) = x /\ \A j \in 1..x : q[j] = Embedding(texts[j])
  BY DEF Embedded
<1> HIDE DEF slice
<1>3. /\ r \in Seq(Embeddings(S)) /\ Len(r) = x + Len(slice) /\ \A j \in 1..x : r[j] = q[j]
      /\ \A j \in 1..Len(slice) : r[x + j] = Embedding(slice[j])
  <2>1. /\ r \in Seq(Embeddings(S)) /\ Len(r) = Len(q) + Len(slice) /\ \A j \in 1..Len(q) : r[j] = q[j]
        /\ \A j \in 1..Len(slice) : r[Len(q) + j] = Embedding(slice[j])
    <3>1. slice \in Seq(S) /\ q \in Seq(Embeddings(S))
      BY <1>1, <1>2
    <3> QED
      BY <3>1, EmbedStepIs
  <2> HIDE DEF r
  <2> QED
    BY <1>2, <2>1
<1> HIDE DEF r
<1>4. ASSUME NEW j \in 1..y PROVE r[j] = Embedding(texts[j])
  <2>1. CASE j <= x
    BY <1>2, <1>3, <2>1
  <2>2. CASE j > x
    <3>1. j - x \in 1..(y - x) /\ x + (j - x) = j
      BY <2>2
    <3>2. r[x + (j - x)] = Embedding(slice[j - x]) /\ slice[j - x] = texts[x + (j - x)]
      BY <1>1, <1>3, <3>1
    <3> QED
      BY <3>1, <3>2
  <2> QED
    BY <2>1, <2>2
<1>5. Len(r) = y
  BY <1>1, <1>3
<1> QED
  BY <1>3, <1>4, <1>5 DEF Embedded, r, slice

(* embedMany embeds each text.                                             *)
LEMMA embedManyEmbeds ==
  ASSUME NEW S, NEW texts \in Seq(S)
  PROVE  Embedded(embedMany(texts), texts, Len(texts), S)
<1> DEFINE E == Seq(Embeddings(S))
           slices == Slices(texts, ApiBatch)
           n == Len(slices)
           len == Len(texts)
           none == <<>>
           step == [e \in (1..n) \X E |-> EmbedStep(e[2], slices[e[1]])]
           out == CHOOSE out : out = [k \in 0..n |-> IF k = 0 THEN none ELSE EmbedStep(out[k - 1], slices[k])]
           Off(k) == CutOff(k, ApiBatch, len)
<1>1. len \in Nat /\ ApiBatch \in Nat \ {0}
  BY LimitsAssumption
<1>2. n = Ceiling(len, ApiBatch) /\ \A k \in 1..Ceiling(len, ApiBatch) : SliceOf(slices[k], texts, k, ApiBatch)
  BY <1>1, SlicesAre
<1>3. embedMany(texts) = out[n]
  BY DEF embedMany, EmbedStep
<1> HIDE DEF slices
<1>4. \A k \in 1..n : slices[k] = SubSeq(texts, Off(k - 1) + 1, Off(k))
  BY <1>2 DEF SliceOf
<1> HIDE DEF n, len
<1>5. /\ n \in Nat /\ Off(0) = 0 /\ Off(n) = len /\ \A k \in Nat : Off(k) \in Nat /\ Off(k) <= len
      /\ \A k \in 1..n : Off(k - 1) < Off(k)
  <2>1. CutsOff(ApiBatch, len)
    BY <1>1, CutOffs
  <2> QED
    BY <1>2, <2>1, Zenon DEF CutsOff
<1> HIDE DEF Off
<1>6. none \in E /\ none = <<>>
  OBVIOUS
<1>7. ASSUME NEW k \in 1..n PROVE slices[k] \in Seq(S) /\ k \in Nat /\ k - 1 \in Nat
  <2>1. k - 1 \in Nat /\ k \in Nat
    BY <1>5
  <2>2. Off(k - 1) \in Nat /\ Off(k) \in Nat /\ Off(k) <= Len(texts)
    BY <1>5, <2>1 DEF len
  <2>3. SubSeq(texts, Off(k - 1) + 1, Off(k)) \in Seq(S)
    BY <2>2
  <2> QED
    BY <1>4, <2>1, <2>3
<1>8. \A k \in 1..n, b \in E : EmbedStep(b, slices[k]) \in E
  BY <1>7, EmbedStepType
<1>9. step \in [(1..n) \X E -> E]
  BY <1>8
<1>10. \A k \in 1..n, b \in E : step[<<k, b>>] = EmbedStep(b, slices[k])
  OBVIOUS
<1> HIDE DEF step, none, E
<1>11. PICK g \in [0..n -> E] : Steps(g, n, none, step)
  BY <1>5, <1>6, <1>9, Recursive
<1>12. g[0] = none /\ \A k \in 1..n : g[k - 1] \in E /\ g[k] = EmbedStep(g[k - 1], slices[k])
  <2>1. \A k \in 1..n : k - 1 \in 0..n
    BY <1>5
  <2> QED
    BY <1>10, <1>11, <2>1 DEF Steps
<1>13. g = [k \in 0..n |-> IF k = 0 THEN none ELSE EmbedStep(g[k - 1], slices[k])]
  <2>1. \A k \in 0..n : k = 0 \/ k \in 1..n
    BY <1>5
  <2> QED
    BY <1>11, <1>12, <2>1
<1>14. out = [k \in 0..n |-> IF k = 0 THEN none ELSE EmbedStep(out[k - 1], slices[k])]
  BY <1>13
<1> HIDE DEF out
<1>15. out[0] = none /\ \A k \in 1..n : out[k] = EmbedStep(out[k - 1], slices[k])
  <2>1. 0 \in 0..n /\ \A k \in 1..n : k \in 0..n /\ k # 0
    BY <1>5
  <2> QED
    BY <1>14, <2>1
<1>16. Embedded(out[n], texts, len, S)
  <2> DEFINE T == {k \in Nat : k <= n => Embedded(out[k], texts, Off(k), S)}
  <2>1. 0 \in T
    <3>1. out[0] \in Seq(Embeddings(S)) /\ Len(out[0]) = 0 /\ 1..0 = {}
      BY <1>6, <1>15 DEF E
    <3>2. Embedded(out[0], texts, 0, S)
      BY <3>1 DEF Embedded
    <3> QED
      BY <1>5, <3>2
  <2>2. ASSUME NEW k \in Nat, k \in T PROVE k + 1 \in T
    <3> SUFFICES ASSUME k + 1 <= n PROVE Embedded(out[k + 1], texts, Off(k + 1), S)
      OBVIOUS
    <3>1. k + 1 \in 1..n /\ (k + 1) - 1 = k /\ k <= n
      BY <1>5
    <3>2. Embedded(out[k], texts, Off(k), S)
      BY <2>2, <3>1
    <3> DEFINE x == Off(k)
               y == Off(k + 1)
               q == out[k]
    <3>3. x \in Nat /\ y \in Nat /\ y <= Len(texts) /\ x <= y
      <4>1. /\ k + 1 \in Nat /\ Off(k) \in Nat /\ Off(k + 1) \in Nat /\ Off(k + 1) <= len
            /\ Off((k + 1) - 1) < Off(k + 1)
        <5> DEFINE z == k + 1
        <5>1. z \in 1..n /\ z \in Nat
          BY <3>1
        <5> HIDE DEF z
        <5>2. Off(z) \in Nat /\ Off(z) <= len /\ Off(z - 1) < Off(z) /\ Off(k) \in Nat
          BY <1>5, <5>1
        <5>3. QED
          BY <5>1, <5>2 DEF z
      <4>2. Off(k) < Off(k + 1)
        BY <3>1, <4>1
      <4> HIDE DEF x, y, q
      <4>3. x \in Nat /\ y \in Nat /\ y <= len /\ x < y
        BY <4>1, <4>2 DEF x, y
      <4>4. QED
        BY <4>3 DEF len
    <3>4. out[k + 1] = EmbedStep(q, SubSeq(texts, x + 1, y))
      BY <1>4, <1>15, <3>1
    <3> HIDE DEF x, y, q
    <3>5. Embedded(EmbedStep(q, SubSeq(texts, x + 1, y)), texts, y, S)
      BY <3>2, <3>3, EmbedStepTo DEF x, q
    <3> QED
      BY <3>4, <3>5 DEF y
  <2> HIDE DEF T
  <2>3. Nat \subseteq T
    BY <2>1, <2>2, Counting
  <2> QED
    BY <1>5, <2>3 DEF T
<1> QED
  BY <1>3, <1>16 DEF len

-----------------------------------------------------------------------------
(* What chunks tell of a document d: its words, where it ends, the sizes   *)
(* set for it, and the pieces it was split into.                           *)

AnyChunk == [strange : Nat, own : Seq(Nat)]

TokensIn(c, d) == c.strange + Ceiling(Len(c.own), d.density)

WordsIn(c, d) == {p \in d.words : \E i \in DOMAIN c.own : c.own[i] = p}

Between(x, y, d) == {p \in d.words : x <= p /\ p <= y}

(* The pieces q have the words from lo on.                                 *)
Covers(q, lo, d) ==
  /\ q \in PieceLists
  /\ \A k \in 1..Len(q) : PieceIn(q[k], lo, d.end, d.words, d.room)
  /\ \A j, k \in 1..Len(q) : j < k => To(q[j]) < From(q[k])
  /\ \A p \in d.words : lo <= p => \E k \in 1..Len(q) : From(q[k]) <= p /\ p <= To(q[k])

Proper(d) ==
  /\ d.end \in Nat /\ d.words \subseteq 1..d.end /\ d.size \in Nat /\ d.overlap \in Nat /\ d.overlap < d.size
  /\ d.density \in Nat \ {0} /\ d.room \in Nat /\ Covers(d.pieces, 1, d)

(* What the first k chunks tell, and the k-th of them: the words from x to *)
(* y, with those before it all up to y.                                    *)
Told(list, k, d) == {p \in d.words : \E h \in 1..k : p \in WordsIn(list[h], d)}

Tells(list, k, x, y, d) ==
  /\ x \in Nat \ {0} /\ y \in Nat
  /\ WordsIn(list[k], d) = Between(x, y, d) /\ Told(list, k, d) = Between(1, y, d)

TellUpTo(list, n, y, d) ==
  /\ n \in Nat /\ y \in Nat /\ Told(list, n, d) = Between(1, y, d)
  /\ \A k \in 1..n : \E a, b : Tells(list, k, a, b, d)

LEMMA TellsSame ==
  ASSUME NEW d, NEW s, NEW t, NEW n \in Nat, NEW y, TellUpTo(s, n, y, d),
         \A k \in 1..n : WordsIn(s[k], d) = WordsIn(t[k], d)
  PROVE  TellUpTo(t, n, y, d)
<1>1. ASSUME NEW k \in 0..n PROVE Told(t, k, d) = Told(s, k, d)
  <2>1. \A h \in 1..k : h \in 1..n
    OBVIOUS
  <2> QED
    BY <2>1 DEF Told
<1>2. Told(t, n, d) = Between(1, y, d) /\ y \in Nat
  BY <1>1 DEF TellUpTo
<1>3. ASSUME NEW k \in 1..n PROVE \E a, b : Tells(t, k, a, b, d)
  <2>1. PICK a, b : Tells(s, k, a, b, d)
    BY DEF TellUpTo
  <2>2. k \in 0..n
    OBVIOUS
  <2>3. Tells(t, k, a, b, d)
    BY <1>1, <2>1, <2>2 DEF Tells
  <2> QED
    BY <2>3
<1> QED
  BY <1>2, <1>3 DEF TellUpTo

(* The next begins no later than where those before it end.                *)
GoesOn(t, n, y, a, b, d) ==
  /\ n \in Nat /\ y \in Nat /\ TellUpTo(t, n, y, d)
  /\ a \in Nat \ {0} /\ b \in Nat /\ a <= y + 1 /\ y <= b
  /\ WordsIn(t[n + 1], d) = Between(a, b, d)

LEMMA TellsMore ==
  ASSUME NEW d, Proper(d), NEW t, NEW n, NEW y, NEW a, NEW b, GoesOn(t, n, y, a, b, d)
  PROVE  TellUpTo(t, n + 1, b, d)
<1> USE DEF GoesOn
<1>1. \A p \in d.words : p \in Nat /\ p >= 1
  BY DEF Proper
<1>2. Told(t, n + 1, d) = Told(t, n, d) \cup Between(a, b, d)
  <2>1. 1..(n + 1) = (1..n) \cup {n + 1}
    OBVIOUS
  <2>2. WordsIn(t[n + 1], d) \subseteq d.words
    BY DEF WordsIn
  <2> QED
    BY <2>1, <2>2 DEF Told
<1>3. Told(t, n, d) = Between(1, y, d)
  BY DEF TellUpTo
<1>4. Between(1, y, d) \cup Between(a, b, d) = Between(1, b, d)
  BY <1>1 DEF Between
<1>5. Tells(t, n + 1, a, b, d)
  BY <1>2, <1>3, <1>4 DEF Tells
<1>6. ASSUME NEW k \in 1..(n + 1) PROVE \E x, z : Tells(t, k, x, z, d)
  <2>1. CASE k = n + 1
    BY <1>5, <2>1
  <2>2. CASE k # n + 1
    <3>1. k \in 1..n
      BY <2>2
    <3> QED
      BY <3>1 DEF TellUpTo
  <2> QED
    BY <2>1, <2>2
<1> QED
  BY <1>2, <1>3, <1>4, <1>6 DEF TellUpTo

(* What is told up to y is told up to z when no word is between.           *)
LEMMA TellsFurther ==
  ASSUME NEW d, Proper(d), NEW t, NEW n \in Nat, NEW y \in Nat, TellUpTo(t, n, y, d),
         NEW z \in Nat, y <= z, \A p \in d.words : ~(y < p /\ p <= z)
  PROVE  TellUpTo(t, n, z, d)
<1>1. \A p \in d.words : p \in Nat /\ p >= 1
  BY DEF Proper
<1>2. Between(1, y, d) = Between(1, z, d)
  BY <1>1 DEF Between
<1> QED
  BY <1>2 DEF TellUpTo

-----------------------------------------------------------------------------
(* The words and the tokens of what is put together.                       *)

LEMMA PieceWords ==
  ASSUME NEW d, NEW c, NEW lo, NEW hi, PieceIn(c.own, lo, hi, d.words, d.room)
  PROVE  WordsIn(c, d) = Between(From(c.own), To(c.own), d)
<1> DEFINE p == c.own
           n == Len(p)
<1>1. DOMAIN p = 1..n /\ \A i \in 1..n : From(p) <= p[i] /\ p[i] <= To(p)
  BY PieceOrder
<1>2. \A w \in d.words : From(p) <= w /\ w <= To(p) => \E i \in 1..n : p[i] = w
  BY DEF PieceIn
<1> HIDE DEF n, p, From, To
<1>3. ASSUME NEW x \in d.words PROVE (\E i \in DOMAIN p : p[i] = x) <=> From(p) <= x /\ x <= To(p)
  BY <1>1, <1>2
<1> QED
  BY <1>3 DEF WordsIn, Between, p

(* own and then p.                                                         *)
Joined(c, p) == [c EXCEPT !.own = @ \o p]

LEMMA JoinedWords ==
  ASSUME NEW d, NEW c \in AnyChunk, NEW p \in Seq(Nat)
  PROVE  /\ Joined(c, p) \in AnyChunk /\ Joined(c, p).strange = c.strange
         /\ Joined(c, p).own = c.own \o p /\ Len(Joined(c, p).own) = Len(c.own) + Len(p)
         /\ WordsIn(Joined(c, p), d) = WordsIn(c, d) \cup WordsIn([strange |-> 0, own |-> p], d)
<1> DEFINE s == c.own
           t == s \o p
<1>1. c.strange \in Nat /\ s \in Seq(Nat)
  BY DEF AnyChunk
<1>2. Joined(c, p) = [strange |-> c.strange, own |-> t]
  <2>1. c = [strange |-> c.strange, own |-> s]
    BY DEF AnyChunk
  <2>2. \A n, a, b : [[strange |-> n, own |-> a] EXCEPT !.own = b] = [strange |-> n, own |-> b]
    OBVIOUS
  <2>3. Joined(c, p) = [c EXCEPT !.own = t]
    BY DEF Joined
  <2> HIDE DEF s, t
  <2> QED
    BY <2>1, <2>2, <2>3
<1> HIDE DEF s
<1>3. t \in Seq(Nat) /\ Len(t) = Len(s) + Len(p)
  BY <1>1
<1>4. \A x : (\E i \in DOMAIN t : t[i] = x) <=> (\E i \in DOMAIN s : s[i] = x) \/ (\E i \in DOMAIN p : p[i] = x)
  <2>1. DOMAIN t = 1..(Len(s) + Len(p)) /\ DOMAIN s = 1..Len(s) /\ DOMAIN p = 1..Len(p) /\ Len(s) \in Nat /\ Len(p) \in Nat
    BY <1>1
  <2>2. \A i \in 1..(Len(s) + Len(p)) : t[i] = IF i <= Len(s) THEN s[i] ELSE p[i - Len(s)]
    BY <1>1
  <2>3. \A i \in 1..(Len(s) + Len(p)) : IF i <= Len(s) THEN i \in 1..Len(s) ELSE i - Len(s) \in 1..Len(p)
    BY <2>1
  <2>4. \A i \in 1..Len(s) : i \in 1..(Len(s) + Len(p)) /\ i <= Len(s)
    BY <2>1
  <2>5. \A i \in 1..Len(p) : Len(s) + i \in 1..(Len(s) + Len(p)) /\ ~(Len(s) + i <= Len(s)) /\ (Len(s) + i) - Len(s) = i
    BY <2>1
  <2> HIDE DEF t
  <2>6. \A i \in 1..Len(p) : t[Len(s) + i] = p[i]
    BY <2>2, <2>5
  <2>7. \A i \in 1..Len(s) : t[i] = s[i]
    BY <2>2, <2>4
  <2> DEFINE a == Len(s)
             b == Len(p)
  <2>8. /\ DOMAIN t = 1..(a + b) /\ DOMAIN s = 1..a /\ DOMAIN p = 1..b
        /\ \A i \in 1..(a + b) : i \in 1..a \/ (i - a \in 1..b /\ t[i] = p[i - a])
    BY <2>1, <2>2, <2>3
  <2>9. /\ \A i \in 1..a : i \in 1..(a + b) /\ t[i] = s[i]
        /\ \A i \in 1..b : a + i \in 1..(a + b) /\ t[a + i] = p[i]
    BY <2>4, <2>5, <2>6, <2>7
  <2> HIDE DEF a, b
  <2>10. ASSUME NEW x PROVE (\E i \in DOMAIN t : t[i] = x) => (\E i \in DOMAIN s : s[i] = x) \/ (\E i \in DOMAIN p : p[i] = x)
    BY <2>8, <2>9, ZenonT(40)
  <2>11. ASSUME NEW x PROVE (\E i \in DOMAIN s : s[i] = x) \/ (\E i \in DOMAIN p : p[i] = x) => \E i \in DOMAIN t : t[i] = x
    BY <2>8, <2>9, ZenonT(40)
  <2> QED
    BY <2>10, <2>11
<1> HIDE DEF t
<1>5. WordsIn(Joined(c, p), d) = {x \in d.words : \E i \in DOMAIN t : t[i] = x}
  BY <1>2 DEF WordsIn
<1>6. WordsIn(c, d) = {x \in d.words : \E i \in DOMAIN s : s[i] = x}
  BY DEF WordsIn, s
<1>7. WordsIn([strange |-> 0, own |-> p], d) = {x \in d.words : \E i \in DOMAIN p : p[i] = x}
  BY DEF WordsIn
<1>8. WordsIn(Joined(c, p), d) = WordsIn(c, d) \cup WordsIn([strange |-> 0, own |-> p], d)
  BY <1>4, <1>5, <1>6, <1>7
<1>9. Joined(c, p) \in AnyChunk /\ Joined(c, p).strange = c.strange /\ Joined(c, p).own = t
  BY <1>1, <1>2, <1>3 DEF AnyChunk
<1> QED
  BY <1>3, <1>8, <1>9 DEF s, t

LEMMA JoinedTokens ==
  ASSUME NEW d, Proper(d), NEW c \in AnyChunk, NEW p \in Seq(Nat)
  PROVE  /\ TokensIn(c, d) \in Nat /\ TokensIn(Joined(c, p), d) \in Nat /\ Ceiling(Len(p), d.density) \in Nat
         /\ TokensIn(Joined(c, p), d) <= TokensIn(c, d) + Ceiling(Len(p), d.density)
<1> DEFINE a == Len(c.own)
           b == Len(p)
           e == d.density
           n == c.strange
<1>1. a \in Nat /\ b \in Nat /\ e \in Nat \ {0} /\ n \in Nat
  BY DEF AnyChunk, Proper
<1>2. TokensIn(Joined(c, p), d) = n + Ceiling(a + b, e)
  BY JoinedWords DEF TokensIn
<1>3. TokensIn(c, d) = n + Ceiling(a, e)
  BY DEF TokensIn
<1> HIDE DEF a, b, e, n
<1>4. a + b \in Nat
  BY <1>1
<1>5. Ceiling(a, e) \in Nat /\ Ceiling(b, e) \in Nat
  BY <1>1, CeilingIs
<1>6. Ceiling(a + b, e) \in Nat
  BY <1>1, <1>4, CeilingIs
<1>7. Ceiling(a + b, e) <= Ceiling(a, e) + Ceiling(b, e)
  BY <1>1, CeilingSums
<1> QED
  BY <1>1, <1>2, <1>3, <1>5, <1>6, <1>7 DEF b, e

(* The first of the pieces, and the others.                                *)
LEMMA HeadCovers ==
  ASSUME NEW d, Proper(d), NEW q, NEW lo \in Nat \ {0}, Covers(q, lo, d), q # <<>>
  PROVE  /\ PieceIn(Head(q), lo, d.end, d.words, d.room) /\ Head(q) = q[1] /\ Head(q) \in Seq(Nat)
         /\ Covers(Tail(q), To(Head(q)) + 1, d)
         /\ Tail(q) \in PieceLists /\ Len(Tail(q)) = Len(q) - 1 /\ \A k \in 1..(Len(q) - 1) : Tail(q)[k] = q[k + 1]
         /\ \A p \in d.words : lo <= p => From(Head(q)) <= p
<1> DEFINE n == Len(q)
           r == Tail(q)
           h == Head(q)
<1>1. q \in PieceLists /\ n \in Nat /\ n >= 1
  BY DEF Covers, PieceLists
<1>2. /\ h = q[1] /\ h \in Seq(Nat) /\ r \in PieceLists /\ Len(r) = n - 1
      /\ \A k \in 1..(n - 1) : r[k] = q[k + 1] /\ k + 1 \in 1..n
  BY <1>1 DEF PieceLists
<1> HIDE DEF r, h, n
<1>3. \A k \in 1..n : PieceIn(q[k], lo, d.end, d.words, d.room)
  BY DEF Covers, n
<1>4. /\ \A j, k \in 1..n : j < k => To(q[j]) < From(q[k])
      /\ \A p \in d.words : lo <= p => \E k \in 1..n : From(q[k]) <= p /\ p <= To(q[k])
  BY DEF Covers, n
<1>5. 1 \in 1..n /\ PieceIn(h, lo, d.end, d.words, d.room)
  BY <1>1, <1>2, <1>3
<1>6. From(h) \in Nat /\ To(h) \in Nat /\ From(h) <= To(h) /\ lo <= From(h)
  BY <1>5, PieceOrder
<1>7. \A k \in 1..n : From(q[k]) \in Nat /\ To(q[k]) \in Nat /\ From(q[k]) <= To(q[k])
  BY <1>3, PieceOrder
<1>8. \A p \in d.words : p \in Nat
  BY DEF Proper
<1> HIDE DEF From, To
<1>9. ASSUME NEW k \in 1..(n - 1) PROVE PieceIn(r[k], To(h) + 1, d.end, d.words, d.room)
  <2>1. k + 1 \in 1..n /\ 1 \in 1..n /\ 1 < k + 1 /\ r[k] = q[k + 1]
    BY <1>1, <1>2
  <2>2. To(h) < From(q[k + 1])
    BY <1>2, <1>4, <2>1
  <2> DEFINE p == q[k + 1]
             x == To(h) + 1
  <2>3. x <= From(p)
    BY <1>6, <1>7, <2>1, <2>2
  <2>4. PieceIn(p, lo, d.end, d.words, d.room)
    BY <1>3, <2>1
  <2>5. To(p) <= d.end
    BY <2>4, PieceOrder
  <2> HIDE DEF p, x
  <2>6. PieceIn(p, x, d.end, d.words, d.room)
    BY <2>3, <2>4, <2>5, PieceBetween
  <2> QED
    BY <2>1, <2>6 DEF p, x
<1>10. ASSUME NEW j \in 1..(n - 1), NEW k \in 1..(n - 1), j < k PROVE To(r[j]) < From(r[k])
  <2>1. j + 1 \in 1..n /\ k + 1 \in 1..n /\ j + 1 < k + 1
    BY <1>1, <1>10
  <2> QED
    BY <1>2, <1>4, <2>1
<1>11. ASSUME NEW p \in d.words, To(h) + 1 <= p PROVE \E k \in 1..(n - 1) : From(r[k]) <= p /\ p <= To(r[k])
  <2>1. lo <= p
    BY <1>6, <1>8, <1>11
  <2>2. PICK k \in 1..n : From(q[k]) <= p /\ p <= To(q[k])
    BY <1>4, <2>1
  <2>3. k # 1
    BY <1>2, <1>6, <1>8, <1>11, <2>2
  <2>4. k - 1 \in 1..(n - 1) /\ (k - 1) + 1 = k
    BY <1>1, <2>3
  <2>5. r[k - 1] = q[k]
    BY <1>2, <2>4
  <2> QED
    BY <2>2, <2>4, <2>5
<1>12. Covers(r, To(h) + 1, d)
  BY <1>2, <1>9, <1>10, <1>11 DEF Covers
<1>13. ASSUME NEW p \in d.words, lo <= p PROVE From(h) <= p
  <2>1. PICK k \in 1..n : From(q[k]) <= p /\ p <= To(q[k])
    BY <1>4, <1>13
  <2>2. CASE k = 1
    BY <1>2, <2>1, <2>2
  <2>3. CASE k # 1
    <3>1. To(h) < From(q[k])
      BY <1>1, <1>2, <1>4, <1>5, <2>3
    <3> QED
      BY <1>6, <1>7, <1>8, <2>1, <3>1
  <2> QED
    BY <2>2, <2>3
<1> QED
  BY <1>2, <1>5, <1>12, <1>13 DEF r, h, n

-----------------------------------------------------------------------------
(* What hardSplit makes of a piece.                                        *)

HardSlices(p, n) == [k \in DOMAIN Slices(p, n) |-> OwnOnly(Slices(p, n)[k])]

(* The words of c are close to each other.                                 *)
Narrow(c, d) == \A v, w \in WordsIn(c, d) : w < v + d.room

(* c is a slice of p.                                                      *)
SliceIn(c, p, n, d) ==
  /\ c \in AnyChunk /\ c.strange = 0 /\ Len(c.own) <= n /\ Narrow(c, d)
  /\ \A i \in DOMAIN c.own : \E j \in DOMAIN p : c.own[i] = p[j]

(* The position up to which the first x of p are.                          *)
EndOf(p, x) == IF x = 0 THEN From(p) - 1 ELSE p[x]

(* c is what is behind x of p, up to y.                                    *)
Sliver(c, p, n, x, y) ==
  /\ n \in Nat \ {0} /\ x \in Nat /\ y \in Nat /\ x < y /\ y <= Len(p) /\ y <= x + n
  /\ c = OwnOnly(SubSeq(p, x + 1, y))

LEMMA PositionsAt ==
  ASSUME NEW p, NEW lo \in Nat \ {0}, NEW hi, NEW words, NEW room, PieceIn(p, lo, hi, words, room)
  PROVE  /\ \A x \in 0..Len(p) : EndOf(p, x) \in Nat
         /\ \A x, y \in 0..Len(p) : x < y => EndOf(p, x) < EndOf(p, y)
         /\ EndOf(p, 0) = From(p) - 1 /\ EndOf(p, Len(p)) = To(p)
<1> DEFINE n == Len(p)
<1>1. /\ n \in Nat \ {0} /\ From(p) \in Nat /\ lo <= From(p) /\ From(p) - 1 \in Nat
      /\ \A i \in 1..n : p[i] \in Nat /\ From(p) <= p[i]
  <2>1. /\ n \in Nat \ {0} /\ From(p) \in Nat /\ lo <= From(p)
        /\ \A i \in 1..n : p[i] \in Nat /\ From(p) <= p[i]
    BY PieceOrder
  <2> HIDE DEF From
  <2>2. From(p) - 1 \in Nat
    BY <2>1
  <2> QED
    BY <2>1, <2>2
<1>2. \A i, j \in 1..n : i < j => p[i] < p[j]
  BY DEF PieceIn
<1>3. EndOf(p, n) = To(p)
  BY <1>1 DEF EndOf, To
<1> HIDE DEF n, From
<1>4. ASSUME NEW x \in 0..n PROVE EndOf(p, x) \in Nat
  <2>1. x = 0 \/ x \in 1..n
    BY <1>1
  <2> QED
    BY <1>1, <2>1 DEF EndOf
<1>5. ASSUME NEW x \in 0..n, NEW y \in 0..n, x < y PROVE EndOf(p, x) < EndOf(p, y)
  <2>1. y \in 1..n /\ y # 0 /\ EndOf(p, y) = p[y]
    BY <1>1, <1>5 DEF EndOf
  <2>2. CASE x = 0
    <3>1. EndOf(p, x) = From(p) - 1
      BY <2>2 DEF EndOf
    <3>2. p[y] \in Nat /\ From(p) <= p[y]
      BY <1>1, <2>1
    <3> QED
      BY <1>1, <2>1, <3>1, <3>2
  <2>3. CASE x # 0
    <3>1. x \in 1..n /\ EndOf(p, x) = p[x]
      BY <1>1, <2>3 DEF EndOf
    <3> QED
      BY <1>2, <1>5, <2>1, <3>1
  <2> QED
    BY <2>2, <2>3
<1>6. EndOf(p, 0) = From(p) - 1
  BY DEF EndOf
<1> QED
  BY <1>3, <1>4, <1>5, <1>6 DEF n

LEMMA SliceOfPiece ==
  ASSUME NEW d, Proper(d), NEW p, NEW lo \in Nat \ {0}, PieceIn(p, lo, d.end, d.words, d.room),
         NEW n, NEW x, NEW y, NEW c, Sliver(c, p, n, x, y)
  PROVE  SliceIn(c, p, n, d) /\ WordsIn(c, d) = Between(EndOf(p, x) + 1, EndOf(p, y), d)
<1> DEFINE len == Len(p)
           s == SubSeq(p, x + 1, y)
           m == y - x
<1>1. /\ p \in Seq(Nat) /\ len \in Nat /\ DOMAIN p = 1..len /\ \A i \in 1..len : p[i] \in Nat
      /\ From(p) \in Nat /\ To(p) \in Nat /\ lo <= From(p)
  BY PieceOrder
<1>2. /\ \A i \in 0..len : EndOf(p, i) \in Nat
      /\ \A i, j \in 0..len : i < j => EndOf(p, i) < EndOf(p, j)
      /\ EndOf(p, 0) = From(p) - 1 /\ EndOf(p, len) = To(p)
  BY PositionsAt
<1>3. c = [strange |-> 0, own |-> s]
  BY DEF Sliver, OwnOnly
<1>4. n \in Nat \ {0} /\ x \in Nat /\ y \in Nat /\ x < y /\ y <= len /\ y <= x + n /\ m \in Nat /\ m <= n
  BY DEF Sliver
<1>5. s \in Seq(Nat) /\ Len(s) = m /\ \A i \in 1..m : s[i] = p[x + i]
  <2>1. x + 1 \in 1..(len + 1) /\ y \in 0..len /\ y - (x + 1) + 1 = m
    BY <1>1, <1>4
  <2> HIDE DEF From, To, EndOf
  <2> QED
    BY <1>1, <1>4, <2>1
<1>6. \A j \in 1..len : p[j] = EndOf(p, j)
  BY <1>1 DEF EndOf
<1>7. \A i \in 1..m : x + i \in 1..len /\ x < x + i /\ x + i <= y
  BY <1>1, <1>4
<1>8. x \in 0..len /\ y \in 0..len /\ \A j \in 1..len : j \in 0..len
  BY <1>1, <1>4
<1> HIDE DEF len, s, From, To, EndOf
<1>9. /\ \A w \in d.words : w \in Nat
      /\ \A w \in d.words : From(p) <= w /\ w <= To(p) => \E i \in 1..len : p[i] = w
      /\ \A v, w \in d.words : From(p) <= v /\ w <= To(p) => w < v + d.room
  BY DEF Proper, PieceIn, len
<1>10. From(p) <= EndOf(p, x) + 1 /\ EndOf(p, y) <= To(p)
  <2>1. 0 \in 0..len /\ len \in 0..len
    BY <1>1
  <2>2. EndOf(p, x) \in Nat /\ EndOf(p, y) \in Nat
    BY <1>2, <1>8
  <2>3. EndOf(p, 0) = EndOf(p, x) \/ EndOf(p, 0) < EndOf(p, x)
    <3>1. x = 0 \/ 0 < x
      BY <1>4
    <3> QED
      BY <1>2, <1>8, <2>1, <3>1
  <2>4. EndOf(p, y) = EndOf(p, len) \/ EndOf(p, y) < EndOf(p, len)
    <3>1. y = len \/ y < len
      BY <1>1, <1>4
    <3> QED
      BY <1>2, <1>8, <2>1, <3>1
  <2> QED
    BY <1>1, <1>2, <2>2, <2>3, <2>4
<1>11. ASSUME NEW i \in 1..m PROVE EndOf(p, x) + 1 <= s[i] /\ s[i] <= EndOf(p, y)
  <2> DEFINE j == x + i
  <2>1. j \in 1..len /\ x < j /\ j <= y /\ j \in 0..len /\ s[i] = EndOf(p, j)
    BY <1>5, <1>6, <1>7, <1>8
  <2> HIDE DEF j
  <2>2. EndOf(p, x) \in Nat /\ EndOf(p, y) \in Nat /\ EndOf(p, j) \in Nat /\ EndOf(p, x) < EndOf(p, j)
    BY <1>2, <1>8, <2>1
  <2>3. EndOf(p, j) = EndOf(p, y) \/ EndOf(p, j) < EndOf(p, y)
    <3>1. j = y \/ j < y
      BY <1>4, <2>1
    <3> QED
      BY <1>2, <1>8, <2>1, <3>1
  <2> QED
    BY <2>1, <2>2, <2>3
<1>12. ASSUME NEW w \in d.words, EndOf(p, x) + 1 <= w, w <= EndOf(p, y) PROVE \E i \in 1..m : s[i] = w
  <2>1. w \in Nat /\ EndOf(p, x) \in Nat /\ EndOf(p, y) \in Nat
    BY <1>2, <1>8, <1>9
  <2>2. From(p) <= w /\ w <= To(p)
    BY <1>1, <1>10, <1>12, <2>1
  <2>3. PICK j \in 1..len : p[j] = w
    BY <1>9, <2>2
  <2>4. w = EndOf(p, j) /\ j \in 0..len
    BY <1>6, <1>8, <2>3
  <2>5. ~(j = x) /\ ~(j < x)
    <3>1. ~(EndOf(p, j) < EndOf(p, x)) /\ EndOf(p, j) # EndOf(p, x)
      BY <1>12, <2>1, <2>4
    <3> QED
      BY <1>2, <1>8, <2>4, <3>1
  <2>6. ~(y < j)
    <3>1. ~(EndOf(p, y) < EndOf(p, j))
      BY <1>12, <2>1, <2>4
    <3> QED
      BY <1>2, <1>8, <2>4, <3>1
  <2>7. j - x \in 1..m /\ x + (j - x) = j
    BY <1>1, <1>4, <2>5, <2>6
  <2>8. s[j - x] = p[x + (j - x)]
    BY <1>5, <2>7
  <2> QED
    BY <2>3, <2>7, <2>8
<1>13. WordsIn(c, d) = Between(EndOf(p, x) + 1, EndOf(p, y), d)
  <2>1. DOMAIN s = 1..m /\ c.own = s
    BY <1>3, <1>5
  <2>2. ASSUME NEW w \in d.words PROVE (\E i \in DOMAIN s : s[i] = w) <=> EndOf(p, x) + 1 <= w /\ w <= EndOf(p, y)
    BY <1>11, <1>12, <2>1
  <2> QED
    BY <2>1, <2>2 DEF WordsIn, Between
<1>14. Narrow(c, d)
  <2> SUFFICES ASSUME NEW v \in Between(EndOf(p, x) + 1, EndOf(p, y), d), NEW w \in Between(EndOf(p, x) + 1, EndOf(p, y), d)
               PROVE  w < v + d.room
    BY <1>13 DEF Narrow
  <2>1. v \in d.words /\ w \in d.words /\ EndOf(p, x) + 1 <= v /\ w <= EndOf(p, y) /\ v \in Nat /\ w \in Nat
    BY <1>9 DEF Between
  <2>2. EndOf(p, x) \in Nat /\ EndOf(p, y) \in Nat
    BY <1>2, <1>8
  <2>3. From(p) <= v /\ w <= To(p)
    BY <1>1, <1>10, <2>1, <2>2
  <2> QED
    BY <1>9, <2>1, <2>3
<1>15. \A i \in DOMAIN s : \E j \in DOMAIN p : s[i] = p[j]
  BY <1>1, <1>5, <1>7
<1>16. c \in AnyChunk /\ c.strange = 0 /\ c.own = s /\ Len(s) <= n
  BY <1>3, <1>4, <1>5 DEF AnyChunk
<1> QED
  BY <1>13, <1>14, <1>15, <1>16 DEF SliceIn

(* t goes on with what hardSplit makes of p, behind the first j.           *)
Goes(t, j, p, n) ==
  \A k \in 1..Ceiling(Len(p), n) : t[j + k] = HardSlices(p, n)[k]

LEMMA HardSlicesAre ==
  ASSUME NEW d, Proper(d), NEW p, NEW lo \in Nat \ {0}, PieceIn(p, lo, d.end, d.words, d.room), NEW n \in Nat \ {0}
  PROVE  /\ HardSlices(p, n) \in Seq(AnyChunk) /\ Len(HardSlices(p, n)) = Ceiling(Len(p), n) /\ Ceiling(Len(p), n) \in Nat
         /\ \A k \in 1..Ceiling(Len(p), n) :
              /\ SliceIn(HardSlices(p, n)[k], p, n, d)
              /\ WordsIn(HardSlices(p, n)[k], d) =
                   Between(EndOf(p, CutOff(k - 1, n, Len(p))) + 1, EndOf(p, CutOff(k, n, Len(p))), d)
<1> DEFINE len == Len(p)
           m == Ceiling(len, n)
           h == HardSlices(p, n)
           Off(k) == CutOff(k, n, len)
<1>1. p \in Seq(Nat) /\ len \in Nat
  BY PieceOrder
<1>2. DOMAIN Slices(p, n) = 1..m /\ \A k \in 1..m : SliceOf(Slices(p, n)[k], p, k, n)
  BY <1>1, SlicesAre
<1>3. \A k \in 1..m : Slices(p, n)[k] = SubSeq(p, Off(k - 1) + 1, Off(k))
  BY <1>2 DEF SliceOf
<1>4. h = [k \in 1..m |-> OwnOnly(Slices(p, n)[k])]
  BY <1>2 DEF HardSlices
<1>5. \A k \in 1..m : h[k] = OwnOnly(SubSeq(p, Off(k - 1) + 1, Off(k)))
  BY <1>3, <1>4
<1> HIDE DEF len, m, h
<1>6. /\ m \in Nat /\ \A k \in Nat : Off(k) \in Nat /\ Off(k) <= len
      /\ \A k \in 1..m : Off(k - 1) < Off(k) /\ Off(k) <= Off(k - 1) + n
  <2>1. CutsOff(n, len)
    BY <1>1, CutOffs
  <2> QED
    BY <2>1, Zenon DEF CutsOff, m
<1> HIDE DEF Off
<1>7. ASSUME NEW k \in 1..m
      PROVE  SliceIn(h[k], p, n, d) /\ WordsIn(h[k], d) = Between(EndOf(p, Off(k - 1)) + 1, EndOf(p, Off(k)), d)
  <2> DEFINE x == Off(k - 1)
             y == Off(k)
             c == h[k]
  <2>1. k - 1 \in Nat /\ k \in Nat
    BY <1>6
  <2>2. x \in Nat /\ y \in Nat /\ x < y /\ y <= Len(p) /\ y <= x + n
    BY <1>6, <2>1 DEF len
  <2>3. c = OwnOnly(SubSeq(p, x + 1, y))
    BY <1>5
  <2> HIDE DEF x, y, c
  <2>4. Sliver(c, p, n, x, y)
    BY <2>2, <2>3 DEF Sliver
  <2>5. SliceIn(c, p, n, d) /\ WordsIn(c, d) = Between(EndOf(p, x) + 1, EndOf(p, y), d)
    BY <2>4, SliceOfPiece
  <2> QED
    BY <2>5 DEF x, y, c
<1>8. h \in Seq(AnyChunk) /\ Len(h) = m
  <2>1. \A k \in 1..m : h[k] \in AnyChunk
    BY <1>7 DEF SliceIn
  <2>2. h = [k \in 1..m |-> h[k]]
    BY <1>4, <1>5
  <2>3. h \in [1..m -> AnyChunk]
    BY <2>1, <2>2, Zenon
  <2> QED
    BY <1>6, <2>3
<1> QED
  BY <1>6, <1>7, <1>8 DEF h, m, len, Off

LEMMA HardTells ==
  ASSUME NEW d, Proper(d), NEW p, NEW lo \in Nat \ {0}, PieceIn(p, lo, d.end, d.words, d.room), NEW n \in Nat \ {0},
         NEW t, NEW j \in Nat, Goes(t, j, p, n), TellUpTo(t, j, From(p) - 1, d)
  PROVE  TellUpTo(t, j + Ceiling(Len(p), n), To(p), d)
<1> DEFINE len == Len(p)
           m == Ceiling(len, n)
           h == HardSlices(p, n)
           Off(k) == CutOff(k, n, len)
<1>1. len \in Nat
  BY PieceOrder
<1>2. m \in Nat /\ \A k \in 1..m : WordsIn(h[k], d) = Between(EndOf(p, Off(k - 1)) + 1, EndOf(p, Off(k)), d)
  BY HardSlicesAre
<1>3. /\ \A i \in 0..len : EndOf(p, i) \in Nat
      /\ \A i, k \in 0..len : i < k => EndOf(p, i) < EndOf(p, k)
      /\ EndOf(p, 0) = From(p) - 1 /\ EndOf(p, len) = To(p)
  BY PositionsAt
<1>4. \A k \in 1..m : t[j + k] = h[k]
  BY DEF Goes
<1> HIDE DEF len
<1>5. /\ \A k \in Nat : Off(k) \in Nat /\ Off(k) <= len
      /\ \A k \in 1..m : Off(k - 1) < Off(k)
      /\ Off(0) = 0 /\ Off(m) = len
  <2>1. CutsOff(n, len)
    BY <1>1, CutOffs
  <2> QED
    BY <2>1, Zenon DEF CutsOff
<1> HIDE DEF Off, m, h, EndOf, From, To
<1> DEFINE T == {k \in Nat : k <= m => TellUpTo(t, j + k, EndOf(p, Off(k)), d)}
<1>6. 0 \in T
  <2>1. TellUpTo(t, j + 0, EndOf(p, Off(0)), d)
    BY <1>3, <1>5
  <2> QED
    BY <2>1
<1>7. ASSUME NEW k \in Nat, k \in T PROVE k + 1 \in T
  <2> SUFFICES ASSUME k + 1 <= m PROVE TellUpTo(t, j + (k + 1), EndOf(p, Off(k + 1)), d)
    OBVIOUS
  <2> DEFINE i == j + k
             y == EndOf(p, Off(k))
             a == y + 1
             b == EndOf(p, Off(k + 1))
  <2>1. k + 1 \in 1..m /\ (k + 1) - 1 = k /\ k <= m /\ j + (k + 1) = i + 1 /\ i \in Nat
    BY <1>2
  <2>2. Off(k) \in 0..len /\ Off(k + 1) \in 0..len /\ Off(k) < Off(k + 1)
    BY <1>1, <1>5, <2>1
  <2>3. TellUpTo(t, i, y, d)
    BY <1>7, <2>1
  <2>4. t[i + 1] = h[k + 1]
    BY <1>4, <2>1
  <2>5. WordsIn(t[i + 1], d) = Between(a, b, d)
    BY <1>2, <2>1, <2>4
  <2>6. y \in Nat /\ b \in Nat /\ y < b
    BY <1>3, <2>2
  <2> HIDE DEF i, y, b
  <2>7. a \in Nat \ {0} /\ a <= y + 1 /\ y <= b
    BY <2>6
  <2> HIDE DEF a
  <2>8. GoesOn(t, i, y, a, b, d)
    BY <2>1, <2>3, <2>5, <2>6, <2>7 DEF GoesOn
  <2>9. TellUpTo(t, i + 1, b, d)
    BY <2>8, TellsMore
  <2> QED
    BY <2>1, <2>9 DEF b
<1> HIDE DEF T
<1>8. Nat \subseteq T
  BY <1>6, <1>7, Counting
<1>9. TellUpTo(t, j + m, EndOf(p, Off(m)), d)
  BY <1>2, <1>8 DEF T
<1> QED
  BY <1>3, <1>5, <1>9 DEF m, len

-----------------------------------------------------------------------------
(* What the trimming at the end leaves.                                    *)

LEMMA ChosenFewer ==
  ASSUME NEW t, Len(t) \in Nat, NEW g, NEW s, NEW kept, NEW n \in Nat, Chosen(t, g, s, kept, n)
  PROVE  Len(t) <= n
<1> DEFINE m == Len(t)
           T == {i \in Nat : i + 1 <= m => g[i + 1] >= i + 1}
<1>1. m \in Nat /\ g \in [1..m -> 1..n] /\ \A i, j \in 1..m : i < j => g[i] < g[j]
  BY DEF Chosen
<1> HIDE DEF m
<1>2. \A i \in 1..m : g[i] \in Nat /\ g[i] >= 1 /\ g[i] <= n
  BY <1>1
<1>3. 0 \in T
  BY <1>1, <1>2
<1>4. ASSUME NEW i \in Nat, i \in T PROVE i + 1 \in T
  <2> SUFFICES ASSUME (i + 1) + 1 <= m PROVE g[(i + 1) + 1] >= (i + 1) + 1
    OBVIOUS
  <2> DEFINE a == i + 1
             b == (i + 1) + 1
  <2>1. a \in 1..m /\ b \in 1..m /\ a < b /\ b = a + 1
    BY <1>1
  <2>2. g[a] >= a
    BY <1>4, <2>1
  <2>3. g[a] < g[b]
    BY <1>1, <2>1
  <2> HIDE DEF a, b
  <2>4. g[b] >= b
    BY <1>2, <2>1, <2>2, <2>3
  <2> QED
    BY <2>4 DEF b
<1> HIDE DEF T
<1>5. Nat \subseteq T
  BY <1>3, <1>4, Counting
<1>6. CASE m = 0
  BY <1>6 DEF m
<1>7. CASE m # 0
  <2>1. m - 1 \in T /\ (m - 1) + 1 = m /\ m \in 1..m
    BY <1>1, <1>5, <1>7
  <2>2. g[m] >= m
    BY <2>1 DEF T
  <2> QED
    BY <1>1, <1>2, <2>1, <2>2 DEF m
<1> QED
  BY <1>6, <1>7

(* What there is to say of a document.                                     *)
TheDocument ==
  [words |-> AllWords, end |-> Len(text), size |-> setting.chunkSize, overlap |-> setting.chunkOverlap,
   density |-> setting.density, pieces |-> recursiveSplit[1][Positions], room |-> Room]

(* t is c without some of its positions.                                   *)
Shrinks(t, c, d) ==
  /\ t \in AnyChunk /\ t.strange = c.strange /\ Len(t.own) <= Len(c.own)
  /\ \A i \in DOMAIN t.own : \E j \in DOMAIN c.own : t.own[i] = c.own[j]
  /\ WordsIn(t, d) = WordsIn(c, d)

LEMMA TrimmedShrinks ==
  ASSUME NEW c \in AnyChunk
  PROVE  Shrinks(Trimmed(c), c, TheDocument)
<1> DEFINE s == c.own
           kept == Inner(s, Dark(s) \cup IF c.strange > 0 THEN {0} ELSE {})
           t == Keep(s, kept)
<1>1. s \in Seq(Nat) /\ c.strange \in Nat /\ c = [strange |-> c.strange, own |-> s]
  BY DEF AnyChunk
<1>2. Trimmed(c) = [strange |-> c.strange, own |-> t]
  <2>1. \A n, a, b : [[strange |-> n, own |-> a] EXCEPT !.own = b] = [strange |-> n, own |-> b]
    OBVIOUS
  <2>2. Trimmed(c) = [c EXCEPT !.own = t]
    BY DEF Trimmed
  <2> HIDE DEF s, t
  <2> QED
    BY <1>1, <2>1, <2>2
<1>3. Dark(s) \subseteq kept
  <2>1. \A i \in Dark(s) : i \in DOMAIN s
    BY DEF Dark
  <2>2. \A i \in DOMAIN s : i <= i
    BY <1>1
  <2> HIDE DEF s
  <2> QED
    BY <2>1, <2>2 DEF Inner
<1> HIDE DEF s, kept
<1>4. t \in Seq(Nat) /\ \E g : Chosen(t, g, s, kept, Len(s))
  BY <1>1, KeepIs
<1>5. PICK g : Chosen(t, g, s, kept, Len(s))
  BY <1>4
<1> HIDE DEF t
<1>6. Len(s) \in Nat /\ Len(t) \in Nat /\ DOMAIN s = 1..Len(s) /\ DOMAIN t = 1..Len(t)
  BY <1>1, <1>4
<1>7. Len(t) <= Len(s)
  BY <1>5, <1>6, ChosenFewer
<1>8. \A i \in 1..Len(t) : g[i] \in 1..Len(s) /\ t[i] = s[g[i]]
  BY <1>5 DEF Chosen
<1>9. \A p \in 1..Len(s) : p \in kept => \E i \in 1..Len(t) : g[i] = p
  BY <1>5 DEF Chosen
<1>10. \A p \in AllWords : text[p] \notin White
  BY DEF AllWords, White
<1>11. ASSUME NEW p \in AllWords PROVE (\E i \in DOMAIN t : t[i] = p) <=> (\E i \in DOMAIN s : s[i] = p)
  <2>1. ASSUME NEW i \in DOMAIN s, s[i] = p PROVE \E j \in DOMAIN t : t[j] = p
    <3>1. i \in Dark(s)
      BY <1>10, <2>1 DEF Dark
    <3>2. PICK j \in 1..Len(t) : g[j] = i
      BY <1>3, <1>6, <1>9, <3>1
    <3> QED
      BY <1>6, <1>8, <2>1, <3>2
  <2>2. ASSUME NEW i \in DOMAIN t, t[i] = p PROVE \E j \in DOMAIN s : s[j] = p
    BY <1>6, <1>8, <2>2
  <2> QED
    BY <2>1, <2>2
<1>12. TheDocument.words = AllWords
  BY DEF TheDocument
<1>13. WordsIn(Trimmed(c), TheDocument) = WordsIn(c, TheDocument)
  BY <1>2, <1>11, <1>12 DEF WordsIn, s
<1>14. Trimmed(c) \in AnyChunk /\ Trimmed(c).strange = c.strange /\ Trimmed(c).own = t
  BY <1>1, <1>2, <1>4 DEF AnyChunk
<1>15. \A i \in DOMAIN t : \E j \in DOMAIN s : t[i] = s[j]
  BY <1>6, <1>8
<1> QED
  BY <1>7, <1>13, <1>14, <1>15 DEF Shrinks, s

(* What is left out of s has no word.                                      *)
LeavesOut(s, kept, d) ==
  s \in Seq(AnyChunk) /\ \A k \in 1..Len(s) : k \notin kept => WordsIn(s[k], d) = {}

LEMMA KeptTells ==
  ASSUME NEW d, NEW s, NEW kept, LeavesOut(s, kept, d), NEW y, TellUpTo(s, Len(s), y, d)
  PROVE  /\ Keep(s, kept) \in Seq(AnyChunk) /\ TellUpTo(Keep(s, kept), Len(Keep(s, kept)), y, d)
         /\ \A k \in 1..Len(Keep(s, kept)) : \E j \in 1..Len(s) : Keep(s, kept)[k] = s[j]
<1> DEFINE r == Keep(s, kept)
           n == Len(r)
           m == Len(s)
<1>1. s \in Seq(AnyChunk) /\ \A k \in 1..m : k \notin kept => WordsIn(s[k], d) = {}
  BY DEF LeavesOut
<1>2. r \in Seq(AnyChunk) /\ \E g : Chosen(r, g, s, kept, m)
  BY <1>1, KeepIs
<1>3. PICK g : Chosen(r, g, s, kept, m)
  BY <1>2
<1> HIDE DEF r
<1>4. n \in Nat /\ m \in Nat
  BY <1>1, <1>2
<1>5. /\ \A i, j \in 1..n : i < j => g[i] < g[j]
      /\ \A i \in 1..n : g[i] \in 1..m /\ r[i] = s[g[i]]
      /\ \A p \in 1..m : p \in kept => \E i \in 1..n : g[i] = p
  BY <1>3 DEF Chosen
<1> HIDE DEF n, m
<1>6. ASSUME NEW h \in 1..m, NEW p \in WordsIn(s[h], d) PROVE \E i \in 1..n : g[i] = h /\ p \in WordsIn(r[i], d)
  <2>1. h \in kept
    BY <1>1, <1>6
  <2>2. PICK i \in 1..n : g[i] = h
    BY <1>5, <2>1
  <2> QED
    BY <1>5, <2>2
<1>7. ASSUME NEW k \in 1..n PROVE Told(r, k, d) = Told(s, g[k], d)
  <2>1. g[k] \in 1..m /\ k \in Nat
    BY <1>4, <1>5
  <2>2. ASSUME NEW p \in d.words, NEW h \in 1..k, p \in WordsIn(r[h], d) PROVE \E i \in 1..g[k] : p \in WordsIn(s[i], d)
    <3>1. h \in 1..n /\ h <= k
      BY <1>4
    <3>2. g[h] \in 1..m /\ r[h] = s[g[h]]
      BY <1>5, <3>1
    <3>3. g[h] <= g[k]
      <4>1. CASE h = k
        BY <2>1, <4>1
      <4>2. CASE h < k
        BY <1>5, <2>1, <3>1, <3>2, <4>2
      <4> QED
        BY <2>1, <3>1, <4>1, <4>2
    <3>4. g[h] \in 1..g[k]
      BY <2>1, <3>2, <3>3
    <3> QED
      BY <2>2, <3>2, <3>4
  <2>3. ASSUME NEW p \in d.words, NEW h \in 1..g[k], p \in WordsIn(s[h], d) PROVE \E i \in 1..k : p \in WordsIn(r[i], d)
    <3>1. h \in 1..m /\ h <= g[k]
      BY <1>4, <2>1
    <3>2. PICK i \in 1..n : g[i] = h /\ p \in WordsIn(r[i], d)
      BY <1>6, <2>3, <3>1
    <3>3. ~(k < i)
      BY <1>5, <2>1, <3>1, <3>2
    <3>4. i \in 1..k
      BY <2>1, <3>3
    <3> QED
      BY <3>2, <3>4
  <2> QED
    BY <2>2, <2>3 DEF Told
<1>8. Told(r, n, d) = Told(s, m, d)
  <2>1. ASSUME NEW p \in d.words, NEW h \in 1..n, p \in WordsIn(r[h], d) PROVE \E i \in 1..m : p \in WordsIn(s[i], d)
    BY <1>5, <2>1
  <2>2. ASSUME NEW p \in d.words, NEW h \in 1..m, p \in WordsIn(s[h], d) PROVE \E i \in 1..n : p \in WordsIn(r[i], d)
    BY <1>6, <2>2
  <2> QED
    BY <2>1, <2>2 DEF Told
<1>9. y \in Nat /\ Told(s, m, d) = Between(1, y, d) /\ \A k \in 1..m : \E a, b : Tells(s, k, a, b, d)
  BY DEF TellUpTo, m
<1>10. ASSUME NEW k \in 1..n PROVE \E a, b : Tells(r, k, a, b, d)
  <2>1. g[k] \in 1..m /\ r[k] = s[g[k]]
    BY <1>5
  <2>2. PICK a, b : Tells(s, g[k], a, b, d)
    BY <1>9, <2>1
  <2>3. Tells(r, k, a, b, d)
    BY <1>7, <2>1, <2>2 DEF Tells
  <2> QED
    BY <2>3
<1>11. TellUpTo(r, n, y, d)
  BY <1>4, <1>8, <1>9, <1>10 DEF TellUpTo
<1>12. \A k \in 1..n : \E j \in 1..m : r[k] = s[j]
  BY <1>5
<1> QED
  BY <1>2, <1>11, <1>12 DEF r, n, m

-----------------------------------------------------------------------------
(* The inductive invariant of the chunker.                                 *)

SlicedOf(c, d) ==
  \E k \in DOMAIN d.pieces :
    /\ Ceiling(Len(d.pieces[k]), d.density) > d.size
    /\ \A i \in DOMAIN c.own : \E j \in DOMAIN d.pieces[k] : c.own[i] = d.pieces[k][j]

Bounded(c, d) ==
  \/ TokensIn(c, d) <= d.size + d.overlap
  \/ SlicedOf(c, d) /\ c.strange = 0 /\ Len(c.own) <= CutFactor * d.size /\ Narrow(c, d)

InText(c, d) == \A i \in DOMAIN c.own : c.own[i] \in 1..d.end

Sound(c, d) == InText(c, d) /\ Bounded(c, d)

(* The chunks tell all up to y, the buffer the words from x to done; the   *)
(* pieces that are left begin behind done.                                 *)
MergedTo(ch, y, x, done, d) ==
  /\ y \in Nat /\ x \in Nat \ {0} /\ done \in Nat /\ x <= y + 1 /\ y <= done
  /\ TellUpTo(ch.chunks, Len(ch.chunks), y, d) /\ WordsIn(ch.buffer, d) = Between(x, done, d)
  /\ Covers(ch.pieces, done + 1, d)

Merged(ch, d) ==
  /\ \E y, x, done : MergedTo(ch, y, x, done, d)
  /\ \A k \in 1..Len(ch.pieces) : \E j \in DOMAIN d.pieces : ch.pieces[k] = d.pieces[j]
  /\ InText(ch.buffer, d) /\ TokensIn(ch.buffer, d) <= ch.bufferTokens /\ ch.bufferTokens <= d.size + d.overlap

Row == [index : Nat, content : AnyChunk, embedding : Embeddings(AnyChunk)]

RowOf(list, k) == [index |-> k - 1, content |-> list[k], embedding |-> Embedding(list[k])]

ChunkerState ==
  [pc : {"extracted", "split", "merge", "embed", "COMPLETED", "FAILED"}, pieces : PieceLists, buffer : AnyChunk,
   bufferTokens : Nat, chunks : Seq(AnyChunk), rows : Seq(Row)]

Written(ch, d) ==
  /\ TellUpTo(ch.chunks, Len(ch.chunks), d.end, d) /\ Len(ch.rows) <= Len(ch.chunks)
  /\ \A k \in 1..Len(ch.rows) : ch.rows[k] = RowOf(ch.chunks, k)

AllSound(ch, d) == \A k \in 1..Len(ch.chunks) : Sound(ch.chunks[k], d)

Holds(ch, d) ==
  /\ ch \in ChunkerState /\ AllSound(ch, d)
  /\ ch.pc \in {"extracted", "split", "FAILED"} =>
       ch.buffer = Nothing /\ ch.bufferTokens = 0 /\ ch.chunks = <<>> /\ ch.rows = <<>>
  /\ ch.pc = "merge" => Proper(d) /\ Merged(ch, d) /\ ch.rows = <<>>
  /\ ch.pc \in {"embed", "COMPLETED"} => Proper(d) /\ Written(ch, d)
  /\ ch.pc = "COMPLETED" => Len(ch.rows) = Len(ch.chunks)

ChunkerInv ==
  /\ text \in Seq(Character) /\ setting \in Setting /\ Holds(chunker, TheDocument)
  /\ chunker.pc = "split" => text # <<>> /\ setting.chunkOverlap < setting.chunkSize

LEMMA DocumentSame ==
  ASSUME text' = text, setting' = setting
  PROVE  TheDocument' = TheDocument
<1>1. AllWords' = AllWords /\ Positions' = Positions /\ Room' = Room
  BY DEF AllWords, Positions, Room
<1>2. recursiveSplit' = recursiveSplit
  <2>1. \A ps, sep : Parts(ps, sep)' = Parts(ps, sep)
    BY DEF Parts, Chars
  <2>2. \A parts, last, deeper : Collected(parts, last, deeper)' = Collected(parts, last, deeper)
    BY DEF Collected, Dark, countTokens
  <2> QED
    BY <2>1, <2>2, ZenonT(60) DEF recursiveSplit
<1> QED
  BY <1>1, <1>2, Zenon DEF TheDocument

LEMMA HoldsNext ==
  ASSUME ChunkerInv, text' = text, setting' = setting, Holds(chunker', TheDocument),
         chunker'.pc \notin {"extracted", "split"}
  PROVE  ChunkerInv'
<1>1. TheDocument' = TheDocument
  BY DocumentSame
<1>2. Holds(chunker, TheDocument)'
  BY <1>1
<1> QED
  BY <1>2 DEF ChunkerInv

LEMMA SettingFacts ==
  ASSUME setting \in Setting
  PROVE  setting.chunkSize \in Nat /\ setting.chunkOverlap \in Nat /\ setting.density \in Nat \ {0}
BY SettingAssumption

LEMMA NothingIs ==
  /\ Nothing \in AnyChunk /\ Nothing.strange = 0 /\ Nothing.own = <<>>
  /\ \A d : WordsIn(Nothing, d) = {} /\ InText(Nothing, d)
<1>1. Nothing = [strange |-> 0, own |-> <<>>]
  BY DEF Nothing, OwnOnly
<1>2. Nothing \in AnyChunk
  BY <1>1 DEF AnyChunk
<1>3. DOMAIN Nothing.own = {}
  BY <1>1
<1> QED
  BY <1>1, <1>2, <1>3 DEF WordsIn, InText

(* What can be split is a proper document.                                 *)
LEMMA ProperDocument ==
  ASSUME text \in Seq(Character), text # <<>>, setting.chunkOverlap < setting.chunkSize, setting \in Setting
  PROVE  Proper(TheDocument)
<1> DEFINE d == TheDocument
           q == recursiveSplit[1][Positions]
           e == Len(text)
<1>1. setting.chunkSize \in Nat /\ setting.chunkOverlap \in Nat /\ setting.density \in Nat \ {0}
  BY SettingFacts
<1>2. Tiles(q, 1, e)
  BY <1>1, PiecesTile DEF Texted
<1>3. Room \in Nat
  BY <1>1, RoomIs
<1>4. e \in Nat /\ DOMAIN text = 1..e
  OBVIOUS
<1>5. /\ d.words = AllWords /\ d.end = e /\ d.size = setting.chunkSize /\ d.overlap = setting.chunkOverlap
      /\ d.density = setting.density /\ d.pieces = q /\ d.room = Room
  BY DEF TheDocument
<1>6. AllWords \subseteq 1..e
  BY <1>4 DEF AllWords
<1> HIDE DEF d, q, e
<1>7. Covers(q, 1, d)
  <2>1. \A p \in d.words : 1 <= p /\ p <= e
    <3>1. \A p \in 1..e : 1 <= p /\ p <= e
      BY <1>4
    <3> QED
      BY <1>5, <1>6, <3>1, Zenon
  <2> QED
    BY <1>2, <1>5, <2>1 DEF Tiles, Covers
<1>8. Proper(d)
  BY <1>1, <1>3, <1>4, <1>5, <1>6, <1>7 DEF Proper
<1> QED
  BY <1>8 DEF d

-----------------------------------------------------------------------------
(* To clean leaves something.                                              *)

HasDark(s) == \E i \in DOMAIN s : s[i] \notin White

LEMMA KeepHasDark ==
  ASSUME NEW s \in Seq(Character), HasDark(s), NEW kept, \A i \in DOMAIN s : s[i] \notin White => i \in kept
  PROVE  Keep(s, kept) \in Seq(Character) /\ HasDark(Keep(s, kept))
<1> DEFINE t == Keep(s, kept)
<1>1. t \in Seq(Character) /\ \E g : Chosen(t, g, s, kept, Len(s))
  BY KeepIs
<1>2. PICK g : Chosen(t, g, s, kept, Len(s))
  BY <1>1
<1> HIDE DEF t
<1>3. PICK i \in DOMAIN s : s[i] \notin White
  BY DEF HasDark
<1>4. i \in 1..Len(s) /\ i \in kept
  BY <1>3
<1>5. PICK j \in 1..Len(t) : g[j] = i
  BY <1>2, <1>4 DEF Chosen
<1>6. t[j] = s[i] /\ j \in DOMAIN t
  BY <1>1, <1>2, <1>5 DEF Chosen
<1> QED
  BY <1>1, <1>3, <1>6 DEF HasDark, t

LEMMA CleanHasDark ==
  ASSUME NEW s \in Seq(Character), HasDark(s)
  PROVE  preClean(s) \in Seq(Character) /\ preClean(s) # <<>>
<1> DEFINE unended == Keep(s, {i \in DOMAIN s : ~EndsLine(s, i)})
           two     == Keep(unended, {i \in DOMAIN unended : ~AfterTwo(unended, i)})
           one     == Keep(two, {i \in DOMAIN two : ~AfterOne(two, i)})
           last    == Keep(one, Inner(one, {i \in DOMAIN one : one[i] \notin White}))
<1>1. preClean(s) = last
  BY DEF preClean
<1>2. \A t \in Seq(Character) : \A i \in DOMAIN t : t[i] \notin White => ~EndsLine(t, i) /\ ~AfterTwo(t, i) /\ ~AfterOne(t, i)
  <2> TAKE t \in Seq(Character)
  <2> TAKE i \in DOMAIN t
  <2> HAVE t[i] \notin White
  <2>1. i \in Nat /\ i >= 1 /\ t[i] # "blank" /\ t[i] # "newline"
    BY DEF White
  <2>2. ~EndsLine(t, i)
    <3> SUFFICES ASSUME NEW j \in DOMAIN t, i < j, \A k \in i..(j - 1) : t[k] = "blank" PROVE FALSE
      BY DEF EndsLine
    <3>1. i \in i..(j - 1)
      BY <2>1
    <3> QED
      BY <2>1, <3>1
  <2>3. ~AfterTwo(t, i)
    <3>1. i \in (i - 2)..i
      BY <2>1
    <3> QED
      BY <2>1, <3>1 DEF AfterTwo
  <2>4. ~AfterOne(t, i)
    <3>1. i \in (i - 1)..i
      BY <2>1
    <3> QED
      BY <2>1, <3>1 DEF AfterOne
  <2> QED
    BY <2>2, <2>3, <2>4
<1>3. unended \in Seq(Character) /\ HasDark(unended)
  <2> DEFINE kept == {i \in DOMAIN s : ~EndsLine(s, i)}
  <2>1. \A i \in DOMAIN s : s[i] \notin White => i \in kept
    BY <1>2
  <2> HIDE DEF kept
  <2>2. Keep(s, kept) \in Seq(Character) /\ HasDark(Keep(s, kept))
    BY <2>1, KeepHasDark
  <2> QED
    BY <2>2 DEF kept
<1> HIDE DEF unended
<1>4. two \in Seq(Character) /\ HasDark(two)
  <2> DEFINE kept == {i \in DOMAIN unended : ~AfterTwo(unended, i)}
  <2>1. \A i \in DOMAIN unended : unended[i] \notin White => i \in kept
    BY <1>2, <1>3
  <2> HIDE DEF kept
  <2>2. Keep(unended, kept) \in Seq(Character) /\ HasDark(Keep(unended, kept))
    BY <1>3, <2>1, KeepHasDark
  <2> QED
    BY <2>2 DEF kept
<1> HIDE DEF two
<1>5. one \in Seq(Character) /\ HasDark(one)
  <2> DEFINE kept == {i \in DOMAIN two : ~AfterOne(two, i)}
  <2>1. \A i \in DOMAIN two : two[i] \notin White => i \in kept
    BY <1>2, <1>4
  <2> HIDE DEF kept
  <2>2. Keep(two, kept) \in Seq(Character) /\ HasDark(Keep(two, kept))
    BY <1>4, <2>1, KeepHasDark
  <2> QED
    BY <2>2 DEF kept
<1> HIDE DEF one
<1>6. last \in Seq(Character) /\ HasDark(last)
  <2> DEFINE dark == {i \in DOMAIN one : one[i] \notin White}
             kept == Inner(one, dark)
  <2>1. \A i \in DOMAIN one : i <= i
    BY <1>5
  <2>2. \A i \in DOMAIN one : one[i] \notin White => i \in dark
    OBVIOUS
  <2>3. \A i \in DOMAIN one : one[i] \notin White => i \in kept
    <3> HIDE DEF dark
    <3> QED
      BY <2>1, <2>2 DEF Inner
  <2> HIDE DEF kept
  <2>4. Keep(one, kept) \in Seq(Character) /\ HasDark(Keep(one, kept))
    BY <1>5, <2>3, KeepHasDark
  <2> QED
    BY <2>4 DEF kept
<1>7. DOMAIN <<>> = {}
  OBVIOUS
<1> HIDE DEF last
<1> QED
  BY <1>1, <1>6, <1>7 DEF HasDark

-----------------------------------------------------------------------------
(* Every step keeps the invariant.                                         *)

LEMMA ChunkerInitHolds ==
  ASSUME ChunkerInit
  PROVE  ChunkerInv
<1>1. chunker = [pc |-> "extracted", pieces |-> <<>>, buffer |-> Nothing, bufferTokens |-> 0, chunks |-> <<>>, rows |-> <<>>]
  BY DEF ChunkerInit, Fresh
<1>2. chunker \in ChunkerState
  BY <1>1, NothingIs DEF ChunkerState, PieceLists
<1>3. AllSound(chunker, TheDocument)
  BY <1>1 DEF AllSound
<1>4. Holds(chunker, TheDocument)
  BY <1>1, <1>2, <1>3 DEF Holds
<1>5. text \in Seq(Character) /\ setting \in Setting
  BY TextAssumption DEF ChunkerInit
<1> QED
  BY <1>1, <1>4, <1>5 DEF ChunkerInv

LEMMA RefuseHolds ==
  ASSUME ChunkerInv, Refuse
  PROVE  ChunkerInv'
<1>1. Holds(chunker, TheDocument) /\ setting \in Setting
  BY DEF ChunkerInv
<1>2. chunker \in ChunkerState /\ chunker.pc = "extracted" /\ text' = text /\ setting' = setting
  BY <1>1 DEF Refuse, Holds
<1>3. chunker' = [chunker EXCEPT !.pc = "FAILED"]
  BY DEF Refuse
<1>4. /\ chunker' \in ChunkerState /\ chunker'.pc = "FAILED" /\ chunker'.buffer = chunker.buffer
      /\ chunker'.bufferTokens = chunker.bufferTokens /\ chunker'.chunks = chunker.chunks /\ chunker'.rows = chunker.rows
  BY <1>2, <1>3 DEF ChunkerState
<1>5. Holds(chunker', TheDocument)
  <2>1. chunker.buffer = Nothing /\ chunker.bufferTokens = 0 /\ chunker.chunks = <<>> /\ chunker.rows = <<>>
    BY <1>1, <1>2 DEF Holds
  <2>2. AllSound(chunker', TheDocument)
    BY <1>1, <1>4 DEF Holds, AllSound
  <2> QED
    BY <1>4, <2>1, <2>2 DEF Holds
<1> QED
  BY <1>1, <1>2, <1>4, <1>5, HoldsNext

LEMMA CleanHolds ==
  ASSUME ChunkerInv, Clean
  PROVE  ChunkerInv'
<1>1. Holds(chunker, TheDocument) /\ setting \in Setting
  BY DEF ChunkerInv
<1>2. chunker \in ChunkerState /\ chunker.pc = "extracted" /\ text' = preClean(text) /\ setting' = setting
  BY <1>1 DEF Clean, Holds
<1>3. chunker' = [chunker EXCEPT !.pc = "split"]
  BY DEF Clean
<1>4. /\ chunker' \in ChunkerState /\ chunker'.pc = "split" /\ chunker'.buffer = chunker.buffer
      /\ chunker'.bufferTokens = chunker.bufferTokens /\ chunker'.chunks = chunker.chunks /\ chunker'.rows = chunker.rows
  BY <1>2, <1>3 DEF ChunkerState
<1>5. text \in Seq(Character) /\ HasDark(text)
  BY <1>2 DEF ChunkerInv, Clean, HasDark
<1>6. text' \in Seq(Character) /\ text' # <<>>
  BY <1>2, <1>5, CleanHasDark
<1>7. setting.chunkOverlap < setting.chunkSize
  BY DEF Clean
<1>8. Holds(chunker', TheDocument')
  <2>1. chunker.buffer = Nothing /\ chunker.bufferTokens = 0 /\ chunker.chunks = <<>> /\ chunker.rows = <<>>
    BY <1>1, <1>2 DEF Holds
  <2>2. Len(chunker'.chunks) = 0
    BY <1>4, <2>1
  <2>3. \A e : AllSound(chunker', e)
    BY <2>2 DEF AllSound
  <2> QED
    BY <1>4, <2>1, <2>3 DEF Holds
<1>9. Holds(chunker, TheDocument)'
  BY <1>8
<1> QED
  BY <1>1, <1>2, <1>4, <1>6, <1>7, <1>9 DEF ChunkerInv

LEMMA SplitHolds ==
  ASSUME ChunkerInv, Split
  PROVE  ChunkerInv'
<1> DEFINE d == TheDocument
           q == recursiveSplit[1][Positions]
<1>1. Holds(chunker, d) /\ setting \in Setting
  BY DEF ChunkerInv
<1>2. chunker \in ChunkerState /\ chunker.pc = "split" /\ text' = text /\ setting' = setting
  BY <1>1 DEF Split, Holds
<1>3. Proper(d)
  BY <1>2, ProperDocument DEF ChunkerInv
<1>4. d.pieces = q
  BY DEF TheDocument
<1>5. Covers(q, 1, d) /\ q \in PieceLists
  BY <1>3, <1>4 DEF Proper, Covers
<1>6. chunker' = [chunker EXCEPT !.pc = "merge", !.pieces = q]
  BY DEF Split
<1>7. chunker.buffer = Nothing /\ chunker.bufferTokens = 0 /\ chunker.chunks = <<>> /\ chunker.rows = <<>>
  BY <1>1, <1>2 DEF Holds
<1> HIDE DEF d, q
<1>8. /\ chunker' \in ChunkerState /\ chunker'.pc = "merge" /\ chunker'.buffer = Nothing /\ chunker'.pieces = q
      /\ chunker'.bufferTokens = 0 /\ chunker'.chunks = <<>> /\ chunker'.rows = <<>>
  BY <1>2, <1>5, <1>6, <1>7 DEF ChunkerState
<1>9. MergedTo(chunker', 0, 1, 0, d)
  <2> DEFINE none == <<>>
  <2>1. \A x, z : x > z /\ x \in Nat /\ z \in Nat => Between(x, z, d) = {}
    <3>1. \A p \in d.words : p \in Nat
      BY <1>3 DEF Proper
    <3> QED
      BY <3>1 DEF Between
  <2>2. Between(1, 0, d) = {}
    BY <2>1
  <2>3. Len(none) = 0 /\ chunker'.chunks = none
    BY <1>8
  <2> HIDE DEF none
  <2>4. Told(none, 0, d) = {}
    BY DEF Told
  <2>5. TellUpTo(none, 0, 0, d)
    BY <2>2, <2>4 DEF TellUpTo
  <2>6. WordsIn(chunker'.buffer, d) = {}
    BY <1>8, NothingIs
  <2> QED
    BY <1>5, <1>8, <2>2, <2>3, <2>5, <2>6 DEF MergedTo
<1>10. Merged(chunker', d)
  <2>1. TokensIn(Nothing, d) = 0
    <3>1. d.density \in Nat \ {0}
      BY <1>3 DEF Proper
    <3>2. Ceiling(0, d.density) <= 0 /\ Ceiling(0, d.density) \in Nat
      BY <3>1, CeilingSums, CeilingIs
    <3>3. Len(Nothing.own) = 0
      BY NothingIs
    <3> QED
      BY <3>2, <3>3, NothingIs DEF TokensIn
  <2>2. d.size \in Nat /\ d.overlap \in Nat
    BY <1>3 DEF Proper
  <2>3. \A k \in 1..Len(q) : \E j \in DOMAIN d.pieces : q[k] = d.pieces[j]
    <3>1. q \in Seq(Seq(Nat))
      BY <1>5 DEF PieceLists
    <3>2. \A k \in 1..Len(q) : k \in DOMAIN q
      BY <3>1
    <3> QED
      BY <1>4, <3>2
  <2>4. TokensIn(chunker'.buffer, d) <= chunker'.bufferTokens /\ chunker'.bufferTokens <= d.size + d.overlap
    BY <1>8, <2>1, <2>2
  <2>5. \A k \in 1..Len(chunker'.pieces) : \E j \in DOMAIN d.pieces : chunker'.pieces[k] = d.pieces[j]
    BY <1>8, <2>3
  <2>6. InText(chunker'.buffer, d)
    BY <1>8, NothingIs
  <2> QED
    BY <1>9, <2>4, <2>5, <2>6 DEF Merged
<1>11. Holds(chunker', d)
  <2>1. AllSound(chunker', d)
    BY <1>8 DEF AllSound
  <2> QED
    BY <1>3, <1>8, <1>10, <2>1 DEF Holds
<1> QED
  BY <1>1, <1>2, <1>8, <1>11, HoldsNext DEF d

(* While pieces are merged; m, x and done as in MergedTo.                  *)
Merges(m, x, done) ==
  LET d == TheDocument
  IN /\ setting \in Setting /\ chunker \in ChunkerState /\ Proper(d) /\ AllSound(chunker, d) /\ chunker.rows = <<>>
     /\ chunker.pc = "merge" /\ MergedTo(chunker, m, x, done, d)
     /\ \A k \in 1..Len(chunker.pieces) : \E j \in DOMAIN d.pieces : chunker.pieces[k] = d.pieces[j]
     /\ InText(chunker.buffer, d)
     /\ TokensIn(chunker.buffer, d) <= chunker.bufferTokens /\ chunker.bufferTokens <= d.size + d.overlap

LEMMA MergesIf ==
  ASSUME ChunkerInv, chunker.pc = "merge"
  PROVE  \E m, x, done : Merges(m, x, done)
BY DEF ChunkerInv, Holds, Merged, Merges

(* A step of the merge takes the first piece p, what was done before it    *)
(* ends at from.                                                           *)
Takes(p, done) ==
  LET d == TheDocument
  IN /\ p = Piece /\ p \in Seq(Nat) /\ PieceIn(p, done + 1, d.end, d.words, d.room) /\ done \in Nat
     /\ From(p) \in Nat \ {0} /\ To(p) \in Nat /\ done < From(p) /\ From(p) <= To(p)
     /\ \E j \in DOMAIN d.pieces : p = d.pieces[j]
     /\ \A i \in DOMAIN p : p[i] \in 1..d.end
     /\ Covers(Tail(chunker.pieces), To(p) + 1, d) /\ Tail(chunker.pieces) \in PieceLists
     /\ \A k \in 1..Len(Tail(chunker.pieces)) : \E j \in DOMAIN d.pieces : Tail(chunker.pieces)[k] = d.pieces[j]
     /\ \A w \in d.words : ~(done < w /\ w <= From(p) - 1)
     /\ Between(From(p), To(p), d) = Between(done + 1, To(p), d)

LEMMA TakesTells ==
  ASSUME NEW p, NEW done, Takes(p, done)
  PROVE  /\ p \in Seq(Nat) /\ Tail(chunker.pieces) \in PieceLists /\ Covers(Tail(chunker.pieces), To(p) + 1, TheDocument)
         /\ To(p) \in Nat /\ done < To(p) /\ done \in Nat
         /\ \A k \in 1..Len(Tail(chunker.pieces)) : \E j \in DOMAIN TheDocument.pieces : Tail(chunker.pieces)[k] = TheDocument.pieces[j]
<1>1. done \in Nat /\ From(p) \in Nat \ {0} /\ To(p) \in Nat /\ done < From(p) /\ From(p) <= To(p)
  BY DEF Takes
<1>2. done < To(p)
  BY <1>1
<1> QED
  BY <1>1, <1>2, Zenon DEF Takes

LEMMA TakesPiece ==
  ASSUME NEW m, NEW x, NEW done, Merges(m, x, done), chunker.pieces # <<>>
  PROVE  Takes(Piece, done)
<1> DEFINE d == TheDocument
           q == chunker.pieces
           p == Head(q)
           lo == done + 1
<1>1. Proper(d) /\ Covers(q, lo, d) /\ q # <<>> /\ done \in Nat
  BY DEF Merges, MergedTo
<1>2. \A k \in 1..Len(q) : \E j \in DOMAIN d.pieces : q[k] = d.pieces[j]
  BY DEF Merges
<1>3. lo \in Nat \ {0} /\ \A w \in d.words : w \in Nat
  BY <1>1 DEF Proper
<1> HIDE DEF d, lo, q
<1>4. /\ PieceIn(p, lo, d.end, d.words, d.room) /\ p = q[1] /\ p \in Seq(Nat)
      /\ Covers(Tail(q), To(p) + 1, d)
      /\ Tail(q) \in PieceLists /\ Len(Tail(q)) = Len(q) - 1 /\ \A k \in 1..(Len(q) - 1) : Tail(q)[k] = q[k + 1]
      /\ \A w \in d.words : lo <= w => From(p) <= w
  BY <1>1, <1>3, HeadCovers
<1> HIDE DEF p
<1>5. From(p) \in Nat \ {0} /\ To(p) \in Nat /\ lo <= From(p) /\ From(p) <= To(p)
  <2>1. From(p) \in Nat /\ To(p) \in Nat /\ lo <= From(p) /\ From(p) <= To(p)
    BY <1>4, PieceOrder
  <2> HIDE DEF From, To
  <2>2. From(p) # 0
    BY <1>3, <2>1
  <2> QED
    BY <2>1, <2>2
<1> HIDE DEF From, To
<1>6. Len(q) \in Nat /\ Len(q) >= 1
  BY <1>1 DEF Covers, PieceLists
<1>7. \E j \in DOMAIN d.pieces : p = d.pieces[j]
  BY <1>2, <1>4, <1>6
<1>8. \A k \in 1..Len(Tail(q)) : \E j \in DOMAIN d.pieces : Tail(q)[k] = d.pieces[j]
  <2>1. \A k \in 1..Len(Tail(q)) : k + 1 \in 1..Len(q) /\ Tail(q)[k] = q[k + 1]
    BY <1>4, <1>6
  <2> QED
    BY <1>2, <2>1
<1>9. ASSUME NEW w \in d.words, done < w, w <= From(p) - 1 PROVE FALSE
  <2>1. w \in Nat /\ lo = done + 1 /\ done \in Nat /\ From(p) \in Nat
    BY <1>1, <1>3, <1>5 DEF lo
  <2>2. lo <= w
    BY <1>9, <2>1
  <2>3. From(p) <= w
    BY <1>4, <2>2
  <2> QED
    BY <1>9, <2>1, <2>3
<1>10. Between(From(p), To(p), d) = Between(done + 1, To(p), d)
  BY <1>1, <1>3, <1>4, <1>5 DEF lo, Between
<1>11. done < From(p)
  BY <1>1, <1>5 DEF lo
<1>12. p = Piece
  BY DEF p, q, Piece
<1>13. \A i \in DOMAIN p : p[i] \in 1..d.end
  <2>1. DOMAIN p = 1..Len(p) /\ To(p) <= d.end /\ \A i \in 1..Len(p) : p[i] \in Nat /\ From(p) <= p[i] /\ p[i] <= To(p)
    BY <1>4, PieceOrder
  <2>2. d.end \in Nat
    BY <1>1 DEF Proper
  <2> QED
    BY <1>5, <2>1, <2>2
<1> QED
  BY <1>1, <1>4, <1>5, <1>7, <1>8, <1>9, <1>10, <1>11, <1>12, <1>13 DEF Takes, d, q, lo

(* The buffer becomes a chunk.                                             *)
LEMMA PushTells ==
  ASSUME NEW m, NEW x, NEW done, Merges(m, x, done),
         NEW pushed, pushed = Append(chunker.chunks, chunker.buffer)
  PROVE  /\ pushed \in Seq(AnyChunk) /\ Len(pushed) = Len(chunker.chunks) + 1
         /\ TellUpTo(pushed, Len(pushed), done, TheDocument)
         /\ \A k \in 1..Len(pushed) : Sound(pushed[k], TheDocument)
<1> DEFINE d == TheDocument
           s == chunker.chunks
           c == chunker.buffer
           n == Len(s)
<1>1. s \in Seq(AnyChunk) /\ c \in AnyChunk /\ n \in Nat
  <2>1. chunker \in ChunkerState
    BY DEF Merges
  <2>2. s \in Seq(AnyChunk) /\ c \in AnyChunk
    BY <2>1 DEF ChunkerState
  <2> HIDE DEF s, c
  <2> QED
    BY <2>2
<1>2. /\ Proper(d) /\ InText(c, d) /\ \A k \in 1..n : Sound(s[k], d)
      /\ TellUpTo(s, n, m, d) /\ WordsIn(c, d) = Between(x, done, d)
      /\ m \in Nat /\ x \in Nat \ {0} /\ done \in Nat /\ x <= m + 1 /\ m <= done
      /\ TokensIn(c, d) <= chunker.bufferTokens /\ chunker.bufferTokens <= d.size + d.overlap
  BY DEF Merges, MergedTo, AllSound
<1>3. TokensIn(c, d) <= d.size + d.overlap
  <2>1. TokensIn(c, d) \in Nat
    <3>1. <<>> \in Seq(Nat)
      OBVIOUS
    <3> HIDE DEF c, d
    <3> QED
      BY <1>1, <1>2, <3>1, JoinedTokens
  <2>2. d.size \in Nat /\ d.overlap \in Nat
    BY <1>2 DEF Proper
  <2>3. chunker.bufferTokens \in Nat
    BY DEF Merges, ChunkerState
  <2> DEFINE z == TokensIn(c, d)
             b == chunker.bufferTokens
             g == d.size
             o == d.overlap
  <2>4. z \in Nat /\ g \in Nat /\ o \in Nat /\ b \in Nat /\ z <= b /\ b <= g + o
    BY <1>2, <2>1, <2>2, <2>3
  <2> HIDE DEF z, b, g, o
  <2>5. z <= g + o
    BY <2>4
  <2> QED
    BY <2>5 DEF z, g, o
<1> HIDE DEF s, c, d
<1>4. pushed = Append(s, c)
  BY DEF s, c
<1> HIDE DEF n
<1>5. /\ pushed \in Seq(AnyChunk) /\ Len(pushed) = n + 1 /\ pushed[n + 1] = c
      /\ \A k \in 1..n : pushed[k] = s[k]
  BY <1>1, <1>4 DEF n
<1>6. TellUpTo(pushed, n, m, d)
  BY <1>1, <1>2, <1>5, TellsSame
<1>7. WordsIn(pushed[n + 1], d) = Between(x, done, d)
  BY <1>2, <1>5
<1>8. GoesOn(pushed, n, m, x, done, d)
  BY <1>1, <1>2, <1>6, <1>7 DEF GoesOn
<1>9. TellUpTo(pushed, n + 1, done, d)
  BY <1>2, <1>8, TellsMore
<1>10. Sound(c, d)
  BY <1>2, <1>3 DEF Bounded, Sound
<1>11. \A k \in 1..(n + 1) : Sound(pushed[k], d)
  <2>1. \A k \in 1..(n + 1) : k \in 1..n \/ k = n + 1
    BY <1>1
  <2> QED
    BY <1>2, <1>5, <1>10, <2>1
<1> QED
  BY <1>5, <1>9, <1>11 DEF n, s, d

LEMMA MergedHolds ==
  ASSUME NEW d, NEW ch, ch \in ChunkerState, ch.pc = "merge", ch.rows = <<>>, Proper(d), AllSound(ch, d), Merged(ch, d)
  PROVE  Holds(ch, d)
BY DEF Holds

(* The words of the buffer with the piece behind it.                       *)
LEMMA BufferWords ==
  ASSUME NEW p, NEW done, Takes(p, done), Proper(TheDocument), NEW c \in AnyChunk, NEW x \in Nat \ {0}, x <= done + 1,
         WordsIn(c, TheDocument) = Between(x, done, TheDocument)
  PROVE  WordsIn(Joined(c, p), TheDocument) = Between(x, To(p), TheDocument)
<1> DEFINE d == TheDocument
           e == [strange |-> 0, own |-> p]
<1>1. /\ p \in Seq(Nat) /\ PieceIn(p, done + 1, d.end, d.words, d.room) /\ To(p) \in Nat /\ done < To(p) /\ done \in Nat
      /\ Between(From(p), To(p), d) = Between(done + 1, To(p), d)
  BY DEF Takes
<1>2. e.own = p
  OBVIOUS
<1>3. \A w \in d.words : w \in Nat
  BY DEF Proper
<1> HIDE DEF d, e
<1>4. WordsIn(e, d) = Between(From(e.own), To(e.own), d)
  <2>1. PieceIn(e.own, done + 1, d.end, d.words, d.room)
    BY <1>1, <1>2
  <2> QED
    BY <2>1, PieceWords
<1>5. WordsIn(e, d) = Between(done + 1, To(p), d)
  BY <1>1, <1>2, <1>4
<1>6. WordsIn(Joined(c, p), d) = WordsIn(c, d) \cup WordsIn(e, d)
  BY <1>1, JoinedWords DEF e
<1>7. WordsIn(Joined(c, p), d) = Between(x, done, d) \cup Between(done + 1, To(p), d)
  BY <1>5, <1>6 DEF d
<1>8. Between(x, done, d) \cup Between(done + 1, To(p), d) = Between(x, To(p), d)
  BY <1>1, <1>3 DEF Between
<1> QED
  BY <1>7, <1>8 DEF d

LEMMA BufferInText ==
  ASSUME NEW p, NEW done, Takes(p, done), NEW c \in AnyChunk, InText(c, TheDocument)
  PROVE  InText(Joined(c, p), TheDocument)
<1> DEFINE d == TheDocument
           s == c.own
           a == Len(s)
           b == Len(p)
           t == s \o p
<1>1. s \in Seq(Nat) /\ p \in Seq(Nat) /\ \A i \in DOMAIN p : p[i] \in 1..d.end
  BY DEF Takes, AnyChunk
<1>2. \A i \in DOMAIN s : s[i] \in 1..d.end
  BY DEF InText
<1>3. Joined(c, p).own = t
  BY <1>1, JoinedWords
<1> HIDE DEF s, d
<1>4. a \in Nat /\ b \in Nat /\ DOMAIN s = 1..a /\ DOMAIN p = 1..b /\ DOMAIN t = 1..(a + b)
  BY <1>1
<1>5. \A i \in 1..(a + b) : t[i] = IF i <= a THEN s[i] ELSE p[i - a]
  BY <1>1
<1> HIDE DEF a, b, t
<1>6. ASSUME NEW i \in 1..(a + b) PROVE t[i] \in 1..d.end
  <2>1. CASE i <= a
    <3>1. i \in 1..a
      BY <1>4, <2>1
    <3> QED
      BY <1>2, <1>4, <1>5, <2>1, <3>1
  <2>2. CASE ~(i <= a)
    <3>1. i - a \in 1..b
      BY <1>4, <2>2
    <3> QED
      BY <1>1, <1>4, <1>5, <2>2, <3>1
  <2> QED
    BY <2>1, <2>2
<1> QED
  BY <1>3, <1>4, <1>6 DEF InText, d

LEMMA JoinHolds ==
  ASSUME ChunkerInv, Join
  PROVE  ChunkerInv'
<1> DEFINE d == TheDocument
           p == Piece
           c == chunker.buffer
           b == Joined(c, p)
           q == Tail(chunker.pieces)
           t == chunker.bufferTokens
<1>1. chunker.pc = "merge" /\ chunker.pieces # <<>> /\ text' = text /\ setting' = setting
  BY DEF Join, Merging
<1>2. PICK m, x, done : Merges(m, x, done)
  BY <1>1, MergesIf
<1>3. Takes(p, done)
  BY <1>1, <1>2, TakesPiece
<1>4. chunker \in ChunkerState /\ c \in AnyChunk /\ t \in Nat /\ setting \in Setting
  BY <1>2 DEF Merges, ChunkerState
<1>5. countTokens(p) = Ceiling(Len(p), d.density)
  BY TokensAreCeiling DEF TheDocument
<1>6. chunker' = [chunker EXCEPT !.pieces = q, !.buffer = b, !.bufferTokens = t + countTokens(p)]
  BY DEF Join, Joined
<1>7. ~(t + countTokens(p) > setting.chunkSize) /\ d.size = setting.chunkSize
  BY DEF Join, Overflows, TheDocument
<1>8. /\ p \in Seq(Nat) /\ q \in PieceLists /\ Covers(q, To(p) + 1, d) /\ To(p) \in Nat /\ done < To(p) /\ done \in Nat
      /\ \A k \in 1..Len(q) : \E j \in DOMAIN d.pieces : q[k] = d.pieces[j]
  BY <1>3, TakesTells, Zenon
<1>9. /\ Proper(d) /\ AllSound(chunker, d) /\ chunker.rows = <<>> /\ TokensIn(c, d) <= t /\ InText(c, d)
      /\ m \in Nat /\ x \in Nat \ {0} /\ x <= m + 1 /\ m <= done
      /\ TellUpTo(chunker.chunks, Len(chunker.chunks), m, d) /\ WordsIn(c, d) = Between(x, done, d)
  BY <1>2 DEF Merges, MergedTo
<1>10. d.size \in Nat /\ d.overlap \in Nat
  BY <1>9 DEF Proper
<1>11. x <= done + 1
  BY <1>8, <1>9
<1>12. WordsIn(b, d) = Between(x, To(p), d) /\ InText(b, d)
  BY <1>3, <1>4, <1>9, <1>11, BufferWords, BufferInText
<1> HIDE DEF d, p, q, c, t
<1>13. b \in AnyChunk
  BY <1>4, <1>8, JoinedWords
<1>14. /\ TokensIn(c, d) \in Nat /\ TokensIn(b, d) \in Nat /\ Ceiling(Len(p), d.density) \in Nat
       /\ TokensIn(b, d) <= TokensIn(c, d) + Ceiling(Len(p), d.density)
  <2>1. Proper(d) /\ c \in AnyChunk /\ p \in Seq(Nat)
    BY <1>4, <1>8, <1>9
  <2> QED
    BY <2>1, JoinedTokens
<1> HIDE DEF b
<1> DEFINE u == t + countTokens(p)
<1>15. u \in Nat /\ TokensIn(b, d) <= u /\ u <= d.size + d.overlap
  <2> DEFINE v == countTokens(p)
             y == TokensIn(b, d)
             z == TokensIn(c, d)
  <2>1. v \in Nat /\ y \in Nat /\ z \in Nat /\ t \in Nat /\ y <= z + v /\ z <= t
    BY <1>4, <1>5, <1>9, <1>14
  <2>2. t + v <= d.size /\ d.size \in Nat /\ d.overlap \in Nat
    BY <1>7, <1>10, <2>1
  <2> HIDE DEF v, y, z
  <2>3. t + v \in Nat /\ y <= t + v /\ t + v <= d.size + d.overlap
    BY <2>1, <2>2
  <2> QED
    BY <2>3 DEF v, y
<1>16. chunker' = [chunker EXCEPT !.pieces = q, !.buffer = b, !.bufferTokens = u]
  BY <1>6
<1> HIDE DEF u
<1>17. /\ chunker' \in ChunkerState /\ chunker'.pc = "merge" /\ chunker'.rows = chunker.rows /\ chunker'.chunks = chunker.chunks
       /\ chunker'.pieces = q /\ chunker'.buffer = b /\ chunker'.bufferTokens = u
  BY <1>1, <1>4, <1>8, <1>13, <1>15, <1>16 DEF ChunkerState
<1>18. AllSound(chunker', d)
  BY <1>9, <1>17 DEF AllSound
<1>19. MergedTo(chunker', m, x, To(p), d)
  BY <1>8, <1>9, <1>12, <1>17 DEF MergedTo
<1>20. Merged(chunker', d)
  BY <1>8, <1>12, <1>15, <1>17, <1>19 DEF Merged
<1>21. Holds(chunker', d)
  BY <1>9, <1>17, <1>18, <1>20, MergedHolds
<1> QED
  BY <1>1, <1>4, <1>17, <1>21, HoldsNext DEF d

(* What is kept of the buffer when it becomes a chunk.                     *)
LEMMA OverlapIs ==
  ASSUME NEW m, NEW x, NEW done, Merges(m, x, done), NEW o \in tailTokens(chunker.buffer)
  PROVE  /\ o \in AnyChunk /\ InText(o, TheDocument)
         /\ TokensIn(o, TheDocument) \in Nat /\ TokensIn(o, TheDocument) <= setting.chunkOverlap
         /\ \E y \in Nat \ {0} : y <= done + 1 /\ WordsIn(o, TheDocument) = Between(y, done, TheDocument)
<1> DEFINE d == TheDocument
           c == chunker.buffer
           w == setting.chunkOverlap
           none == <<>>
<1>1. /\ Proper(d) /\ setting \in Setting /\ c \in AnyChunk /\ WordsIn(c, d) = Between(x, done, d) /\ InText(c, d)
      /\ m \in Nat /\ x \in Nat \ {0} /\ done \in Nat /\ x <= m + 1 /\ m <= done
  BY DEF Merges, MergedTo, ChunkerState
<1>2. w \in Nat
  BY <1>1, SettingFacts
<1>3. Tokens(c) = TokensIn(c, d)
  BY TokensAreCeiling DEF Tokens, TokensIn, TheDocument
<1>4. (o = c /\ Tokens(c) <= w) \/ (\E n \in 0..w : o = [strange |-> n, own |-> none])
  BY DEF tailTokens
<1>5. none \in Seq(Nat) /\ Len(none) = 0 /\ DOMAIN none = {}
  OBVIOUS
<1> HIDE DEF d, c, w, none
<1>6. TokensIn(c, d) \in Nat
  BY <1>1, <1>5, JoinedTokens
<1>7. CASE o = c /\ Tokens(c) <= w
  <2>1. x <= done + 1
    BY <1>1
  <2> QED
    BY <1>1, <1>3, <1>6, <1>7, <2>1 DEF d, w
<1>8. CASE \E n \in 0..w : o = [strange |-> n, own |-> none]
  <2>1. PICK n \in 0..w : o = [strange |-> n, own |-> none]
    BY <1>8
  <2>2. n \in Nat /\ n <= w
    BY <1>2
  <2>3. o \in AnyChunk /\ o.own = none /\ o.strange = n
    BY <1>5, <2>1, <2>2 DEF AnyChunk
  <2>4. Ceiling(0, d.density) = 0
    <3>1. d.density \in Nat \ {0}
      BY <1>1 DEF Proper
    <3>2. Ceiling(0, d.density) <= 0 /\ Ceiling(0, d.density) \in Nat
      BY <3>1, CeilingSums, CeilingIs
    <3> QED
      BY <3>2
  <2>5. TokensIn(o, d) = n
    BY <1>5, <2>2, <2>3, <2>4 DEF TokensIn
  <2>6. WordsIn(o, d) = {} /\ InText(o, d)
    BY <1>5, <2>3 DEF WordsIn, InText
  <2>7. Between(done + 1, done, d) = {}
    <3>1. \A p \in d.words : p \in Nat
      BY <1>1 DEF Proper
    <3> QED
      BY <1>1, <3>1 DEF Between
  <2>8. done + 1 \in Nat \ {0} /\ done + 1 <= done + 1
    BY <1>1
  <2> QED
    BY <2>2, <2>3, <2>5, <2>6, <2>7, <2>8 DEF d, w
<1> QED
  BY <1>4, <1>7, <1>8

LEMMA CommitHolds ==
  ASSUME ChunkerInv, Commit
  PROVE  ChunkerInv'
<1> DEFINE d == TheDocument
           p == Piece
           q == Tail(chunker.pieces)
           pushed == Append(chunker.chunks, chunker.buffer)
<1>1. chunker.pc = "merge" /\ chunker.pieces # <<>> /\ text' = text /\ setting' = setting
  BY DEF Commit, Merging
<1>2. PICK m, x, done : Merges(m, x, done)
  BY <1>1, MergesIf
<1>3. Takes(p, done)
  BY <1>1, <1>2, TakesPiece
<1>4. PICK o \in tailTokens(chunker.buffer) :
        chunker' = [chunker EXCEPT !.pieces = q, !.chunks = pushed, !.buffer = Joined(o, p), !.bufferTokens = Tokens(Joined(o, p))]
  BY DEF Commit, Joined
<1> DEFINE b == Joined(o, p)
           u == Tokens(b)
<1>5. /\ o \in AnyChunk /\ InText(o, d) /\ TokensIn(o, d) \in Nat /\ TokensIn(o, d) <= setting.chunkOverlap
      /\ \E y \in Nat \ {0} : y <= done + 1 /\ WordsIn(o, d) = Between(y, done, d)
  BY <1>2, OverlapIs
<1>6. PICK y \in Nat \ {0} : y <= done + 1 /\ WordsIn(o, d) = Between(y, done, d)
  BY <1>5
<1>7. chunker \in ChunkerState /\ setting \in Setting /\ chunker.rows = <<>> /\ Proper(d)
  BY <1>2 DEF Merges
<1>8. WordsIn(b, d) = Between(y, To(p), d) /\ InText(b, d)
  BY <1>3, <1>5, <1>6, <1>7, BufferWords, BufferInText
<1>9. u = TokensIn(b, d)
  BY TokensAreCeiling DEF Tokens, TokensIn, TheDocument
<1>10. countTokens(p) = Ceiling(Len(p), d.density) /\ countTokens(p) <= setting.chunkSize
  BY TokensAreCeiling DEF TheDocument, Commit
<1>11. /\ pushed \in Seq(AnyChunk) /\ TellUpTo(pushed, Len(pushed), done, d)
       /\ \A k \in 1..Len(pushed) : Sound(pushed[k], d)
  BY <1>2, PushTells
<1>12. /\ p \in Seq(Nat) /\ q \in PieceLists /\ Covers(q, To(p) + 1, d) /\ To(p) \in Nat /\ done < To(p) /\ done \in Nat
       /\ \A k \in 1..Len(q) : \E j \in DOMAIN d.pieces : q[k] = d.pieces[j]
  BY <1>3, TakesTells, Zenon
<1>13. /\ d.size = setting.chunkSize /\ d.overlap = setting.chunkOverlap /\ setting.chunkSize \in Nat
       /\ setting.chunkOverlap \in Nat
  BY <1>7, SettingFacts DEF TheDocument
<1> HIDE DEF d, p, q, pushed
<1>14. b \in AnyChunk
  BY <1>5, <1>12, JoinedWords
<1>15. /\ TokensIn(b, d) \in Nat /\ Ceiling(Len(p), d.density) \in Nat
       /\ TokensIn(b, d) <= TokensIn(o, d) + Ceiling(Len(p), d.density)
  BY <1>5, <1>7, <1>12, JoinedTokens
<1> HIDE DEF b
<1>16. u \in Nat /\ TokensIn(b, d) <= u /\ u <= d.size + d.overlap
  BY <1>5, <1>9, <1>10, <1>13, <1>15
<1>17. chunker' = [chunker EXCEPT !.pieces = q, !.chunks = pushed, !.buffer = b, !.bufferTokens = u]
  BY <1>4 DEF b
<1> HIDE DEF u
<1>18. /\ chunker' \in ChunkerState /\ chunker'.pc = "merge" /\ chunker'.rows = chunker.rows /\ chunker'.chunks = pushed
       /\ chunker'.pieces = q /\ chunker'.buffer = b /\ chunker'.bufferTokens = u
  BY <1>1, <1>7, <1>11, <1>12, <1>14, <1>16, <1>17 DEF ChunkerState
<1>19. AllSound(chunker', d)
  BY <1>11, <1>18 DEF AllSound
<1>20. done <= To(p)
  BY <1>12
<1>21. MergedTo(chunker', done, y, To(p), d)
  BY <1>6, <1>8, <1>11, <1>12, <1>18, <1>20 DEF MergedTo
<1>22. Merged(chunker', d)
  BY <1>8, <1>12, <1>16, <1>18, <1>21 DEF Merged
<1>23. Holds(chunker', d)
  BY <1>7, <1>18, <1>19, <1>22, MergedHolds
<1> QED
  BY <1>1, <1>7, <1>18, <1>23, HoldsNext DEF d

LEMMA HardSplitHolds ==
  ASSUME ChunkerInv, HardSplit
  PROVE  ChunkerInv'
<1> DEFINE d == TheDocument
           p == Piece
           q == Tail(chunker.pieces)
           s == chunker.chunks
           pushed == IF chunker.buffer = Nothing THEN s ELSE Append(s, chunker.buffer)
           size == setting.chunkSize * CutFactor
           h == HardSlices(p, size)
           all == pushed \o h
<1>1. chunker.pc = "merge" /\ chunker.pieces # <<>> /\ text' = text /\ setting' = setting
  BY DEF HardSplit, Merging
<1>2. PICK m, x, done : Merges(m, x, done)
  BY <1>1, MergesIf
<1>3. Takes(p, done)
  BY <1>1, <1>2, TakesPiece
<1>4. chunker' = [chunker EXCEPT !.pieces = q, !.chunks = all, !.buffer = Nothing, !.bufferTokens = 0]
  BY DEF HardSplit, hardSplit, HardSlices
<1>5. /\ chunker \in ChunkerState /\ setting \in Setting /\ chunker.rows = <<>> /\ Proper(d)
      /\ TellUpTo(s, Len(s), m, d) /\ WordsIn(chunker.buffer, d) = Between(x, done, d)
      /\ m \in Nat /\ x \in Nat \ {0} /\ done \in Nat /\ x <= m + 1 /\ m <= done
      /\ \A k \in 1..Len(s) : Sound(s[k], d)
  BY <1>2 DEF Merges, MergedTo, AllSound
<1>6. /\ p \in Seq(Nat) /\ q \in PieceLists /\ Covers(q, To(p) + 1, d) /\ To(p) \in Nat /\ done < From(p)
      /\ From(p) \in Nat \ {0} /\ From(p) <= To(p) /\ PieceIn(p, done + 1, d.end, d.words, d.room)
      /\ \A k \in 1..Len(q) : \E j \in DOMAIN d.pieces : q[k] = d.pieces[j]
      /\ \E j \in DOMAIN d.pieces : p = d.pieces[j]
      /\ \A i \in DOMAIN p : p[i] \in 1..d.end
      /\ \A w \in d.words : ~(done < w /\ w <= From(p) - 1)
  BY <1>3 DEF Takes
<1>7. /\ d.size = setting.chunkSize /\ d.overlap = setting.chunkOverlap /\ setting.chunkSize \in Nat
      /\ setting.chunkOverlap \in Nat
  BY <1>5, SettingFacts DEF TheDocument
<1>8. size \in Nat \ {0} /\ size = CutFactor * d.size
  <2>1. d.overlap < d.size /\ CutFactor \in Nat \ {0}
    BY <1>5, LimitsAssumption DEF Proper
  <2>2. d.size \in Nat \ {0}
    BY <1>7, <2>1
  <2>3. \A a, b \in Nat \ {0} : a * b \in Nat \ {0} /\ a * b = b * a
    OBVIOUS
  <2> QED
    BY <1>7, <2>1, <2>2, <2>3
<1>9. Ceiling(Len(p), d.density) > d.size
  BY TokensAreCeiling DEF TheDocument, HardSplit
<1>10. s \in Seq(AnyChunk)
  BY <1>5 DEF ChunkerState
<1>11. /\ pushed \in Seq(AnyChunk) /\ TellUpTo(pushed, Len(pushed), done, d)
       /\ \A k \in 1..Len(pushed) : Sound(pushed[k], d)
  <2>1. CASE chunker.buffer = Nothing
    <3>1. Between(x, done, d) = {}
      BY <1>5, <2>1, NothingIs
    <3>2. \A w \in d.words : w \in Nat
      BY <1>5 DEF Proper
    <3>3. \A w \in d.words : ~(m < w /\ w <= done)
      <4> SUFFICES ASSUME NEW w \in d.words, m < w, w <= done PROVE FALSE
        OBVIOUS
      <4>1. w \in Nat
        BY <3>2
      <4>2. x <= w
        BY <1>5, <4>1
      <4> QED
        BY <3>1, <4>2 DEF Between
    <3>4. Len(s) \in Nat
      BY <1>10
    <3> HIDE DEF d, s
    <3>5. TellUpTo(s, Len(s), done, d)
      BY <1>5, <3>3, <3>4, TellsFurther
    <3>6. pushed = s
      BY <2>1
    <3> QED
      BY <1>5, <1>10, <3>5, <3>6
  <2>2. CASE chunker.buffer # Nothing
    <3>1. pushed = Append(s, chunker.buffer)
      BY <2>2
    <3> QED
      BY <1>2, <3>1, PushTells
  <2> QED
    BY <2>1, <2>2
<1> HIDE DEF d, p, q, s, pushed, size
<1>12. /\ h \in Seq(AnyChunk) /\ Len(h) = Ceiling(Len(p), size) /\ Ceiling(Len(p), size) \in Nat
       /\ \A k \in 1..Ceiling(Len(p), size) : SliceIn(h[k], p, size, d)
  <2> DEFINE lo == done + 1
  <2>1. lo \in Nat \ {0} /\ PieceIn(p, lo, d.end, d.words, d.room) /\ Proper(d) /\ size \in Nat \ {0}
    BY <1>5, <1>6, <1>8
  <2> HIDE DEF lo
  <2> QED
    BY <2>1, HardSlicesAre
<1> HIDE DEF h
<1> DEFINE n == Len(pushed)
           e == Ceiling(Len(p), size)
<1>13. /\ n \in Nat /\ e \in Nat /\ all \in Seq(AnyChunk) /\ Len(all) = n + e /\ \A k \in 1..n : all[k] = pushed[k]
       /\ \A k \in 1..e : all[n + k] = h[k]
  BY <1>11, <1>12
<1> HIDE DEF n, e, all
<1>14. TellUpTo(all, n, done, d)
  BY <1>11, <1>13, TellsSame DEF n
<1>15. TellUpTo(all, n, From(p) - 1, d)
  <2> DEFINE z == From(p) - 1
  <2>1. z \in Nat /\ done <= z /\ done \in Nat /\ \A w \in d.words : ~(done < w /\ w <= z)
    BY <1>5, <1>6
  <2> HIDE DEF z
  <2>2. TellUpTo(all, n, z, d)
    BY <1>5, <1>13, <1>14, <2>1, TellsFurther
  <2> QED
    BY <2>2 DEF z
<1>16. Goes(all, n, p, size)
  BY <1>13 DEF Goes, e, h
<1>17. TellUpTo(all, n + e, To(p), d)
  <2> DEFINE lo == done + 1
  <2>1. lo \in Nat \ {0} /\ PieceIn(p, lo, d.end, d.words, d.room) /\ Proper(d) /\ size \in Nat \ {0} /\ n \in Nat
    BY <1>5, <1>6, <1>8, <1>13
  <2> HIDE DEF lo
  <2> QED
    BY <1>15, <1>16, <2>1, HardTells DEF e
<1>18. \A k \in 1..e : Sound(h[k], d)
  <2> TAKE k \in 1..e
  <2>1. /\ h[k].strange = 0 /\ Len(h[k].own) <= size /\ Narrow(h[k], d)
        /\ \A i \in DOMAIN h[k].own : \E j \in DOMAIN p : h[k].own[i] = p[j]
    BY <1>12 DEF SliceIn, e
  <2>2. PICK j \in DOMAIN d.pieces : p = d.pieces[j]
    BY <1>6
  <2>3. SlicedOf(h[k], d)
    BY <1>9, <2>1, <2>2 DEF SlicedOf
  <2>4. InText(h[k], d)
    BY <1>6, <2>1 DEF InText
  <2> QED
    BY <1>8, <2>1, <2>3, <2>4 DEF Bounded, Sound
<1>19. \A k \in 1..(n + e) : Sound(all[k], d)
  <2> TAKE k \in 1..(n + e)
  <2>1. CASE k <= n
    <3>1. k \in 1..n
      BY <1>13, <2>1
    <3> QED
      BY <1>11, <1>13, <3>1 DEF n
  <2>2. CASE ~(k <= n)
    <3>1. k - n \in 1..e /\ n + (k - n) = k
      BY <1>13, <2>2
    <3>2. all[n + (k - n)] = h[k - n] /\ Sound(h[k - n], d)
      BY <1>13, <1>18, <3>1
    <3> QED
      BY <3>1, <3>2
  <2> QED
    BY <2>1, <2>2
<1>20. /\ chunker' \in ChunkerState /\ chunker'.pc = "merge" /\ chunker'.rows = chunker.rows /\ chunker'.chunks = all
       /\ chunker'.pieces = q /\ chunker'.buffer = Nothing /\ chunker'.bufferTokens = 0
  BY <1>1, <1>4, <1>5, <1>6, <1>13, NothingIs DEF ChunkerState
<1>21. AllSound(chunker', d)
  BY <1>13, <1>19, <1>20 DEF AllSound
<1>22. MergedTo(chunker', To(p), To(p) + 1, To(p), d)
  <2> DEFINE z == To(p)
  <2>1. z \in Nat /\ z + 1 \in Nat \ {0} /\ z + 1 <= z + 1 /\ z <= z
    BY <1>6
  <2>2. Between(z + 1, z, d) = {}
    <3>1. \A w \in d.words : w \in Nat
      BY <1>5 DEF Proper
    <3> HIDE DEF z
    <3> QED
      BY <2>1, <3>1 DEF Between
  <2>3. WordsIn(chunker'.buffer, d) = {}
    BY <1>20, NothingIs
  <2> QED
    BY <1>6, <1>13, <1>17, <1>20, <2>1, <2>2, <2>3 DEF MergedTo
<1>23. TokensIn(Nothing, d) = 0 /\ d.size + d.overlap >= 0
  <2>1. d.density \in Nat \ {0} /\ d.size \in Nat /\ d.overlap \in Nat
    BY <1>5 DEF Proper
  <2>2. Ceiling(0, d.density) <= 0 /\ Ceiling(0, d.density) \in Nat
    BY <2>1, CeilingSums, CeilingIs
  <2>3. Len(Nothing.own) = 0
    BY NothingIs
  <2> QED
    BY <2>1, <2>2, <2>3, NothingIs DEF TokensIn
<1>24. Merged(chunker', d)
  <2>1. TokensIn(chunker'.buffer, d) <= chunker'.bufferTokens /\ chunker'.bufferTokens <= d.size + d.overlap
    BY <1>20, <1>23
  <2>2. InText(chunker'.buffer, d)
    BY <1>20, NothingIs
  <2> QED
    BY <1>6, <1>20, <1>22, <2>1, <2>2 DEF Merged
<1>25. Holds(chunker', d)
  BY <1>5, <1>20, <1>21, <1>24, MergedHolds
<1> QED
  BY <1>1, <1>5, <1>20, <1>25, HoldsNext DEF d

LEMMA EndMergeHolds ==
  ASSUME ChunkerInv, EndMerge
  PROVE  ChunkerInv'
<1> DEFINE d == TheDocument
           s == chunker.chunks
           c == chunker.buffer
           all == IF Trimmed(c) = Nothing THEN s ELSE Append(s, c)
           trimmed == [k \in DOMAIN all |-> Trimmed(all[k])]
           kept == {k \in DOMAIN trimmed : trimmed[k] # Nothing}
           r == Keep(trimmed, kept)
<1>1. chunker.pc = "merge" /\ chunker.pieces = <<>> /\ text' = text /\ setting' = setting
  BY DEF EndMerge
<1>2. PICK m, x, done : Merges(m, x, done)
  BY <1>1, MergesIf
<1>3. chunker' = [chunker EXCEPT !.pc = "embed", !.chunks = r]
  BY DEF EndMerge
<1>4. /\ chunker \in ChunkerState /\ setting \in Setting /\ chunker.rows = <<>> /\ Proper(d)
      /\ TellUpTo(s, Len(s), m, d) /\ WordsIn(c, d) = Between(x, done, d)
      /\ m \in Nat /\ x \in Nat \ {0} /\ done \in Nat /\ x <= m + 1 /\ m <= done
      /\ \A k \in 1..Len(s) : Sound(s[k], d)
      /\ Covers(chunker.pieces, done + 1, d)
  BY <1>2 DEF Merges, MergedTo, AllSound
<1>5. s \in Seq(AnyChunk) /\ c \in AnyChunk
  BY <1>4 DEF ChunkerState
<1>6. \A w \in d.words : w \in Nat /\ w >= 1 /\ w <= d.end /\ w <= done
  <2>1. d.words \subseteq 1..d.end /\ d.end \in Nat
    BY <1>4 DEF Proper
  <2>2. Len(chunker.pieces) = 0
    BY <1>1
  <2>3. \A w \in d.words : ~(done + 1 <= w)
    BY <1>4, <2>2 DEF Covers
  <2> HIDE DEF d
  <2> QED
    BY <1>4, <2>1, <2>3
<1>7. /\ all \in Seq(AnyChunk) /\ TellUpTo(all, Len(all), done, d) /\ \A k \in 1..Len(all) : Sound(all[k], d)
  <2>1. CASE Trimmed(c) = Nothing
    <3>1. WordsIn(c, d) = {}
      BY <1>5, <2>1, TrimmedShrinks, NothingIs DEF Shrinks
    <3>2. Between(x, done, d) = {}
      BY <1>4, <3>1
    <3>3. \A w \in d.words : ~(m < w /\ w <= done)
      <4> SUFFICES ASSUME NEW w \in d.words, m < w, w <= done PROVE FALSE
        OBVIOUS
      <4>1. w \in Nat
        BY <1>6
      <4>2. x <= w
        BY <1>4, <4>1
      <4> QED
        BY <3>2, <4>2 DEF Between
    <3>4. Len(s) \in Nat
      BY <1>5
    <3> HIDE DEF d, s
    <3>5. TellUpTo(s, Len(s), done, d)
      BY <1>4, <3>3, <3>4, TellsFurther
    <3>6. all = s
      BY <2>1
    <3> QED
      BY <1>4, <1>5, <3>5, <3>6
  <2>2. CASE Trimmed(c) # Nothing
    <3>1. all = Append(s, c)
      BY <2>2
    <3> QED
      BY <1>2, <3>1, PushTells
  <2> QED
    BY <2>1, <2>2
<1> HIDE DEF all
<1> DEFINE n == Len(all)
<1>8. n \in Nat /\ DOMAIN all = 1..n /\ \A k \in 1..n : all[k] \in AnyChunk
  BY <1>7
<1>9. \A k \in 1..n : Shrinks(Trimmed(all[k]), all[k], d)
  BY <1>8, TrimmedShrinks
<1>10. \A k \in 1..n : trimmed[k] = Trimmed(all[k])
  BY <1>8
<1>11. trimmed \in Seq(AnyChunk) /\ Len(trimmed) = n
  <2>1. \A k \in 1..n : Trimmed(all[k]) \in AnyChunk
    BY <1>9 DEF Shrinks
  <2>2. trimmed = [k \in 1..n |-> Trimmed(all[k])]
    BY <1>8
  <2> HIDE DEF n
  <2> QED
    BY <1>8, <2>1, <2>2
<1> HIDE DEF trimmed, d
<1>12. \A k \in 1..n : Shrinks(trimmed[k], all[k], d)
  BY <1>9, <1>10
<1>13. TellUpTo(trimmed, n, done, d)
  <2>1. \A k \in 1..n : WordsIn(all[k], d) = WordsIn(trimmed[k], d)
    BY <1>12 DEF Shrinks
  <2>2. TellUpTo(all, n, done, d)
    BY <1>7
  <2> HIDE DEF n
  <2> QED
    BY <1>8, <2>1, <2>2, TellsSame
<1>14. LeavesOut(trimmed, kept, d)
  <2>1. \A k \in 1..Len(trimmed) : k \in DOMAIN trimmed
    BY <1>11
  <2>2. ASSUME NEW k \in 1..Len(trimmed), k \notin kept PROVE WordsIn(trimmed[k], d) = {}
    <3>1. trimmed[k] = Nothing
      BY <2>1, <2>2
    <3> QED
      BY <3>1, NothingIs
  <2> QED
    BY <1>11, <2>2 DEF LeavesOut
<1> HIDE DEF kept
<1>15. TellUpTo(trimmed, Len(trimmed), done, d)
  BY <1>11, <1>13
<1>16. /\ r \in Seq(AnyChunk) /\ TellUpTo(r, Len(r), done, d)
       /\ \A k \in 1..Len(r) : \E j \in 1..Len(trimmed) : r[k] = trimmed[j]
  BY <1>14, <1>15, KeptTells
<1> HIDE DEF r
<1>17. TellUpTo(r, Len(r), d.end, d)
  <2>1. Between(1, done, d) = Between(1, d.end, d)
    BY <1>6 DEF Between
  <2>2. d.end \in Nat
    BY <1>4 DEF Proper
  <2> QED
    BY <1>16, <2>1, <2>2 DEF TellUpTo
<1>18. ASSUME NEW a \in AnyChunk, NEW b \in AnyChunk, Shrinks(a, b, d), Bounded(b, d) PROVE Bounded(a, d)
  <2> DEFINE i == Len(a.own)
             j == Len(b.own)
             e == d.density
             u == a.strange
  <2>1. i \in Nat /\ j \in Nat /\ u \in Nat /\ i <= j /\ b.strange = u /\ e \in Nat \ {0}
    BY <1>4, <1>18 DEF Shrinks, AnyChunk, Proper
  <2>2. TokensIn(a, d) = u + Ceiling(i, e) /\ TokensIn(b, d) = u + Ceiling(j, e)
    BY <2>1 DEF TokensIn
  <2> HIDE DEF i, j, e, u
  <2>3. Ceiling(i, e) \in Nat /\ Ceiling(j, e) \in Nat
    BY <2>1, CeilingIs
  <2>4. Ceiling(i, e) <= Ceiling(j, e)
    BY <2>1, CeilingSums
  <2>5. TokensIn(a, d) \in Nat /\ TokensIn(b, d) \in Nat /\ TokensIn(a, d) <= TokensIn(b, d)
    BY <2>1, <2>2, <2>3, <2>4
  <2>6. d.size \in Nat /\ d.overlap \in Nat /\ CutFactor \in Nat
    BY <1>4, LimitsAssumption DEF Proper
  <2>7. CASE TokensIn(b, d) <= d.size + d.overlap
    <3>1. TokensIn(a, d) <= d.size + d.overlap
      BY <2>5, <2>6, <2>7
    <3> QED
      BY <3>1 DEF Bounded
  <2>8. CASE SlicedOf(b, d) /\ b.strange = 0 /\ Len(b.own) <= CutFactor * d.size /\ Narrow(b, d)
    <3>1. SlicedOf(a, d)
      <4>1. \A k \in DOMAIN a.own : \E l \in DOMAIN b.own : a.own[k] = b.own[l]
        BY <1>18 DEF Shrinks
      <4> QED
        BY <2>8, <4>1 DEF SlicedOf
    <3>2. Len(a.own) <= CutFactor * d.size
      <4> DEFINE z == CutFactor * d.size
      <4>1. z \in Nat /\ j <= z
        BY <2>6, <2>8 DEF j
      <4> HIDE DEF z
      <4>2. i <= z
        BY <2>1, <4>1
      <4> QED
        BY <4>2 DEF z, i
    <3>3. Narrow(a, d)
      BY <1>18, <2>8 DEF Shrinks, Narrow
    <3>4. a.strange = 0
      BY <1>18, <2>8 DEF Shrinks
    <3> QED
      BY <3>1, <3>2, <3>3, <3>4 DEF Bounded
  <2> QED
    BY <1>18, <2>7, <2>8 DEF Bounded
<1>19. ASSUME NEW k \in 1..Len(r) PROVE Sound(r[k], d)
  <2>1. PICK j \in 1..n : r[k] = trimmed[j]
    BY <1>11, <1>16
  <2>2. Shrinks(trimmed[j], all[j], d) /\ Sound(all[j], d) /\ all[j] \in AnyChunk
    BY <1>7, <1>8, <1>12
  <2>3. trimmed[j] \in AnyChunk /\ \A i \in DOMAIN trimmed[j].own : \E l \in DOMAIN all[j].own : trimmed[j].own[i] = all[j].own[l]
    BY <2>2 DEF Shrinks
  <2>4. InText(trimmed[j], d)
    BY <2>2, <2>3 DEF InText, Sound
  <2>5. Bounded(trimmed[j], d)
    BY <1>18, <2>2, <2>3 DEF Sound
  <2> QED
    BY <2>1, <2>4, <2>5 DEF Sound
<1>20. /\ chunker' \in ChunkerState /\ chunker'.pc = "embed" /\ chunker'.rows = <<>> /\ chunker'.chunks = r
  BY <1>3, <1>4, <1>16 DEF ChunkerState
<1>21. AllSound(chunker', d)
  BY <1>19, <1>20 DEF AllSound
<1>22. Written(chunker', d)
  <2>1. Len(chunker'.rows) = 0 /\ Len(r) \in Nat
    BY <1>16, <1>20
  <2> QED
    BY <1>17, <1>20, <2>1 DEF Written
<1>23. Holds(chunker', d)
  BY <1>4, <1>20, <1>21, <1>22 DEF Holds
<1> QED
  BY <1>1, <1>4, <1>20, <1>23, HoldsNext DEF d

LEMMA StoreBatchHolds ==
  ASSUME ChunkerInv, StoreBatch
  PROVE  ChunkerInv'
<1> DEFINE d == TheDocument
           s == chunker.chunks
           n == Len(s)
           m == Len(chunker.rows)
           e == IF m + EmbedBatch < n THEN m + EmbedBatch ELSE n
           batch == SubSeq(s, m + 1, e)
           answers == embedMany(batch)
           new == [j \in DOMAIN batch |-> [index |-> m + j - 1, content |-> batch[j], embedding |-> answers[j]]]
           rows == chunker.rows \o new
<1>1. Holds(chunker, d) /\ setting \in Setting
  BY DEF ChunkerInv
<1>2. chunker.pc = "embed" /\ text' = text /\ setting' = setting /\ m < n
  BY DEF StoreBatch, Stored
<1>3. chunker \in ChunkerState /\ Proper(d) /\ Written(chunker, d) /\ AllSound(chunker, d)
  BY <1>1, <1>2 DEF Holds
<1>4. chunker' = [chunker EXCEPT !.rows = rows]
  BY DEF StoreBatch, Stored, Slice
<1>5. s \in Seq(AnyChunk) /\ chunker.rows \in Seq(Row)
  BY <1>3 DEF ChunkerState
<1>6. n \in Nat /\ m \in Nat /\ EmbedBatch \in Nat \ {0}
  BY <1>5, LimitsAssumption
<1>7. e \in Nat /\ m < e /\ e <= n
  BY <1>2, <1>6
<1> HIDE DEF e, m
<1>8. batch \in Seq(AnyChunk) /\ Len(batch) = e - m /\ DOMAIN batch = 1..(e - m) /\ \A j \in 1..(e - m) : batch[j] = s[m + j]
  <2> HIDE DEF s
  <2> QED
    BY <1>5, <1>6, <1>7
<1> HIDE DEF batch
<1>9. Embedded(answers, batch, Len(batch), AnyChunk)
  BY <1>8, embedManyEmbeds
<1>10. \A j \in 1..(e - m) : answers[j] = Embedding(batch[j])
  BY <1>8, <1>9 DEF Embedded
<1> HIDE DEF answers
<1>11. \A j \in 1..(e - m) : new[j] = RowOf(s, m + j)
  BY <1>6, <1>7, <1>8, <1>10 DEF RowOf
<1>12. \A j \in 1..(e - m) : new[j] \in Row
  <2> TAKE j \in 1..(e - m)
  <2>1. m + j - 1 \in Nat /\ batch[j] \in AnyChunk
    BY <1>6, <1>8
  <2>2. Embedding(batch[j]) \in Embeddings(AnyChunk)
    BY <2>1 DEF Embeddings
  <2>3. new[j] = [index |-> m + j - 1, content |-> batch[j], embedding |-> Embedding(batch[j])]
    BY <1>8, <1>10
  <2> HIDE DEF new
  <2> QED
    BY <2>1, <2>2, <2>3 DEF Row
<1>13. new \in Seq(Row) /\ Len(new) = e - m
  <2> DEFINE l == e - m
  <2>1. l \in Nat
    BY <1>6, <1>7
  <2>2. new = [j \in 1..l |-> new[j]]
    BY <1>8
  <2>3. \A j \in 1..l : new[j] \in Row
    BY <1>12
  <2> HIDE DEF new, l
  <2>4. new \in Seq(Row) /\ Len(new) = l
    BY <2>1, <2>2, <2>3
  <2> QED
    BY <2>4 DEF l
<1> HIDE DEF new
<1>14. /\ rows \in Seq(Row) /\ Len(rows) = e /\ \A k \in 1..m : rows[k] = chunker.rows[k]
       /\ \A j \in 1..(e - m) : rows[m + j] = new[j]
  <2> DEFINE old == chunker.rows
  <2>1. old \in Seq(Row) /\ Len(old) = m
    BY <1>5 DEF m
  <2>2. rows = old \o new
    OBVIOUS
  <2> DEFINE l == e - m
  <2>3. l \in Nat /\ m \in Nat /\ m + l = e /\ Len(new) = l
    BY <1>6, <1>7, <1>13
  <2> HIDE DEF old, rows, l
  <2>4. /\ old \o new \in Seq(Row) /\ Len(old \o new) = m + l
        /\ \A i \in 1..(m + l) : (old \o new)[i] = IF i <= m THEN old[i] ELSE new[i - m]
    BY <1>13, <2>1, <2>3, ConcatProperties
  <2>5. (\A k \in 1..m : k \in 1..(m + l) /\ k <= m) /\ \A j \in 1..l : m + j \in 1..(m + l) /\ ~(m + j <= m) /\ (m + j) - m = j
    BY <2>3
  <2>6. (\A k \in 1..m : rows[k] = old[k]) /\ \A j \in 1..l : rows[m + j] = new[j]
    BY <2>2, <2>4, <2>5
  <2> QED
    BY <2>2, <2>3, <2>4, <2>6 DEF old, l
<1> HIDE DEF rows
<1>15. \A k \in 1..m : chunker.rows[k] = RowOf(s, k)
  BY <1>3 DEF Written, m
<1>16. ASSUME NEW k \in 1..e PROVE rows[k] = RowOf(s, k)
  <2>1. CASE k <= m
    <3>1. k \in 1..m
      BY <1>6, <2>1
    <3> QED
      BY <1>14, <1>15, <3>1
  <2>2. CASE ~(k <= m)
    <3>1. k - m \in 1..(e - m) /\ m + (k - m) = k
      BY <1>6, <1>7, <2>2
    <3> QED
      BY <1>11, <1>14, <3>1
  <2> QED
    BY <2>1, <2>2
<1>17. chunker' \in ChunkerState /\ chunker'.pc = "embed" /\ chunker'.chunks = s /\ chunker'.rows = rows
  BY <1>2, <1>3, <1>4, <1>14 DEF ChunkerState
<1>18. Written(chunker', d)
  BY <1>3, <1>7, <1>14, <1>16, <1>17 DEF Written
<1>19. AllSound(chunker', d)
  BY <1>3, <1>17 DEF AllSound
<1>20. Holds(chunker', d)
  BY <1>3, <1>17, <1>18, <1>19 DEF Holds
<1> QED
  BY <1>1, <1>2, <1>17, <1>20, HoldsNext

LEMMA FinishHolds ==
  ASSUME ChunkerInv, Finish
  PROVE  ChunkerInv'
<1> DEFINE d == TheDocument
<1>1. Holds(chunker, d) /\ setting \in Setting
  BY DEF ChunkerInv
<1>2. chunker.pc = "embed" /\ text' = text /\ setting' = setting /\ Len(chunker.rows) = Len(chunker.chunks)
  BY DEF Finish, Stored
<1>3. chunker \in ChunkerState /\ Proper(d) /\ Written(chunker, d) /\ AllSound(chunker, d)
  BY <1>1, <1>2 DEF Holds
<1>4. chunker' = [chunker EXCEPT !.pc = "COMPLETED"]
  BY DEF Finish
<1>5. /\ chunker' \in ChunkerState /\ chunker'.pc = "COMPLETED" /\ chunker'.chunks = chunker.chunks
      /\ chunker'.rows = chunker.rows
  BY <1>3, <1>4 DEF ChunkerState
<1>6. Written(chunker', d) /\ AllSound(chunker', d)
  BY <1>3, <1>5 DEF Written, AllSound
<1>7. Holds(chunker', d)
  BY <1>2, <1>3, <1>5, <1>6 DEF Holds
<1> QED
  BY <1>1, <1>2, <1>5, <1>7, HoldsNext

LEMMA ChunkerStutterHolds ==
  ASSUME ChunkerInv, UNCHANGED chunkerVars
  PROVE  ChunkerInv'
<1>1. text' = text /\ setting' = setting /\ chunker' = chunker
  BY DEF chunkerVars
<1>2. TheDocument' = TheDocument
  BY <1>1, DocumentSame
<1>3. Holds(chunker, TheDocument)' /\ setting' \in Setting
  BY <1>1, <1>2 DEF ChunkerInv
<1>4. text' \in Seq(Character)
  BY <1>1 DEF ChunkerInv
<1>5. chunker'.pc = "split" => text' # <<>> /\ setting'.chunkOverlap < setting'.chunkSize
  BY <1>1 DEF ChunkerInv
<1> QED
  BY <1>3, <1>4, <1>5 DEF ChunkerInv

(* The invariant of the chunker is inductive.                              *)
THEOREM ChunkerInductive == ChunkerSpec => []ChunkerInv
<1>1. ChunkerInit => ChunkerInv
  BY ChunkerInitHolds
<1>2. ChunkerInv /\ [ChunkerNext]_chunkerVars => ChunkerInv'
  <2> SUFFICES ASSUME ChunkerInv, [ChunkerNext]_chunkerVars PROVE ChunkerInv'
    OBVIOUS
  <2>1. CASE Refuse
    BY <2>1, RefuseHolds
  <2>2. CASE Clean
    BY <2>2, CleanHolds
  <2>3. CASE Split
    BY <2>3, SplitHolds
  <2>4. CASE HardSplit
    BY <2>4, HardSplitHolds
  <2>5. CASE Commit
    BY <2>5, CommitHolds
  <2>6. CASE Join
    BY <2>6, JoinHolds
  <2>7. CASE EndMerge
    BY <2>7, EndMergeHolds
  <2>8. CASE StoreBatch
    BY <2>8, StoreBatchHolds
  <2>9. CASE Finish
    BY <2>9, FinishHolds
  <2>10. CASE UNCHANGED chunkerVars
    BY <2>10, ChunkerStutterHolds
  <2> QED
    BY <2>1, <2>2, <2>3, <2>4, <2>5, <2>6, <2>7, <2>8, <2>9, <2>10 DEF ChunkerNext
<1> QED
  BY <1>1, <1>2, PTL DEF ChunkerSpec

LEMMA SizesAreBounded ==
  ASSUME ChunkerInv
  PROVE  SizesBounded
<1> DEFINE d == TheDocument
           q == recursiveSplit[1][Positions]
<1>1. /\ chunker \in ChunkerState /\ \A k \in 1..Len(chunker.chunks) : Bounded(chunker.chunks[k], d) /\ InText(chunker.chunks[k], d)
      /\ text \in Seq(Character)
  BY DEF ChunkerInv, Holds, AllSound, Sound
<1>2. DOMAIN chunker.chunks = 1..Len(chunker.chunks)
  BY <1>1 DEF ChunkerState
<1>3. d.size = setting.chunkSize /\ d.overlap = setting.chunkOverlap /\ d.pieces = q /\ d.density = setting.density
  BY DEF TheDocument
<1>4. \A c : TokensIn(c, d) = Tokens(c)
  BY <1>3, TokensAreCeiling DEF TokensIn, Tokens
<1>5. d.words = AllWords /\ 1..d.end = DOMAIN text /\ d.room = PieceLimit * setting.density
  BY <1>1 DEF TheDocument, Room
<1> HIDE DEF d, q
<1>6. ASSUME NEW c, InText(c, d), Narrow(c, d), NEW v \in Words(c), NEW w \in Words(c)
      PROVE  w < v + PieceLimit * setting.density
  <2>1. ASSUME NEW x \in Words(c) PROVE x \in WordsIn(c, d)
    <3>1. PICK i \in DOMAIN c.own : c.own[i] = x /\ text[x] = "word"
      BY <2>1 DEF Words
    <3>2. x \in DOMAIN text
      BY <1>5, <1>6, <3>1 DEF InText
    <3> QED
      BY <1>5, <3>1, <3>2 DEF WordsIn, AllWords
  <2>2. w < v + d.room
    BY <1>6, <2>1 DEF Narrow
  <2> QED
    BY <1>5, <2>2
<1>7. ASSUME NEW c, SlicedOf(c, d) PROVE Sliced(c)
  <2>1. PICK k \in DOMAIN d.pieces :
          /\ Ceiling(Len(d.pieces[k]), d.density) > d.size
          /\ \A i \in DOMAIN c.own : \E j \in DOMAIN d.pieces[k] : c.own[i] = d.pieces[k][j]
    BY <1>7, Zenon DEF SlicedOf
  <2>2. /\ k \in DOMAIN q /\ Ceiling(Len(q[k]), setting.density) > setting.chunkSize
        /\ \A i \in DOMAIN c.own : \E j \in DOMAIN q[k] : c.own[i] = q[k][j]
    BY <1>3, <2>1
  <2>3. countTokens(q[k]) > setting.chunkSize
    BY <2>2, TokensAreCeiling
  <2> QED
    BY <2>2, <2>3, Zenon DEF Sliced, q
<1>8. ASSUME NEW c, Bounded(c, d), InText(c, d)
      PROVE  \/ Tokens(c) <= setting.chunkSize + setting.chunkOverlap
             \/ /\ Sliced(c) /\ c.strange = 0 /\ Len(c.own) <= CutFactor * setting.chunkSize
                /\ \A p, w \in Words(c) : w < p + PieceLimit * setting.density
  BY <1>3, <1>4, <1>7, <1>8, <1>6, Zenon DEF Bounded
<1> QED
  BY <1>1, <1>2, <1>8, Zenon DEF SizesBounded

LEMMA TheRowsTellTheText ==
  ASSUME ChunkerInv
  PROVE  RowsTellTheText
<1> SUFFICES ASSUME chunker.pc = "COMPLETED" PROVE RowsTellTheText
  BY DEF RowsTellTheText
<1> DEFINE d == TheDocument
           s == chunker.chunks
           rows == chunker.rows
           n == Len(rows)
<1>1. /\ chunker \in ChunkerState /\ Proper(d) /\ Written(chunker, d) /\ n = Len(s) /\ AllSound(chunker, d)
      /\ text \in Seq(Character)
  BY DEF ChunkerInv, Holds
<1>2. n \in Nat /\ DOMAIN rows = 1..n /\ \A k \in 1..n : s[k] \in AnyChunk
  BY <1>1 DEF ChunkerState
<1>3. TellUpTo(s, n, d.end, d) /\ (\A k \in 1..n : rows[k] = RowOf(s, k)) /\ \A k \in 1..n : InText(s[k], d)
  BY <1>1 DEF Written, AllSound, Sound
<1>4. d.words = AllWords /\ d.end = Len(text)
  BY DEF TheDocument
<1>5. AllWords = {p \in 1..d.end : text[p] = "word"} /\ d.end \in Nat
  BY <1>1, <1>4 DEF AllWords
<1>6. RowsTellTheText <=>
        /\ \A k \in 1..n :
             /\ rows[k].index = k - 1 /\ rows[k].embedding = Embedding(rows[k].content)
             /\ \A p, q \in Words(rows[k].content) : p..q \cap AllWords \subseteq Words(rows[k].content)
             /\ \A p \in Shown(k) : 1..p \cap AllWords \subseteq Shown(k)
        /\ Shown(n) = AllWords
  BY <1>2 DEF RowsTellTheText
<1>7. \A k : Shown(k) = UNION {Words(rows[h].content) : h \in 1..k}
  BY DEF Shown
<1> HIDE DEF d, s, rows, n
<1>8. \A k \in 1..n : rows[k].index = k - 1 /\ rows[k].content = s[k] /\ rows[k].embedding = Embedding(s[k])
  <2> TAKE k \in 1..n
  <2>1. rows[k] = [index |-> k - 1, content |-> s[k], embedding |-> Embedding(s[k])]
    BY <1>3 DEF RowOf
  <2> QED
    BY <2>1
<1>9. \A k \in 1..n : Words(rows[k].content) = WordsIn(s[k], d)
  <2> TAKE k \in 1..n
  <2> DEFINE c == s[k]
  <2>1. \A i \in DOMAIN c.own : c.own[i] \in 1..d.end
    BY <1>3 DEF InText
  <2>2. Words(c) = {p \in AllWords : \E i \in DOMAIN c.own : c.own[i] = p}
    BY <1>5, <2>1 DEF Words
  <2> QED
    BY <1>4, <1>8, <2>2 DEF WordsIn
<1>10. \A k \in 0..n : Shown(k) = Told(s, k, d)
  <2> TAKE k \in 0..n
  <2>1. \A h \in 1..k : h \in 1..n
    BY <1>2
  <2>2. \A h \in 1..k : Words(rows[h].content) = WordsIn(s[h], d) /\ WordsIn(s[h], d) \subseteq d.words
    BY <1>9, <2>1 DEF WordsIn
  <2>3. Shown(k) = UNION {Words(rows[h].content) : h \in 1..k}
    BY <1>7
  <2> QED
    BY <2>2, <2>3 DEF Told
<1>11. \A p \in AllWords : p \in Nat /\ 1 <= p /\ p <= d.end
  BY <1>5
<1>12. ASSUME NEW x \in Nat, NEW y \in Nat, NEW p \in Between(x, y, d), NEW q \in Between(x, y, d)
       PROVE  p..q \cap AllWords \subseteq Between(x, y, d)
  <2>1. p \in Nat /\ q \in Nat /\ x <= p /\ q <= y
    BY <1>4, <1>11 DEF Between
  <2>2. ASSUME NEW w \in p..q \cap AllWords PROVE w \in d.words /\ x <= w /\ w <= y
    BY <1>4, <1>11, <2>1
  <2> QED
    BY <2>2 DEF Between
<1>13. ASSUME NEW y \in Nat, NEW p \in Between(1, y, d) PROVE 1..p \cap AllWords \subseteq Between(1, y, d)
  <2>1. p \in Nat /\ p <= y
    BY <1>4, <1>11 DEF Between
  <2>2. ASSUME NEW w \in 1..p \cap AllWords PROVE w \in d.words /\ 1 <= w /\ w <= y
    BY <1>4, <1>11, <2>1
  <2> QED
    BY <2>2 DEF Between
<1>14. ASSUME NEW k \in 1..n
       PROVE  /\ \A p, q \in Words(rows[k].content) : p..q \cap AllWords \subseteq Words(rows[k].content)
              /\ \A p \in Shown(k) : 1..p \cap AllWords \subseteq Shown(k)
  <2>1. PICK x, y : Tells(s, k, x, y, d)
    BY <1>3 DEF TellUpTo
  <2>2. k \in 0..n
    BY <1>2
  <2>3. /\ x \in Nat /\ y \in Nat /\ Words(rows[k].content) = Between(x, y, d) /\ Shown(k) = Between(1, y, d)
    BY <1>9, <1>10, <2>1, <2>2 DEF Tells
  <2> QED
    BY <1>12, <1>13, <2>3
<1>15. Shown(n) = AllWords
  <2>1. n \in 0..n
    BY <1>2
  <2>2. Shown(n) = Between(1, d.end, d)
    BY <1>3, <1>10, <2>1 DEF TellUpTo
  <2> QED
    BY <1>4, <1>11, <2>2 DEF Between
<1>16. \A k \in 1..n : rows[k].index = k - 1 /\ rows[k].embedding = Embedding(rows[k].content)
  BY <1>8
<1> QED
  BY <1>6, <1>14, <1>15, <1>16

(* No chunk is longer than the base allows, but for the slices of a piece  *)
(* that is: these have what hardSplit cuts, with words that are no further *)
(* apart than PieceLimit tokens, whatever the nine SEPARATORS have put     *)
(* back (text-chunker.ts, recursiveSplit, mergePieces and hardSplit).      *)
THEOREM ChunkSizes == ChunkerSpec => []SizesBounded
BY ChunkerInductive, SizesAreBounded, PTL

(* The rows that ingestDocument writes tell the text of the document, each *)
(* with the embedding of its own content (text-chunker.ts, split, and      *)
(* knowledge.service.ts, ingestDocument).                                  *)
THEOREM RowsOfTheText == ChunkerSpec => []RowsTellTheText
BY ChunkerInductive, TheRowsTellTheText, PTL

=============================================================================
