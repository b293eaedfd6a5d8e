----------------------------- MODULE Ingestion -----------------------------
(***************************************************************************)
(* KnowledgeService: a knowledge base, its documents and their chunks,     *)
(* from upload to delete.  Every call to the database or the storage that  *)
(* another request can come between is a step.  Text, embeddings and audit *)
(* rows are left out; a call of the audit log that rejects is not.         *)
(***************************************************************************)
EXTENDS Naturals, FiniteSets

CONSTANTS
  Request,    \* HTTP requests; the ingestion an upload leaves behind goes on under its name
  Document,   \* documents that may be created
  Chunking,   \* settings chunkSize and chunkOverlap of the base
  Pieces,     \* how many pieces a text has under each; 0 where split throws
  MaxFaults   \* bound: rejected calls outside the try of ingestDocument, and crashes

ASSUME PiecesAssumption == Pieces \in [Chunking -> Nat]

VARIABLES
  base,       \* the row of knowledge_bases
  docs,       \* the rows of documents
  chunks,     \* the rows of document_chunks, and who inserted each
  req,        \* where each request is, and what it holds
  faults,
  overlapped  \* history: which Conflicts have been in progress at once

vars == <<base, docs, chunks, req, faults, overlapped>>

Status == {"PENDING", "PROCESSING", "COMPLETED", "FAILED"}
Op == {"none", "upload", "reindex", "delete", "archive", "updateBase"}
Label == {"idle", "store", "announce", "clear", "reset", "read", "base", "begin", "extract", "insert",
          "complete", "log", "giveUp", "delete", "archive", "update", "over", "rejected", "lost"}

(* Pairs of operations that may undo each other's work.                    *)
Conflicts == {{"upload", "reindex"}, {"reindex"}, {"upload", "delete"}, {"reindex", "delete"}, {"upload", "archive"}}

Chunk == [document : Document, by : Request, chunking : Chunking, index : Nat]
RequestState == [op : Op, pc : Label, document : Document, chunking : Chunking, next : Nat]

TypeOK ==
  /\ base \in [deleted : BOOLEAN, chunking : Chunking]
  /\ docs \in [Document -> [present : BOOLEAN, deleted : BOOLEAN, status : Status]]
  /\ \A c \in chunks : c \in Chunk /\ c.index < Pieces[c.chunking] /\ docs[c.document].present
  /\ req \in [Request -> RequestState]
  /\ faults \in Nat
  /\ overlapped \subseteq Conflicts

-----------------------------------------------------------------------------

Idle(d, c) == [op |-> "none", pc |-> "idle", document |-> d, chunking |-> c, next |-> 0]

Init ==
  /\ \E c \in Chunking :
       /\ base = [deleted |-> FALSE, chunking |-> c]
       /\ \E d \in Document : req = [r \in Request |-> Idle(d, c)]
  /\ docs = [d \in Document |-> [present |-> FALSE, deleted |-> FALSE, status |-> "PENDING"]]
  /\ chunks = {}
  /\ faults = 0
  /\ overlapped = {}

InProgress(r) == req[r].pc \notin {"idle", "over", "rejected", "lost"}

Step(r, fields) == req' = [req EXCEPT ![r] = fields]
Goto(r, label) == Step(r, [req[r] EXCEPT !.pc = label])

Begin(r, op, label, fields) ==
  /\ req[r].pc = "idle"
  /\ Step(r, [fields EXCEPT !.op = op, !.pc = label])
  /\ overlapped' = overlapped \cup ({{op, req[q].op} : q \in {p \in Request : InProgress(p)}} \cap Conflicts)
  /\ UNCHANGED <<base, docs, chunks, faults>>

Live(d) == docs[d].present /\ ~docs[d].deleted

(* uploadDocument and reindexDocument, deleteDocument, archiveBase,        *)
(* updateBase: the row is looked up, and the request refused without it.   *)
uploadDocument(r) == ~base.deleted /\ Begin(r, "upload", "store", req[r])
reindexDocument(r, d) == Live(d) /\ Begin(r, "reindex", "clear", [req[r] EXCEPT !.document = d])
deleteDocument(r, d) == Live(d) /\ Begin(r, "delete", "delete", [req[r] EXCEPT !.document = d])
archiveBase(r) == ~base.deleted /\ Begin(r, "archive", "archive", req[r])
updateBase(r, c) == ~base.deleted /\ Begin(r, "updateBase", "update", [req[r] EXCEPT !.chunking = c])

-----------------------------------------------------------------------------

At(r, label) == req[r].pc = label /\ UNCHANGED <<faults, overlapped>>

SetStatus(r, s) == docs' = [docs EXCEPT ![req[r].document].status = s]

(* The file is in the storage and its row is created; the identifier is    *)
(* fresh.                                                                  *)
CreateDocument(r) ==
  /\ At(r, "store")
  /\ \E d \in Document :
       /\ ~docs[d].present
       /\ docs' = [docs EXCEPT ![d] = [present |-> TRUE, deleted |-> FALSE, status |-> "PENDING"]]
       /\ Step(r, [req[r] EXCEPT !.pc = "announce", !.document = d])
  /\ UNCHANGED <<base, chunks>>

(* The audit row, then ingestDocument: awaited for a large file, left      *)
(* running for a small one.                                                *)
Announce(r) == At(r, "announce") /\ Goto(r, "read") /\ UNCHANGED <<base, docs, chunks>>

ChunksOf(d) == {c \in chunks : c.document = d}

(* Mutant of ClearChunks: a reindex that keeps the old chunks.             *)
KeepChunks(r) == At(r, "clear") /\ Goto(r, "reset") /\ UNCHANGED <<base, docs, chunks>>

ClearChunks(r) ==
  /\ At(r, "clear")
  /\ chunks' = chunks \ ChunksOf(req[r].document)
  /\ Goto(r, "reset")
  /\ UNCHANGED <<base, docs>>

ResetStatus(r) ==
  /\ At(r, "reset")
  /\ SetStatus(r, "PENDING")
  /\ Goto(r, "read")
  /\ UNCHANGED <<base, chunks>>

(* The row is looked up whether or not it is deleted.                      *)
ReadDocument(r) ==
  /\ At(r, "read")
  /\ Goto(r, IF docs[req[r].document].status \in {"COMPLETED", "PROCESSING"} THEN "over" ELSE "base")
  /\ UNCHANGED <<base, docs, chunks>>

ReadBase(r) ==
  /\ At(r, "base")
  /\ Step(r, [req[r] EXCEPT !.pc = "begin", !.chunking = base.chunking, !.next = 0])
  /\ UNCHANGED <<base, docs, chunks>>

BeginProcessing(r) ==
  /\ At(r, "begin")
  /\ SetStatus(r, "PROCESSING")
  /\ Goto(r, "extract")
  /\ UNCHANGED <<base, chunks>>

(* Download, extract, split.                                               *)
Extract(r) ==
  /\ At(r, "extract") /\ Pieces[req[r].chunking] > 0
  /\ Goto(r, "insert")
  /\ UNCHANGED <<base, docs, chunks>>

(* The embedding of a batch comes before its first piece.                  *)
InsertChunk(r) ==
  LET q == req[r] IN
  /\ At(r, "insert")
  /\ chunks' = chunks \cup {[document |-> q.document, by |-> r, chunking |-> q.chunking, index |-> q.next]}
  /\ Step(r, [q EXCEPT !.next = @ + 1, !.pc = IF q.next + 1 = Pieces[q.chunking] THEN "complete" ELSE "insert"])
  /\ UNCHANGED <<base, docs>>

Complete(r) ==
  /\ At(r, "complete")
  /\ SetStatus(r, "COMPLETED")
  /\ Goto(r, "log")
  /\ UNCHANGED <<base, chunks>>

Log(r) == At(r, "log") /\ Goto(r, "over") /\ UNCHANGED <<base, docs, chunks>>

(* Anything in the try may throw, the audit row after COMPLETED too.       *)
Throw(r) ==
  /\ At(r, req[r].pc) /\ req[r].pc \in {"begin", "extract", "insert", "complete", "log"}
  /\ Goto(r, "giveUp")
  /\ UNCHANGED <<base, docs, chunks>>

(* Mutant of GiveUp: the catch only logs.                                  *)
LogOnly(r) == At(r, "giveUp") /\ Goto(r, "over") /\ UNCHANGED <<base, docs, chunks>>

(* The catch; the chunks that were inserted stay.                          *)
GiveUp(r) ==
  /\ At(r, "giveUp")
  /\ SetStatus(r, "FAILED")
  /\ Goto(r, "over")
  /\ UNCHANGED <<base, chunks>>

(* Mutant of Delete: the chunks stay.                                      *)
DeleteRow(r) ==
  /\ At(r, "delete")
  /\ docs' = [docs EXCEPT ![req[r].document].deleted = TRUE]
  /\ Goto(r, "over")
  /\ UNCHANGED <<base, chunks>>

(* One transaction; the stored file is then deleted if it can be.          *)
Delete(r) ==
  /\ At(r, "delete")
  /\ chunks' = chunks \ ChunksOf(req[r].document)
  /\ docs' = [docs EXCEPT ![req[r].document].deleted = TRUE]
  /\ Goto(r, "over")
  /\ UNCHANGED base

(* Mutant of Archive: the documents stay.                                  *)
ArchiveAlone(r) ==
  /\ At(r, "archive")
  /\ base' = [base EXCEPT !.deleted = TRUE]
  /\ Goto(r, "over")
  /\ UNCHANGED <<docs, chunks>>

(* One transaction.                                                        *)
Archive(r) ==
  /\ At(r, "archive")
  /\ base' = [base EXCEPT !.deleted = TRUE]
  /\ docs' = [d \in Document |-> [docs[d] EXCEPT !.deleted = @ \/ docs[d].present]]
  /\ Goto(r, "over")
  /\ UNCHANGED chunks

Update(r) ==
  /\ At(r, "update")
  /\ base' = [base EXCEPT !.chunking = req[r].chunking]
  /\ Goto(r, "over")
  /\ UNCHANGED <<docs, chunks>>

(* A call outside the try rejects, the write of FAILED among them.         *)
Reject(r) ==
  /\ InProgress(r) /\ req[r].pc \notin {"begin", "extract", "insert", "complete", "log"}
  /\ faults < MaxFaults /\ faults' = faults + 1
  /\ Goto(r, "rejected")
  /\ UNCHANGED <<base, docs, chunks, overlapped>>

(* The process stops: what it was doing is nowhere recorded.               *)
Crash ==
  /\ faults < MaxFaults /\ faults' = faults + 1
  /\ \E r \in Request : InProgress(r)
  /\ req' = [r \in Request |-> IF InProgress(r) THEN [req[r] EXCEPT !.pc = "lost"] ELSE req[r]]
  /\ UNCHANGED <<base, docs, chunks, overlapped>>

Begins(r) ==
  \/ uploadDocument(r) \/ archiveBase(r)
  \/ \E d \in Document : reindexDocument(r, d) \/ deleteDocument(r, d)
  \/ \E c \in Chunking : updateBase(r, c)

Continues(r) ==
  \/ CreateDocument(r) \/ Announce(r) \/ ClearChunks(r) \/ ResetStatus(r) \/ ReadDocument(r)
  \/ ReadBase(r) \/ BeginProcessing(r) \/ Extract(r) \/ InsertChunk(r) \/ Complete(r) \/ Log(r)
  \/ Throw(r) \/ GiveUp(r) \/ Delete(r) \/ Archive(r) \/ Update(r)

Next == (\E r \in Request : Begins(r) \/ Continues(r) \/ Reject(r)) \/ Crash

(* Every call is answered or rejects: a request that has begun goes on.    *)
Fairness == \A r \in Request : WF_vars(Continues(r))

Spec == Init /\ [][Next]_vars /\ Fairness

-----------------------------------------------------------------------------

(* Each piece of the text once, cut by these settings.                     *)
Cut(set, c) ==
  /\ {k.index : k \in set} = 0..(Pieces[c] - 1)
  /\ Cardinality(set) = Pieces[c]
  /\ \A k \in set : k.chunking = c

Whole(d) == \E c \in Chunking : Cut(ChunksOf(d), c)

(* A reindex has deleted the chunks and not yet written the status, and    *)
(* may never do so.                                                        *)
HalfReset(d) == \E r \in Request : req[r].op = "reindex" /\ req[r].document = d /\ req[r].pc \notin {"idle", "over"}

(* No two requests work on the chunks of a document at once.               *)
IngestedAlone == {{"upload", "reindex"}, {"reindex"}} \cap overlapped = {}

(* A live COMPLETED document has every piece once, all cut by the same     *)
(* settings, after any failures, crashes, retries and changes of those     *)
(* settings, unless a reindex overlapped another ingestion, or one stopped *)
(* between its two writes and left no chunk.                               *)
CompletedIsWhole ==
  \A d \in Document :
    Live(d) /\ docs[d].status = "COMPLETED" /\ IngestedAlone
    => Whole(d) \/ (HalfReset(d) /\ ChunksOf(d) = {})

DeletedAlone == {{"upload", "delete"}, {"reindex", "delete"}} \cap overlapped = {}

(* docs/knowledge.md:151, a deleted document has no chunks, unless an      *)
(* ingestion was under way: it goes on inserting.                          *)
DeletedHaveNoChunks ==
  \A d \in Document :
    docs[d].deleted /\ ~base.deleted /\ DeletedAlone
    => ChunksOf(d) = {}

(* Retrieval looks at the document only: an archived base shows nothing,   *)
(* unless an upload was under way, whose document it goes on showing.      *)
ArchivedBaseIsEmpty ==
  base.deleted /\ {"upload", "archive"} \notin overlapped => \A d \in Document : ~Live(d)

(* The type invariant, and what deleteDocument and archiveBase leave of a  *)
(* document: nothing that retrieval finds, but for the uploads and         *)
(* reindexes they overlap.                                                 *)
IngestionInv == TypeOK /\ DeletedHaveNoChunks /\ ArchivedBaseIsEmpty

(* Every document that waits for an ingestion gets to COMPLETED or FAILED, *)
(* if no request is lost: the guard that skips a document somebody works   *)
(* on never leaves one behind.                                             *)
Settles ==
  \A d \in Document :
    docs[d].present /\ docs[d].status \in {"PENDING", "PROCESSING"}
      ~> docs[d].status \in {"COMPLETED", "FAILED"} \/ faults > 0

-----------------------------------------------------------------------------
(* The inductive invariant.  Which operations are at which calls.          *)
Ingesting == {"announce", "clear", "reset", "read", "base", "begin", "extract", "insert", "complete", "log", "giveUp"}

Works(r) == req[r].pc \in Ingesting

CallsOfOps(q) ==
  /\ q.pc \in {"store", "announce"} => q.op = "upload"
  /\ q.pc \in {"clear", "reset"} => q.op = "reindex"
  /\ q.pc \in Ingesting => q.op \in {"upload", "reindex"}
  /\ q.pc \in {"delete", "archive"} => q.op = q.pc
  /\ q.pc = "update" => q.op = "updateBase"

(* The piece a request has got to.                                         *)
NextPiece(q) ==
  /\ q.pc \in {"begin", "extract"} => q.next = 0
  /\ q.pc = "insert" => q.next < Pieces[q.chunking]

Overlaps == \A r, q \in Request : r # q /\ InProgress(r) /\ InProgress(q) =>
              ({{req[r].op, req[q].op}} \cap Conflicts) \subseteq overlapped

(* An upload has a document of its own.                                    *)
OwnDocument(r) ==
  Works(r) =>
    /\ docs[req[r].document].present
    /\ req[r].op = "upload" =>
         \A q \in Request \ {r} : Works(q) /\ req[q].op = "upload" => req[q].document # req[r].document

Inserted(r) ==
  {[document |-> req[r].document, by |-> r, chunking |-> req[r].chunking, index |-> i] : i \in 0..(req[r].next - 1)}

(* What there is of a document when somebody works on it alone.            *)
Progress(r) ==
  Works(r) /\ IngestedAlone /\ Live(req[r].document) =>
    LET status == docs[req[r].document].status  there == ChunksOf(req[r].document) IN
    /\ req[r].pc \in {"announce", "read", "base", "begin"} => status = "PENDING" /\ there = {}
    /\ req[r].pc = "reset" => there = {}
    /\ req[r].pc = "extract" => status = "PROCESSING" /\ there = {}
    /\ req[r].pc = "insert" => status = "PROCESSING" /\ there = Inserted(r)
    /\ req[r].pc = "complete" => status = "PROCESSING" /\ Whole(req[r].document)
    /\ req[r].pc = "log" => Whole(req[r].document)
    /\ req[r].pc = "giveUp" => (status = "COMPLETED" => Whole(req[r].document))

(* A deletion finds no ingestion under way, or was seen to.                *)
DeletedAreLeft ==
  DeletedAlone /\ ~base.deleted => \A r \in Request : Works(r) => ~docs[req[r].document].deleted

ArchivedGetsNothing ==
  base.deleted /\ {"upload", "archive"} \notin overlapped =>
    \A r \in Request : req[r].op = "upload" => ~InProgress(r)

IInv ==
  /\ TypeOK /\ Overlaps /\ CompletedIsWhole /\ DeletedHaveNoChunks /\ DeletedAreLeft
  /\ ArchivedBaseIsEmpty /\ ArchivedGetsNothing
  /\ \A r \in Request : CallsOfOps(req[r]) /\ NextPiece(req[r]) /\ OwnDocument(r) /\ Progress(r)
=============================================================================
