------------------------- MODULE KnowledgeDocuments -------------------------
(***************************************************************************)
(* The documents of one knowledge base: their records (KnowledgeBaseService *)
(* of infrastructure/knowledge: a cache behind a snapshot and a log of     *)
(* events), the requests of api/routers/knowledge_base.py, the background  *)
(* tasks that index a document (DocumentProcessingService), and the chunks *)
(* in the vector store and in BM25.                                        *)
(*                                                                         *)
(* A job is one such task, with the request that starts it; its number is  *)
(* its generation (ingest_id).  A record is the document's status.  Who    *)
(* gets _mutation_lock next is left open.  An exhausted retry is one       *)
(* failure; what is in a chunk and how it is embedded is left out.         *)
(***************************************************************************)
EXTENDS Naturals, Sequences, FiniteSets

CONSTANTS Nil,
          Docs,
          MaxJobs,    \* bound: tasks ever created
          Batches,    \* batches of chunks per document
          CompactAt,  \* _doc_events_compact_threshold, 2000
          MaxCrashes  \* bound

\* process_document: a document without chunks is an error before anything is stored.
ASSUME DocumentsAssumption == MaxJobs \in Nat /\ Batches \in Nat \ {0} /\ CompactAt \in Nat

VARIABLES sqlite,           \* vector_store_backend = "sqlite_vec", or chroma
          kb,               \* "there", "unlisted", "emptied" or "gone"
          cache,            \* _docs_cache: per document its status, or Nil
          snapshot, events, \* documents.jsonl and the events since
          writer,           \* the mutation under way: [pc, by, before, event]
          upload, deleting, \* per document: its upload, and its deletion
          stored,           \* documents whose file is on disk
          job,              \* per job: [pc, doc, batch]
          vec, bm25,        \* chunks, as <<document, generation, batch>>; BM25's generation
          crashes,
          indexed,          \* history: documents that were ready once
          overlapped        \* history: documents two jobs worked on at a time

documentVars == <<sqlite, kb, cache, snapshot, events, writer, upload, deleting, stored, job,
                  vec, bm25, crashes, indexed, overlapped>>
recordVars == <<cache, snapshot, events, writer>>
indexVars == <<stored, vec, bm25>>
historyVars == <<indexed, overlapped>>

Jobs == 1..MaxJobs
NoJob == [pc |-> "off", doc |-> Nil, batch |-> 0]
NoWriter == [pc |-> "none", by |-> Nil, before |-> Nil]

DocumentsInit ==
    /\ sqlite \in BOOLEAN /\ kb = "there"
    /\ cache = [d \in Docs |-> Nil] /\ snapshot = cache /\ events = <<>>
    /\ writer = NoWriter
    /\ upload = [d \in Docs |-> "new"] /\ deleting = [d \in Docs |-> "no"]
    /\ stored = {} /\ job = [j \in Jobs |-> NoJob]
    /\ vec = {} /\ bm25 = [d \in Docs |-> 0]
    /\ crashes = 0 /\ indexed = {} /\ overlapped = {}

-----------------------------------------------------------------------------
(* The records *)

\* An event: documents get a status, or go (Nil).
Event(docs, status) == [docs |-> docs, status |-> status]
After(map, event) == [d \in Docs |-> IF d \in event.docs THEN event.status ELSE map[d]]

\* _ensure_docs_cache_loaded.
Replay(map, log) ==
    LET after[k \in 0..Len(log)] == IF k = 0 THEN map ELSE After(after[k-1], log[k])
    IN  after[Len(log)]

\* A mutation changes the cache under the locks; the rest of it follows below, and its
\* caller goes on when it is through.
Free(by) == writer.by # by
Change(by, event) ==
    /\ writer.pc = "none"
    /\ cache' = After(cache, event)
    /\ writer' = [pc |-> "changed", by |-> by, before |-> cache, event |-> event]
    /\ UNCHANGED <<snapshot, events>>

\* update_document_status, which raises if there is no such document.
SetsStatus(by, d, status) == cache[d] # Nil /\ Change(by, Event({d}, status))
Raises(d) == writer.pc = "none" /\ cache[d] = Nil /\ UNCHANGED recordVars

\* _append_doc_events, and whether to compact.
AppendDocEvents ==
    /\ writer.pc = "changed"
    /\ events' = Append(events, writer.event)
    /\ writer' = IF Len(events') < CompactAt THEN NoWriter ELSE [writer EXCEPT !.pc = "appended"]
    /\ UNCHANGED <<sqlite, kb, cache, snapshot, upload, deleting, indexVars, job, crashes,
                   historyVars>>

\* The content of a snapshot; first a faulty one, read before the change.
MapBefore == writer.before
DocsMap == cache

\* _compact_doc_events_if_needed: the snapshot is replaced, then the events are emptied.
WriteDocsSnapshot ==
    /\ writer.pc = "appended"
    /\ snapshot' = DocsMap
    /\ writer' = [writer EXCEPT !.pc = "replaced"]
    /\ UNCHANGED <<sqlite, kb, cache, events, upload, deleting, indexVars, job, crashes,
                   historyVars>>

EmptyEvents ==
    /\ writer.pc = "replaced"
    /\ events' = <<>> /\ writer' = NoWriter
    /\ UNCHANGED <<sqlite, kb, cache, snapshot, upload, deleting, indexVars, job, crashes,
                   historyVars>>

-----------------------------------------------------------------------------
(* Requests *)

\* upload_document: the file, then the record, then the task.
Upload(d) ==
    /\ kb = "there" /\ upload[d] = "new"
    /\ upload' = [upload EXCEPT ![d] = "stored"]
    /\ stored' = stored \cup {d}
    /\ UNCHANGED <<sqlite, kb, recordVars, deleting, vec, bm25, job, crashes, historyVars>>

AddDocument(d) ==
    /\ upload[d] = "stored"
    /\ Change(<<"upload", d>>, Event({d}, "pending"))
    /\ upload' = [upload EXCEPT ![d] = "added"]
    /\ UNCHANGED <<sqlite, kb, deleting, indexVars, job, crashes, historyVars>>

Working(d) == {j \in Jobs : job[j].doc = d /\ job[j].pc \notin {"off", "asked"}}
NewJob(j, d, pc) ==
    /\ job[j].pc = "off" /\ \A i \in 1..(j-1) : job[i].pc # "off"
    /\ job' = [job EXCEPT ![j] = [pc |-> pc, doc |-> d, batch |-> 1]]

StartUploaded(d, j) ==
    /\ upload[d] = "added" /\ Free(<<"upload", d>>)
    /\ upload' = [upload EXCEPT ![d] = "done"]
    /\ NewJob(j, d, "start")
    /\ UNCHANGED <<sqlite, kb, recordVars, deleting, indexVars, crashes, historyVars>>

\* reprocess_document, whatever may be at work on the document already.
Reprocess(d, j) ==
    /\ cache[d] # Nil /\ d \in stored
    /\ NewJob(j, d, "asked")
    /\ UNCHANGED <<sqlite, kb, recordVars, upload, deleting, indexVars, crashes, historyVars>>

Me(j) == <<"job", j>>
Goto(j, pc) == job' = [job EXCEPT ![j].pc = pc]
End(j) == job' = [job EXCEPT ![j] = [NoJob EXCEPT !.pc = "done"]]

ResetStatus(j) ==
    /\ job[j].pc = "asked"
    /\ \/ SetsStatus(Me(j), job[j].doc, "pending") /\ Goto(j, "start")
       \/ Raises(job[j].doc) /\ End(j)
    /\ UNCHANGED <<sqlite, kb, upload, deleting, indexVars, crashes, historyVars>>

\* delete_document: the record first.
DeleteDocument(d) ==
    /\ deleting[d] = "no" /\ cache[d] # Nil
    /\ Change(<<"delete", d>>, Event({d}, Nil))
    /\ deleting' = [deleting EXCEPT ![d] = "popped"]
    /\ UNCHANGED <<sqlite, kb, upload, indexVars, job, crashes, historyVars>>

Purged(docs) ==
    /\ stored' = stored \ docs
    /\ vec' = {c \in vec : c[1] \notin docs}
    /\ bm25' = [d \in Docs |-> IF d \in docs THEN 0 ELSE bm25[d]]

RemoveDocument(d) ==
    /\ deleting[d] = "popped" /\ Free(<<"delete", d>>)
    /\ deleting' = [deleting EXCEPT ![d] = "done"]
    /\ Purged({d})
    /\ UNCHANGED <<sqlite, kb, recordVars, upload, job, crashes, historyVars>>

\* delete_knowledge_base: the configuration under the lock, the records, the rest.
Unlist ==
    /\ kb = "there" /\ writer.pc = "none"
    /\ kb' = "unlisted" /\ writer' = [NoWriter EXCEPT !.pc = "config", !.by = <<"kb", Nil>>]
    /\ UNCHANGED <<sqlite, cache, snapshot, events, upload, deleting, indexVars, job, crashes,
                   historyVars>>

EmptyKb ==
    LET there == {d \in Docs : cache[d] # Nil}
        event == Event(there, Nil)
    IN  /\ kb = "unlisted" /\ writer.pc = "config"
        /\ kb' = "emptied"
        /\ cache' = After(cache, event)
        /\ writer' = IF there = {} THEN NoWriter
                     ELSE [pc |-> "changed", by |-> <<"kb", Nil>>, before |-> cache, event |-> event]
        /\ UNCHANGED <<sqlite, snapshot, events, upload, deleting, indexVars, job, crashes,
                       historyVars>>

RemoveKb ==
    /\ kb = "emptied" /\ Free(<<"kb", Nil>>)
    /\ kb' = "gone"
    /\ Purged(Docs)
    /\ UNCHANGED <<sqlite, recordVars, upload, deleting, job, crashes, historyVars>>

-----------------------------------------------------------------------------
(* process_document *)

Doc(j) == job[j].doc
Chunk(j, i) == <<Doc(j), j, i>>
Embedded(j) == {Chunk(j, i) : i \in 1..job[j].batch}

MarkProcessing(j) ==
    /\ job[j].pc = "start" /\ Free(Me(j))
    /\ overlapped' = IF Working(Doc(j)) # {j} THEN overlapped \cup {Doc(j)} ELSE overlapped
    /\ \/ SetsStatus(Me(j), Doc(j), "processing") /\ Goto(j, "embedding")
       \/ Raises(Doc(j)) /\ Goto(j, "failing")
    /\ UNCHANGED <<sqlite, kb, upload, deleting, indexVars, crashes, indexed>>

\* Every batch but the last one: chroma stores it at once, and the task sleeps.
EmbedBatch(j) ==
    /\ job[j].pc = "embedding" /\ Free(Me(j))
    /\ job[j].batch < Batches /\ (job[j].batch = 1 => Doc(j) \in stored)
    /\ job' = [job EXCEPT ![j].batch = @ + 1]
    /\ vec' = IF sqlite THEN vec ELSE vec \cup {Chunk(j, job[j].batch)}
    /\ UNCHANGED <<sqlite, kb, recordVars, upload, deleting, stored, bm25, crashes, historyVars>>

\* This generation with its last batch, which is all there is of it in the other store.
Generation(j) ==
    {Chunk(j, Batches)} \cup IF sqlite THEN Embedded(j) ELSE vec \cap Embedded(j)
OfOthers(j) == {c \in vec : c[1] # Doc(j)}

\* What is left after a failure; first a faulty rollback that takes the whole document.
RolledBackDocument(j) == OfOthers(j)
RolledBack(j) == vec \ Embedded(j)

\* The last batch and what follows it without a pause: BM25, and the stale generations go.
\* If they do not, chroma only warns, and the other store raises.
StoreLast(j) ==
    /\ job[j].pc = "embedding" /\ Free(Me(j))
    /\ job[j].batch = Batches /\ (Batches = 1 => Doc(j) \in stored)
    /\ bm25' = [bm25 EXCEPT ![Doc(j)] = j]
    /\ \/ /\ vec' = OfOthers(j) \cup Generation(j)
          /\ Goto(j, "storing")
       \/ /\ vec' = vec \cup Generation(j)
          /\ vec # OfOthers(j)
          /\ Goto(j, IF sqlite THEN "failing" ELSE "storing")
    /\ UNCHANGED <<sqlite, kb, recordVars, upload, deleting, stored, crashes, historyVars>>

\* The file cannot be read, an embedding fails for good, or BM25 does.
StoreFails(j) ==
    /\ job[j].pc = "embedding" /\ Free(Me(j))
    /\ vec' = RolledBack(j)
    /\ Goto(j, "failing")
    /\ UNCHANGED <<sqlite, kb, recordVars, upload, deleting, stored, bm25, crashes, historyVars>>

MarkReady(j) ==
    /\ job[j].pc = "storing"
    /\ \/ SetsStatus(Me(j), Doc(j), "ready") /\ End(j) /\ indexed' = indexed \cup {Doc(j)}
       \/ Raises(Doc(j)) /\ Goto(j, "failing") /\ UNCHANGED indexed
    /\ UNCHANGED <<sqlite, kb, upload, deleting, indexVars, crashes, overlapped>>

\* The except branches of process_document and of its caller both put the error.
MarkError(j) ==
    /\ job[j].pc \in {"failing", "failed"} /\ Free(Me(j))
    /\ SetsStatus(Me(j), Doc(j), "error") \/ Raises(Doc(j))
    /\ IF job[j].pc = "failing" THEN Goto(j, "failed") ELSE End(j)
    /\ UNCHANGED <<sqlite, kb, upload, deleting, indexVars, crashes, historyVars>>

-----------------------------------------------------------------------------
\* The process dies and starts again: requests and tasks are gone, the records are loaded.
Reload ==
    /\ crashes < MaxCrashes /\ crashes' = crashes + 1
    /\ cache' = Replay(snapshot, events) /\ writer' = NoWriter
    /\ upload' = [d \in Docs |-> IF upload[d] = "new" THEN "new" ELSE "done"]
    /\ deleting' = [d \in Docs |-> "no"]
    /\ job' = [j \in Jobs |-> IF job[j].pc = "off" THEN job[j] ELSE [NoJob EXCEPT !.pc = "done"]]
    /\ kb' = IF kb = "there" THEN kb ELSE "gone"
    /\ UNCHANGED <<sqlite, snapshot, events, indexVars, historyVars>>

DocumentsNext ==
    \/ AppendDocEvents \/ WriteDocsSnapshot \/ EmptyEvents
    \/ \E d \in Docs :
          \/ Upload(d) \/ AddDocument(d) \/ DeleteDocument(d) \/ RemoveDocument(d)
          \/ \E j \in Jobs : StartUploaded(d, j) \/ Reprocess(d, j)
    \/ Unlist \/ EmptyKb \/ RemoveKb
    \/ \E j \in Jobs :
          \/ ResetStatus(j) \/ MarkProcessing(j) \/ EmbedBatch(j) \/ StoreLast(j)
          \/ StoreFails(j) \/ MarkReady(j) \/ MarkError(j)
    \/ Reload

DocumentsSpec == DocumentsInit /\ [][DocumentsNext]_documentVars

-----------------------------------------------------------------------------
(* Properties *)

\* Whenever the process dies, the snapshot and the events give the records as the last
\* mutation left them, or as the one under way makes them: also between the replacement of
\* the snapshot and the emptying of the events, which are then applied a second time.
EventsGiveRecords ==
    Replay(snapshot, events) \in {cache, IF writer.pc \in {"none", "config"} THEN cache ELSE writer.before}

\* _store_in_chromadb: "This keeps old chunks serving if re-indexing fails midway".  A
\* document that was ready once has a whole generation of chunks until it is deleted,
\* whichever later attempts fail or die, and so it has in BM25.  In chroma two jobs at work
\* on it at a time take away each other's first batches; the other store is written at once.
OldChunksServe ==
    \A d \in indexed :
        cache[d] # Nil /\ kb \in {"there", "unlisted"} /\ (sqlite \/ d \notin overlapped)
            => /\ \E g \in Jobs : \A i \in 1..Batches : <<d, g, i>> \in vec
               /\ bm25[d] # 0

\* The records survive, and what was searchable stays so.
DocumentsWhole == EventsGiveRecords /\ OldChunksServe
=============================================================================
