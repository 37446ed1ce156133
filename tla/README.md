# Lex Mint: a TLA+ model of its backend

Lex Mint is a chat and workflow server: a FastAPI process on one asyncio event
loop (`src/src`), a React client (`src/frontend`), and state kept in files and
SQLite databases. This directory holds TLA+ modules for the parts whose
correctness depends on order, concurrency and failure, the TLC configurations
that check them, and TLAPS proofs of what holds for every size.

## Inventory

| Part | State it keeps | Operations | What makes it hard | What makes it correct |
|---|---|---|---|---|
| Stream runtime (`application/flow/flow_stream_runtime.py`) | per stream: window of events, sequence counter, done flag, subscriber queues, last use | create, append, subscribe, resume by cursor, unsubscribe, expire, evict | bounded window and registry; reopening a stream with readers attached; expiry between two yields | nothing lost or repeated at the seam of replay and live; active streams never removed; readers released |
| SSE endpoints and client (`api/routers/chat.py`, `runs.py`, `frontend/src/services/api.ts`) | the generator of each response; the client's cursor and retry count | open, resume, replay, live, close | disconnections, reconnection with a stale cursor, two endpoints with different end rules | contiguous delivery over reconnections; every generator of a completed stream ends |
| Async runs (`application/flow/async_run_service.py`, `infrastructure/storage/async_run_store_service.py`) | one JSON record per run, task and cancel-flag tables, the running tasks | create, cancel, resume, run, reconcile | two writers of one record, check-then-await, crash and shutdown, cleanup by run id | cancel is honoured, outcomes are true, every run settles, streams complete |
| Orchestration engine and checkpoint stores (`application/orchestration`) | node, step, checkpoint sequence; checkpoints in memory or SQLite | run, resume, node attempt, retry, time out | retry after events were emitted, crash between two checkpoints, resume from an older one | a resume continues a trail the run really took; budgets hold; executions end |
| Workflow execution and definitions (`application/workflows`, `domain/models/workflow.py`) | node outputs, run history file, artifacts | validate, node handlers, artifact write, history append | edits between start and resume; history written in a finally block | accepted definitions terminate; what is recorded as succeeded was reached durably |
| Conversation storage (`infrastructure/storage/conversation_storage.py`) | one markdown file per session, per-file locks of each instance | append, truncate, edit, delete, move, metadata | read-modify-write, only one method takes the lock, a move changes the lock's key, some requests make an instance of their own | no metadata update lost among those under one lock; the step counts the answers |
| Chat turn (`application/chat/single_chat_flow_service.py`, `post_turn_service.py`) | the session's log while requests overlap | ask, compress, answer, regenerate, clear | a regenerated turn overlaps with the one it replaces; compression between question and answer | every question reaches its model, one answer each, summaries stay inside their section |
| LLM runtime, tool loop and client tools (`llm_runtime`, `client_tool_call_coordinator.py`) | rounds, counters, pending and buffered results; uploads and files of messages | model pass, tool call, await, submit, time out | result before call, after timeout, twice; a model that never stops asking | passes are bounded, every call is answered once, the turn ends |
| Compare and group chat (`application/chat/chat_runtime`) | one queue per turn, tasks per model; rounds of a committee | fan out, merge, cancel, decide | cancellation noticed only between items; members fail; the supervisor finishes early | what is saved is what was shown; everyone is heard |
| Compression (`infrastructure/compression/compression_service.py`) | chunks, partial summaries, retry counters | map, retry, reduce, fall back | summaries that do not shrink; empty answers | the summary covers every message, ends |
| Knowledge bases and retrieval (`infrastructure/knowledge`, `infrastructure/retrieval`, `api/routers/knowledge_base.py`) | document status in two stores, chunks in two indexes, event log with snapshot | upload, process in a detached task, reprocess, delete, search, fuse, fill | a task outliving its document; crash between two stores; limits that compete | a searchable generation stays, the event log rebuilds the records, free places are filled |
| Project documents (`infrastructure/projects`) | pending patches, file content | propose, apply | content changed between the two; hunks that moved | a patch does what was meant or nothing |
| Chat page (`frontend/src/shared/chat/hooks/useChat.ts`) | messages shown, request flags, stream | open, send, edit, regenerate, delete, stop | answers for a session that is no longer open; optimistic changes of a failed turn | what is shown agrees with the session when everything is quiet |
| Settings (`infrastructure/config`) | three files of the model configuration; one file per list (assistants, templates, folders) | load, change, save; synchronise at every request | files written one after the other or through one shared temporary file; crashes in between | the default selection can be used; a list is replaced at once |
| Project editor (`frontend/src/modules/projects`, `project_service.py`) | text, stored text, hash and conflict of the page; the files | open, edit, save, reload, rename, delete; search | other writers, answers late or lost | a save replaces what the page was told; a search says when it stopped |
| Sessions (`api/routers/sessions.py`, `folders.py`, imports, titles) | the set of sessions, folders, assistants | create, copy, branch, move, import, rename, ask for a title, delete messages, empty a folder | requests of many calls; titles judged by their text | sessions open, copies whole; a title of the user's that does not read like one of the program's own is not overwritten |
| Plugins (`tools/plugins`, `providers/plugins`, export plugins) | registries built on first use | load, register, fall back, list status | duplicates and partial failures | registries and status lists agree |
| Tools of a turn (`single_chat_flow_service.py`, `context_assembly_service.py`, `tool_gate_service.py`) | policies of the assistant, the project, the gate; what was offered | prepare, resolve, call | settings read three times while they change, reads that fail | nothing runs that is off; what is offered runs |
| Web tools (`infrastructure/web`, `plugins/web_tools`) | settings frozen when built | search, page on, read in several ways, build a context | ways that fail differently, limits, pages cut from new searches | pages go on; what is cut or failed is told; all that was read is a source |
| Knowledge tools (`rag_tool_service.py`) | citations, cached searches | search, read | indexes change between search and read; citations are renumbered | a citation reads what it was told for; bound bases only |
| Queries of a retrieval (`query_transform_service.py`, `retrieval_query_planner_service.py`, `rag_service.py`) | queries, branches, diagnostics | rewrite, guard, plan, embed, search, compare, stitch | failures at each stage fall back; two branches compete | the question is what is searched for; the answer is told |
| Workflow definitions and the novel pipeline (`workflow_config_service.py`, `api/routers/workflows.py`) | one file of definitions, run histories; documents of a project | create, change, delete, run, bring built-in ones up to date | reads before the lock; newer built-in versions; stages run again and overlapping | built-in and acknowledged definitions stay; stages fit together |
| Addresses and keys of providers (`model_config_service.py`, `model_config_repository.py`, `provider_probe_service.py`) | configuration and key file, one temporary file | create, change, delete, migrate, call, probe | two files, a shared temporary file, crashes | a call goes where it should with the key it should |
| LM Studio adapter (`providers/adapters/lmstudio_adapter.py`) | parser state, a queue, a task | stream, act, invoke | tags cut between fragments; readers that leave | content whole, nothing of the thinking shown |
| Translation and local model (`translation_service.py`, `local_llama_cpp_service.py`) | thread locks per model, the filter | translate, detect, stream, leave | a thread lock held by a suspended generator | the lock is freed on every path; shown text is whole |
| Memory (`infrastructure/memory`) | memories in a vector store, two copies of the settings | create, edit, delete, extract, search | edits between extractions; stale settings | no twins, right owner, right sources |

How they interact: a chat request opens a stream, starts a producer task that
runs the chat turn (question, compression, prompt, tool loop, answer) and
appends events, and returns a generator that reads the subscriber queue. A run
request opens a stream under the run's id and starts a background task; readers
come and go through `GET /runs/{id}/stream` and its resume endpoint. The task
drives the workflow execution service, which drives the orchestration engine,
which saves a checkpoint before it yields the event that names it. List
requests reconcile records that no task works on. Documents are processed by
tasks nobody waits for. The browser answers some of the tool calls of a turn,
and names messages to the server by their place in what it shows.

All hazards found while reading, with their lines and the properties that catch
them, are in `PROJECT.json`; those without a property say why.

## Modules

| Module | Models | Correspondence |
|---|---|---|
| `FlowStreamRuntime` | the class `FlowStreamRuntime` | one variable per field of `FlowStreamState`; one operator per method; `_gc` is `Surviving`, applied in every method that calls it. `idle` is the age of `updated_at` in ticks. `produced` is the source of event ids. |
| `FlowDelivery` | both routers' generators, the chat producer, the client | `pc[r]` is where the generator stands; each action is one stretch between two yields or `queue.get`s. `got[r]` is what the client received over all its responses; `retries` and the cursor are the client's. |
| `AsyncRuns` | `AsyncRunService` on the record store and the same runtime | each action is what one coroutine does between two awaits. `writes` is the FIFO of `save_run` calls waiting for the store's lock; `att` are the tasks, with their copy of the record; `tasks` and `flags` are `_tasks` and `_cancel_flags`. |
| `WorkflowGraph` | workflow definitions: `validate_graph`, the compiler, `validate_run_spec`, edge resolution | pure operators over a definition |
| `Orchestration` | the engine and both checkpoint stores | each action runs from one yield of the generator to the next; `ckpts` is the store, `run` the generator's locals. `trail` is history. |
| `WorkflowRuns` | `WorkflowExecutionService` on the engine | extends `Orchestration` with the actors of the node types, the history file, the artifact, executions that die and resume, and edits of the definition |
| `DurableRun` | - | the abstract specification: a walk whose every step is durable, taken up from any durable walk. `WorkflowRuns` implements it (`ImplementsDurableRun`) under the mapping walk <- trail of the run, durable <- trails of the checkpoints, entry <- `Entered`, the node at which an execution starts or goes on. |
| `ConversationStorage` | the operations on one session's file | `task` is a coroutine between find, lock, read, open for writing and close; `lockOf` is the lock table of the storage most requests share, `holder` also has the locks of the storages that `folders.py` and `title_generation.py` make per request |
| `SessionFile` | the messages of a session as lines of its file; the Markdown export, the imports of Markdown and ChatGPT | a line is its kind and the message it was written for; one action per operation of the storage, none of them interrupted |
| `ModelInput` | what a turn sends to its model: uploads and pictures, boundary, rounds, plan of the context, trim | texts are sizes in tokens, uploads numbers; one action per awaited step of a turn and per change of the session |
| `ChatTurn` | overlapping turns, compressions and separators of one session | an operation on the log is one step, `ConversationStorage` looks inside it |
| `ToolLoop` | `call_llm_stream`, `ToolLoopRunner` and `ClientToolCallCoordinator` | one action per model pass, tool, wait, post and timeout; the runner's counters are variables |
| `Compression` | the single pass and the map and reduce levels | one action per call of the summarising model |
| `GroupChat`, `CompareChat` | committee and round robin; the comparison of models | one action per decision, member call, queue item and save |
| `KnowledgeDocuments` | records in SQLite and YAML, event log and snapshot, both indexes, the detached jobs | one action per store call; `crashes` restart the process |
| `Retrieval` | fusion, rerank, limits per document, places, neighbours, query rewriting | the pipeline's passes as operators on sequences of scored chunks |
| `ProjectPatches` | proposing and applying a patch | one action each; files are sequences of lines |
| `ChatClient` | `useChat` with the server's sessions behind it | requests, events and state updates are separate actions |
| `ModelSettings` | providers, models, default selection | a save is three writes, the synchronising thread takes steps in between; a crash at any of them |
| `SettingsFiles` | lists saved whole | inodes and renames: a handle follows its file |
| `ProjectFiles` | the project's files and the page that edits one | requests of the page are served and answered in any order |
| `Sessions` | requests on sessions, folders and imports | one step per call of the storage; several requests at a time. A title is `[look, by]`: what the code tells of its text (default, with "...", other), and, as history, whether the user gave it |
| `Plugins` | tool, provider and export registries over a directory of plugins | loading is one step, a registry is built when first asked for |
| `Memory` | memories, extraction, retrieval | one step per call |
| `TurnTools` | the tools offered and run in a single chat | prepare, resolve and each call are actions; the user changes settings in between |
| `WebTools` | searches, reads and contexts of the web tools | a call of the provider or one way to a page per action; pages are lengths |
| `KnowledgeTools` | `search_knowledge` and `read_knowledge` of one turn | one action per tool call; others change the indexes |
| `RetrievalPlan` | what a retrieval asks for, around `Retrieval` | `pc` is the stage; one action per stage and per query of a base |
| `WorkflowStore` | the requests on workflow definitions | `reqs[r].pc` is where a request waits: for the lock, for a read, for the history |
| `NovelPipeline` | the eight built-in novel workflows and the documents of their runs | one definition per `Workflow(...)`; a run begins, and writes or fails |
| `ProviderAccess` | addresses, profiles and keys of providers, calls and probes | requests step from await to await; handles of the temporary file follow it |
| `ThinkTags` | the parser of LM Studio and the stream filter | texts are sequences of symbols |
| `LmStudio` | one streamed answer, with and without tools | task, queue and generator step separately |
| `Translation` | translations and the local model's lock | between two shown texts others run; a second use of a lock is `stuck` |
| `...Proofs` | - | the theorems about the module named before `Proofs`; in `ConversationProofs` about `ConversationStorage`, `ChatTurn` and `ToolLoop`, in `ResourcesProofs` about `SettingsFiles`, `Sessions`, `ProjectFiles`, `WorkflowStore`, `KnowledgeDocuments` and `ModelSettings` |
| `MC...` | - | model values, sets and compositions for TLC |

`FlowDelivery` and `AsyncRuns` both extend `FlowStreamRuntime`: its operators
are conjuncts of their actions, since no method awaits. `MCConversation` and
`MCResources` put independent parts side by side in one run: `part` says which
one a behaviour is about. The parts that theorems are about are extended, so
that TLC evaluates their assumptions and the run and the theorem name the same
property; the others are instantiated. Operators whose comment begins "A faulty ..." are
variants of a neighbouring definition with a plausible bug; no specification
uses them. They show that a property can fail.

### What is abstracted

* An event is its id, its sequence number and one of four kinds; texts, meta
  events and formatting are dropped. Event ids are counted instead of drawn as
  uuids.
* The stream's context check (409) is left out: the client sends back the
  context it was given. Connections that break without the server noticing are
  left out; `Disconnect` loses any suffix of the current response.
* The answer for a terminal run whose stream is gone is `Synthetic`; the error
  event the code may put between its two events stops the client just the same.
* A run's record keeps its status, the last checkpoint it knows and the
  checkpoint remembered by a resume; errors, output and cursor fields are
  dropped, and so is the store's retry of `os.replace`.
* For `AsyncRuns` the workflow behind a task is free to make progress, finish,
  fail or raise at every event. `WorkflowRuns` looks inside it: outputs are
  present or blank, a condition goes either way.
* What messages, chunks, summaries and patches say is dropped except where a
  property tells them apart: lines of a patch, facts a summary must keep, ids
  of messages, generations of chunks.
* Scores of a retrieval are small integers; embeddings and text splitting are
  not modelled.

## Runs

| Run | Question | Bounds and why they suffice |
|---|---|---|
| `delivery` | Is delivery gapless over replay, live and two reconnections, and are readers of a completed stream released? | one stream (chat or background run) and one client; window 2, five events, two openings of a run's stream: the window overflows, the cursor falls out of it, the stream is reopened under a reader, the entry expires, an error comes in mid-stream |
| `registry` | Do eviction, expiry and overload keep the registry bounded and active streams safe, and queues apart? | three streams for two places, two clients, TTL 2 so that ages differ; no reconnections, which `delivery` has |
| `async_runs` | What is left on disk and on the stream by create, cancel, resume, list, one crash or shutdown? | one run with two tasks, two checkpoints, one cancel, one resume, one stop; or two runs for one stream place |
| `workflow_runs` | Do executions with retries, crashes and resumes implement a durable run, and do they end? | three definitions, with and without a condition, artifact in or out of a project, the third with another entry and its old end node in the middle; two executions, one edit, one retry per node |
| `conversation` | What do the parts of a conversation promise? | tools: two rounds, batches of one and two calls; turns: three requests, two at a time; file: two coroutines, three operations; summary: four messages in up to three levels; group: up to three members; comparison: two models; memory: two memories, one assistant; tools of a turn: a tool of each group, one change of settings; web: one search or one read or a context of two; knowledge tools: two queries, two bases, one change; queries: two bases, three texts; LM Studio: up to three rounds of short fragments; translation: two users, one or two models, a compression; messages: three operations on a file of up to four messages, with texts that look like headings or comments, two ChatGPT conversations; input of the model: two questions, two pictures of one name, one change of the session, three budgets. Together 1.1 million states |
| `resources` | What do documents, retrievals, patches, the page and the definitions promise? | one document, two jobs, one crash; two bases with up to three hits each; files of up to three lines; two sessions and two acts of the user; all definitions over three nodes; two providers, one model, one crash; two requests on a list; one project, one page and another writer; two sessions, the first a chat that stays and has two messages, two requests at a time, titles with and without dots; up to two plugins; two requests on the workflow definitions, two versions, one stop; two providers, three requests and one crash on addresses and keys; three documents of a novel, two runs at a time. Together about a million states |
| `resume_tail_lost` | finding: a resumed chat response drops what was queued while it replayed | |
| `error_not_last` | finding: an unmapped event puts `stream_error` in mid-stream | |
| `resume_checkpoint` | finding: a second resume goes back to the first one's checkpoint | |
| `interrupted_run` | finding: a shutdown records an unfinished run as succeeded | |
| `double_resume` | finding: two resumes race, and a list request fails a live run | |
| `lost_append` | finding: two overlapping appends lose a message | |

Deadlock checking is off everywhere: streams complete, clients give up and runs
settle, after which nothing need happen.

The search of `resources` reaches its limit of results but not that of files
(`ScanLimit`), for which three paths are too few.

Counters are bounded in guards, by constants whose comment says "bound". The one
state constraint, of `delivery`, leaves out states in which both of its streams
have been opened; opening is a choice of clients that no fairness asks for.

### Fairness

`FlowDelivery` assumes that the event loop runs every generator that can run
(weak fairness per reader) and nothing of producers, clients, connections or
the clock. `AsyncRuns` assumes in addition that a workflow yields or ends, that
a process told to stop stops, and that some client keeps listing runs, which
the pages of the frontend do by polling; without that an orphaned run is never
settled, since reconciliation runs only in those requests. `WorkflowRuns`,
`ToolLoop` and `Compression` assume that the coroutine at work goes on: model
calls return or time out, and the wait for a browser's result has a timeout.

### What the violations mean

The six findings in `PROJECT.json` are disagreements between the code and a
line of its documentation, comments, docstrings or tests. Two more behaviours
are in the model but contradict no promise: a task aborted before it starts
leaves its stream open for ever, and a reconciliation of several records may
overwrite an outcome saved since it read them.

Observations from the modelling that no run states: the chats work with the
memory settings loaded at start (`bootstrap.py:103`) while the settings page
changes another service's; a memory changed to global scope keeps its assistant
(`exclude_none`) and later gets a twin; the list of memories says "latest update
first" and sorts ascending (`memory_service.py:306`); a failing export plugin
falls back to the plugin before it, whose content is labelled as the failing
one's.

The per-file lock: `_file_locks` belongs to an instance of `ConversationStorage`
(`conversation_storage.py:58`). Most requests share one (`dependencies.py:60-69`),
but deleting a folder (`folders.py:50-52`) and asking for a title
(`title_generation.py:53-56`) make one of their own, so their updates of a
session's metadata do not wait for those of others, and a title or folder that
was stored meanwhile may be overwritten in spite of the comment at
`conversation_storage.py:1138`. The model has these locks, and without `~apart` in
`MetadataUpdatesSurvive` TLC finds the lost update with two coroutines and two
operations. It is the same kind of loss as in `lost_append`.

Titles: whether a title is still to be generated is told from its text alone
(`title_generation_service.py:151-154`), so one the user has typed is replaced
after the next turn if it contains "..." or is "New Conversation", "New Session"
or "新对话", and by the next question if it is "New Conversation" or "New Chat"
(`conversation_storage.py:443`); deleting all messages makes any title "New
Chat". `docs/title_generation_feature.md:280` speaks of default and truncated
titles, which is how such a text reads, so this is no finding. A generation that
was asked for before the user renames the session, and a copy or import that has
not set its title yet, still overwrite what the user gave. `TitlesKept` is about
the plain titles that are left, and leaves those moments out (`named`).

Session files: an edit, deletion or regeneration rewrites the whole file without
the sources of its answers and without the member of a group who spoke
(`assistant_id`); a branch, copy or import also drops what a compression
recorded about its summary. A text with a line like "## User (" is read back as
two messages whose pieces may take an id that another message has, since an id
that is not written is derived from the message's place, so a deletion by id may
then remove another message than the one meant (`misled`; `MisledOnlyByPieces`
shows that nothing else misleads). Lines of a text that look like the storage's
comments are swallowed. The counts in the list of sessions count headings in
texts, and the search finds words of the comments.

Input of the model: `trim_messages` (langchain) with `start_on="human"` keeps
the first system message and nothing else before the first question, also when
everything fits. Since `stream_input.py` gives every segment a message of its
own, the summary, memories and retrieved texts that the plan has included are
dropped whenever a segment comes before them, and the turn is reported as
truncated. A context of 1024 tokens or fewer leaves no budget, so not even the
question is sent; a segment smaller than 24 tokens is dropped when less than 24
are left, although it would fit. Pictures are stored under the number of
messages when their turn began and looked for by the place among the messages
sent, so after a boundary, a limit of rounds or a deletion a message loses its
pictures or gets another one's of the same name; uploads of one name in one
message make the turn fail, and a branch leaves all pictures behind.

Tools and knowledge: the gate is left unapplied when its configuration cannot
be read; when resolving the tools fails, the model is offered tools the
executor then refuses; `execute_python` may run on the server after the browser
timed out, possibly a second time; an unknown context capability ends the turn
after the question was appended; citations S1, S2, ... are renumbered by every
search, and a read with neighbours of a chunk that is gone gives its neighbours
under its reference. A planner limit of 1 still gives two queries
(`retrieval_query_planner_service.py:119`), and the planner's queries pass no
guard.

Web: services keep the settings they were built with until plugins are
reloaded; `has_more` is false on a page that lost duplicates; a text under 200
characters is replaced by the page's description without being called
truncated; the numbers in a context count failed pages that its sources leave
out; a content encoding the browser-like client does not know raises out of
`fetch_and_parse`.

Definitions: overlapping updates of one definition lose one, a delete whose
definition was read as a user's may remove the built-in one that took its id,
and a run under way leaves a history behind its deleted definition. Nothing
marks a document of the novel as stale when an earlier stage is run again, and
a style polish that was given no continuity report still names it as upstream.

Providers: overlapping changes of keys share one temporary file, so one may be
lost, the other fail, and the key file be damaged meanwhile, after which the
next change drops all other keys; the properties leave such changes out
(`torn`). The configuration is written before the key, so a turn in between, or
after a crash, sends the old key to the new address, and a re-created provider
finds the key of the deleted one.

Streams: an answer of LM Studio with nothing but thinking is told twice with
tools; `invoke` returns its raw text with the tags; an act that is abandoned
leaves its connection open (`suppress(Exception)` does not catch
`CancelledError`). Two overlapping uses of one local model stop the event loop
for ever: the second waits, on its only thread, for a lock that the suspended
first one holds (`local_llama_cpp_service.py:265`). An answer that ends with the
beginning of a tag loses it, and a local answer that fails midway is begun anew
after what was shown.

## Proofs

`FlowStreamRuntimeProofs` shows what any step on the runtime preserves: a
`RuntimeStep` is one method call, or a generator taking from or dropping its
queue. `FlowDeliveryProofs` shows that every step of `FlowDelivery` is a
`RuntimeStep` (`NextIsRuntimeStep`), so the lemmas carry over:

* `TypeCorrect`: `Spec => []TypeOK`. Inductive as it stands, one lemma per
  method and per kind of reader step.
* `RegistryBound`: `Spec => []RegistryBounded`. With the types: a step either
  leaves a subset of the registry or adds one stream to what `MakeRoom` allows,
  and one eviction is enough because the bound held before.
* `WindowKeepsTail`: `Spec => []WindowIsTail`. With the types: the window is
  reset together with its counter, an append pushes the next id and a larger
  sequence number, and a resume only raises the counter.
* `ActiveStay`: `Spec => ActiveStreamsStay`. A property of each step: `_gc` and
  the eviction take completed streams only.

The second part of `FlowDeliveryProofs` proves the two invariants about what
readers get, from one inductive invariant, `DeliveryInv`:

* `Contiguous`: `Spec => []ContiguousDelivery`, and `PendingIsCurrent`:
  `Spec => []PendingReachesHead`. `ContiguousDelivery` alone is not inductive:
  it says nothing of what is still pending. `ReaderInv` adds that what is
  pending (backlog, then queue) is itself consecutive and continues what was
  received, that it reaches the newest event of the stream as long as the
  reader is subscribed, that a reader subscribes to its source only, that a
  generator reading its queue has no backlog left, and that a client that has
  not begun holds nothing. `Numbered` adds that stored events have ids above 0,
  so a cursor is never a transport event. Appending, yielding, announcing,
  subscribing and losing a connection are lemmas about sequences (`PushLine`,
  `TakeLine`, `NoteLine`, `StartLine`, `CutLine`), and each action applies one
  of them to its own reader and `Keep` to the others.

The last part proves that a completed stream releases its readers as far as
safety can say it:

* `ReadersSeeTheEnd`: `Spec => []TerminalPending`, from `CompletionInv`. Nothing
  of this is inductive by itself: a terminal event may have left the window, a
  chat producer goes on after `stream_error`, a client that reconnects holds
  events of earlier responses, and a reader whose stream was reset under it
  still drains an old queue. `Completed` says that a completed stream has a
  terminal event, number t, which nobody has passed: a subscribed generator that
  still reads has it pending, whatever a client holds and did not take for the
  end is older, and so is everything left to readers of an earlier opening. The
  window need not hold it, except that of a run, where a late first response
  replays all of it: there the newest event is terminal, since the task of a run
  has only `stream_ended` to say after an error (`RunEnds`). That a new terminal
  event is ahead of everybody needs that nobody holds an event that was not
  produced (`Known`). `Moved` lists what a step can do to a reader; every
  invariant is then kept by each kind of move.

These hold for every finite set of streams, every set of readers, and every
positive window, capacity and TTL (`RuntimeAssumption`). The bounds of TLC
appear in guards only and play no role.

`WorkflowRunsProofs` is about the engine, both checkpoint stores and the
execution service together, for any set of definitions, any step budget, number
of retries and length of the history, with crashes, abandoned streams and edits
in between (`WorkflowAssumption`: the definitions are records of the shape the
code loads and `None` is no node).

* `TypeCorrect`: `Spec => []TypeOK`, from `WorkflowInv`. The types alone are not
  inductive: that a node which finishes hands over a node of some definition
  needs that the spec of the run is the compilation of a definition and that the
  node under way is on its graph (`OnGraph`), and that the step counter of a
  checkpoint stays in range needs that only a counter within the budget enters a
  node (`WithinSteps`).
* `AttemptsCorrect`: `Spec => []AttemptsAccounted`. `Speaking` says in which
  states an attempt may have been heard at all, so that a retry, which is
  allowed only to a silent attempt, starts from nothing; `Budget` ties the step
  of each checkpoint to the length of its own trail and to the executions so
  far, because a resume takes its counter from any checkpoint, not the last.
* `SuccessCorrect`: `Spec => []SuccessIsDurable`, from `Concluded`: a run whose
  generator has ended as completed has its completion among the checkpoints,
  and checkpoints are never removed.
* `DurabilityCorrect`: `Spec => ImplementsDurableRun`, the refinement. `OnWalk`
  says that the node at work is the one due after the walk the run has saved,
  in the definition in force when the execution began; each action of the
  engine is then a `Begin`, `Finish`, `Close` or `Leave` of `DurableRun`, or a
  stutter. The proof attempt showed what the first mapping had wrong: when the
  definition is edited between two executions, a run resumed from a
  `node_started` or `node_finished` checkpoint goes on at the checkpoint's node
  and not at the entry of the new definition, and a node that was an end may
  have successors. The mapping `Entered` and the definition `Renamed` of the run
  come from there.

`AsyncRunsProofs` takes the runtime's lemmas from `FlowStreamRuntimeProofs` and
proves, for any number of runs, tasks, cancel and resume requests, checkpoints
and stops (`RunsAssumption`; the resume requests are finitely many):

* `TypeCorrect`: `Spec => []TypeOK`.
* `OrphansCorrect`: `Spec /\ []ResumesInTurn => []OrphansOnlyAfterStop`
* `CheckpointsCorrect`: `Spec /\ []ResumesInTurn => []CheckpointsPersisted`
* `StreamsCompleted`: `Spec /\ []ResumesInTurn => TaskCompletesStream`

`ResumesInTurn` says that no two resume requests of the same run overlap between
the check for an active task and the launch. It is needed: with two overlapping
resumes of one run two tasks work on it, and TLC finds all three properties
violated (`double_resume` is one consequence). With a single client that resumes
it always holds, and the run `async_runs` has one. Requests for different runs
may overlap freely.

The three follow from one invariant, `RunsInv`. `Queued`: each save waiting for
the store's lock is claimed by exactly one request or task and says only what
that one may say where it stands. `Unborn`: before its first save a run is known
to nobody. `Registered`: a live task is the registered one of its run, hence the
only one. `Undisturbed`: no task works on a run that is being resumed.
`Outcomes`: what the record on disk may say while a task is in each of its
states. `Listening` and `Spoken`: a task that has still to say its last event has
an open stream that is not completed, and a stream whose window shows its end is
completed. None of them is inductive alone: that the disk names the newest
checkpoint needs to know every save in the queue, and that no foreign save is
there needs that the task is the only one.

`ConversationProofs` is about the file of a session, its log and the loop over
tools. The first part, on `ConversationStorage`, holds for any number of coroutines, operations
and messages (`StorageAssumption`: `Absent` is neither a coroutine nor a number):

* `LockedCorrect`: `StorageSpec => []LockedUpdatesHold`. `StepInv` carries the count of
  answers through the files, what every coroutine has read of one, and the
  appends under way: the id of an append is in no file and in nothing read, so
  what is written from an old copy is still right in itself, although it may
  undo what others wrote. It stops where two coroutines have the file open for
  writing at once (`tangled`), since then a mix of both is left. `LockInv` says
  that one coroutine at a time is between reading the file for a metadata update
  and closing it, that it holds its lock, hence is alone under it (`Alone`), and
  that the file is empty exactly while that coroutine carries every update so
  far. It is claimed of behaviours with metadata updates only (`calm`), since
  nothing else takes the lock and `move_session` carries it along to another
  path, and as long as no two updates were at the file under different locks
  (`apart`): a storage made for one request has locks of its own.
  The lemmas `RebuiltRight` and `ChangedRight` state what each operation makes
  of a file.

The second part, on `ChatTurn`, holds for any number of requests, any bound on
the log and on the requests at work, and any least number of messages to be
compressed (`TurnAssumption`: these are numbers, `NoQuestion` is none):

* `LogCorrect`: `TurnSpec => []LogInOrder`, from `TurnInv`. `QuestionReachesModel`
  needs to follow the question through the turn (`AskedOf`): while it is asked
  and loaded it is after the last boundary, while it is being compressed in the
  summary to come, then in what the new summary reaches; and that nobody else
  changes the log meanwhile, since of two requests at work neither counts as
  alone (`AloneHolds`). `OneAnswer` needs what a request may have left in the log
  by the phase it is in (`AnswersOf`). `SummariesStayInside` needs that a summary
  in the making covers what is after the boundary now (`SummingOf`), and that
  ids are given once (`IdsFresh`), so that these are not the ids of anything
  before the separator. The log changes in two ways, cut to a prefix or longer by
  an entry; `Cuts` and `Pushes` state once for all the actions what that does to
  the invariant, and `Moves` what a step of one request leaves of the others.
  `BoundaryRight` and `AfterRight` are the lemmas about the boundary.

The third part, on `ToolLoop`, holds for any tools a model may ask for, any limit
of rounds and any results the browser posts at any time:

* `CostBounded`: `Spec => []RoundsBounded`. `Paid` keeps the account: the passes
  so far are the rounds of tools, one pass per kind of compensation that has been
  used, the refusal and the last answer.
* `CallsMeetResults`: `Spec => []ResultsReachTheirCall`. `InRound` relates the
  messages under construction to the calls of the round, `Asleep` says that the
  call the turn waits for is the current one and the only one registered, and
  `Met` that such a call has no result put aside. `MessagesAnswered` is the
  lemma on sequences: a message with calls followed by its results keeps
  `CallsAnswered` when it is appended.

`ResourcesProofs` is about what requests and jobs do to files and stores that
several of them share.

* `ListsCorrect`: `ListsSpec => []ListsWhole`, for any finite number of requests on
  a list of assistants, templates or folders, with a crash between any two steps
  (`ListsAssumption`). That the saved file is whole needs to know whose file the
  one beside it is: `Beside` says that as long as no two requests were at it at
  once (`crossed`), it is another inode than the list's, a request that has it
  open holds that very inode, still empty, and one about to rename finds it
  whole. `SavesProper` says that what a request is going to save is whole and,
  for folders, numbered without a gap; the lemmas on orders (adding, removing,
  moving an entry renumbers all of them) are about `Numbered`. `InPlace` says
  that folders have no file beside theirs. A crash leaves an inode nobody
  holds, and a free one exists by the pigeonhole principle (`FreshThere`).
* `SessionsCorrect`: `ChatsSpec => []SessionsKept`, for any histories, folders,
  assistants, imports, requests and restarts (`ChatsAssumption`). `Homed`,
  `Promised` and `Titled` say the property of each session with the parts that
  make it inductive: ids in use are ids that were given out, what was promised is
  a session that stays, a plain title the user gave stands as it was
  given, with no generation under way; the check after a turn takes no plain
  title. A request for a title is told apart by its number (`RequestsCounted`).
  `Making` says that a request that fills a new session has the messages it was
  asked for and that the session it made is not a temporary one;
  `Clears` that the deletion of a folder has every session of the folder still on
  its list, or the session came too late (`late`: after the list was read). `Grows`, `FiledRight` and `OthersStay` state once what the
  changes of a session leave of the rest.
* `SavesCorrect`: `EditorSpec => []SavesAreInformed`: a save that replaces a text
  names the text its page was told, unless an answer about one file came in
  while another was shown (`mistaken`). Answers are served and arrive in any
  order, so the invariant follows what was told through the page (`PageTold`) and
  through the requests under way (`SavesTold`).
* `DefinitionsCorrect`: `StoreSpec => []DefinitionsKept`, for any number of requests
  on the workflow definitions, with stops and newer built-in definitions between
  any two steps (`StoreAssumption`: the files a process may find have one
  definition per id). A request reads outside the lock what it decides on inside
  it, so the invariant says what such knowledge is worth. `LockRight`: who is in
  the lock has read the file as it is now. `RequestsRight`: what a request saw
  was a user's definition under its id. `RemovesRight`: a delete may be about to remove
  a built-in definition only when a request saw a user's definition under its id
  and gives that up. `AckedRight` and `RunsRight` do the same for what the user
  was told and for the history. `UpsertedRight`, `PutRight` and `TakeRight` are the
  lemmas on adding, replacing and removing a definition.
* `DocumentsCorrect`: `DocumentsSpec => []DocumentsWhole`, for any documents, any
  numbers of jobs, batches and crashes, and any number of events between two
  snapshots (`DocumentsAssumption`). `LogRight`: what is on disk gives the records,
  or those before the one change that is not written yet; between the replacement
  of the snapshot and the emptying of the events the snapshot equals the records.
  A crash there applies the events a second time: `StepsAgain` says that this
  changes nothing. The library's theorems on induction take an operator, so it
  and the other lemmas on `Replay` are proved by a least counterexample
  (`Least`, from `NatLessThanWellFounded`) along the log, taken as a function of
  the events read so far (`Steps`). For the chunks, `Lasts` says
  which documents ought to keep theirs. `UploadRight` and `GoneRight`: a document is
  unknown before its upload is through, and a deletion purges chunks only when it
  is written, so a crash brings no document back without them. `ChunksRight`
  and `EmbedRight`: a job's chunks are those it has added so far, under a
  generation nobody else uses. `AloneRight`: two jobs at one document count as
  overlapped. `Later`, `Puts` and `Idles` frame the steps: what none takes back,
  and which steps of a job touch chunks at all.
* `SelectionCorrect`: `SettingsSpec => []DefaultUsable`, for any providers, models
  and number of changes, with a stop before, between or inside any two writes.
  The unsaved half of a change is what makes the property fragile, so the
  invariant `SettingsInv` follows a change to the disk: unless a save and the thread of
  another request were at the files together (`mixed`), what is being written
  has a usable default (`Good`), the files already written hold it (`OnDisk`), and
  what the thread has read so far is what is on disk (`ReadSoFar`). A start
  after a stop reads whatever was left, also unreadable files, and gives up a
  selection that cannot be used before anything is served (`KeptRight`). One lemma per
  request (`ProviderAdded` to `DefaultSet`) says that the new configuration is good
  if the one it was made from was, also when `update_provider` saves a provider it
  read earlier. Deleting models filters a list; that the first model of a
  selection stays its first (`RemainingRight`) is again proved by a least
  counterexample. `SettingsAssumption` says only that the built-in providers are
  providers and that `Void` is none of the values it stands beside.

### What is only model-checked

* `CancelHonoured`. It needs besides that the copy a list request works with is
  not stale, and that does not hold in general: while a request saves the first
  of two orphans, a third run may be cancelled and the copy says still that it
  is running. With the two runs of `async_runs` it cannot happen.
* The properties of the other modules, among them those whose modules use
  RECURSIVE operators or folds, whose results for every input would need an
  induction the library's theorems do not give here. The least counterexample used
  for `Replay` needs a recursive function over numbers; these recur over sets,
  trees and sequences by operators. `SearchTellsAll` of `ProjectFiles` is
  one of these: the search is a fold over the sequence of files.
* All liveness (`ReadersReleased`, `Settled`, `ExecutionEnds`, `WorkEnds`), which
  rests on fairness and ENABLED.

## Not modelled

* The adapters of the other providers, the simple tools, audio: stateless calls,
  network I/O and formatting. `LocalGgufAdapter.create_llm` cannot work at run
  time, since a class of the same name shadows the imported service
  (`local_gguf_adapter.py:18`), so chats with local files have no behaviour to
  model; `Translation` models the service itself.
* Single settings sections, the metadata and capabilities of models: see the notes
  in `PROJECT.json`.
* The pages of the frontend other than chat and project editor: presentation.
* Evaluation scripts: offline tooling.

## Plan

1. Proofs: the pending patches; the addresses and keys of providers.
2. The capabilities of models and the layers of the single settings sections.
