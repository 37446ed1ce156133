---------------------------- MODULE CompareChat ----------------------------
(***************************************************************************)
(* One question to several models at once: CompareModelsOrchestrator and   *)
(* CompareFlowService.  A task per model streams into one queue, from      *)
(* which the orchestrator takes events for the client and counts the tasks *)
(* that are done; then the first model's answer becomes the message of the *)
(* session and all answers the comparison beside it.  Putting into the     *)
(* queue never waits.  Nothing under src/ hands the orchestrator a cancel  *)
(* token, so the checks for one are left out.                              *)
(***************************************************************************)
EXTENDS Naturals, Sequences, SequencesExt

CONSTANTS None,
          ModelIds, \* model_ids, a sequence
          MaxChunks \* bound: chunks a model's answer has

VARIABLES task,      \* per model: "new", "streams" or "ended"
          content,   \* per model: how many chunks its answer has so far
          results,   \* per model: None, or its entry in model_results
          queue,     \* what the tasks have put and the orchestrator has not taken
          finished,  \* how many tasks the orchestrator knows to be done
          delivered, \* per model: the kinds of its events at the client
          pc,        \* "streams", "append", "save", "done", "failed" or "stopped"
          exists,    \* whether the session has a file
          answer,    \* the message of the session: None, or what it says
          saved      \* the comparison: None, or the responses

vars == <<task, content, results, queue, finished, delivered, pc, exists, answer, saved>>

Models == ToSet(ModelIds)

\* process_compare_stream up to the orchestrator: the question is in the session.
Init ==
    /\ task = [m \in Models |-> "new"] /\ content = [m \in Models |-> 0]
    /\ results = [m \in Models |-> None] /\ queue = <<>> /\ finished = 0
    /\ delivered = [m \in Models |-> <<>>]
    /\ pc = "streams" /\ exists = TRUE /\ answer = None /\ saved = None

-----------------------------------------------------------------------------
(* _stream_model *)

Event(m, kind) == [model |-> m, kind |-> kind]

Start(m) ==
    /\ pc = "streams" /\ task[m] = "new"
    /\ task' = [task EXCEPT ![m] = "streams"] /\ queue' = Append(queue, Event(m, "model_start"))
    /\ UNCHANGED <<content, results, finished, delivered, pc, exists, answer, saved>>

Chunk(m) ==
    /\ pc = "streams" /\ task[m] = "streams" /\ content[m] < MaxChunks
    /\ content' = [content EXCEPT ![m] = @ + 1]
    /\ queue' = Append(queue, Event(m, "model_chunk"))
    /\ UNCHANGED <<task, results, finished, delivered, pc, exists, answer, saved>>

\* What a task puts when it ends; first a faulty order.
DoneFirst(m, kind) == <<Event(m, "done"), Event(m, kind)>>
DoneLast(m, kind) == <<Event(m, kind), Event(m, "done")>>

EndTask(m, result, kind) ==
    /\ pc = "streams" /\ task[m] = "streams"
    /\ task' = [task EXCEPT ![m] = "ended"] /\ results' = [results EXCEPT ![m] = result]
    /\ queue' = queue \o DoneLast(m, kind)
    /\ UNCHANGED <<content, finished, delivered, pc, exists, answer, saved>>

Answer(m) == EndTask(m, [content |-> content[m], error |-> FALSE], "model_done")
Raise(m) == EndTask(m, [content |-> 0, error |-> TRUE], "model_error")

-----------------------------------------------------------------------------
(* _run_compare_actor and _persist_compare_results *)

Take ==
    /\ pc = "streams" /\ queue # <<>>
    /\ queue' = Tail(queue)
    /\ IF Head(queue).kind = "done"
       THEN /\ finished' = finished + 1 /\ UNCHANGED delivered
            /\ pc' = IF finished + 1 = Len(ModelIds) THEN "append" ELSE pc
       ELSE /\ delivered' = [delivered EXCEPT ![Head(queue).model] = Append(@, Head(queue).kind)]
            /\ UNCHANGED <<finished, pc>>
    /\ UNCHANGED <<task, content, results, exists, answer, saved>>

AppendMessage ==
    /\ pc = "append"
    /\ IF exists THEN answer' = results[ModelIds[1]].content /\ pc' = "save"
       ELSE pc' = "failed" /\ UNCHANGED answer
    /\ UNCHANGED <<task, content, results, queue, finished, delivered, exists, saved>>

SaveComparison ==
    /\ pc = "save"
    /\ IF exists THEN saved' = SelectSeq(ModelIds, LAMBDA m : results[m] # None) /\ pc' = "done"
       ELSE pc' = "failed" /\ UNCHANGED saved
    /\ UNCHANGED <<task, content, results, queue, finished, delivered, exists, answer>>

\* The session is deleted meanwhile; its message and its comparison go with it.
DeleteSession ==
    /\ exists /\ pc # "stopped" /\ exists' = FALSE /\ answer' = None /\ saved' = None
    /\ UNCHANGED <<task, content, results, queue, finished, delivered, pc>>

\* The program shuts down: the tasks are cancelled, and nothing they said is kept.
Stop ==
    /\ pc \in {"streams", "append", "save"} /\ pc' = "stopped"
    /\ UNCHANGED <<task, content, results, queue, finished, delivered, exists, answer, saved>>

Next ==
    \/ \E m \in Models : Start(m) \/ Chunk(m) \/ Answer(m) \/ Raise(m)
    \/ Take \/ AppendMessage \/ SaveComparison \/ DeleteSession \/ Stop

Spec == Init /\ [][Next]_vars

-----------------------------------------------------------------------------
(* Properties *)

\* A comparison that is saved has every model's answer, the message beside it is the first
\* one's, and the client has seen of every model its start, all of its chunks, and then
\* once how it ended, however the streams were interleaved.
ComparisonWhole ==
    saved # None =>
        /\ saved = ModelIds /\ answer = results[ModelIds[1]].content
        /\ \A m \in Models : delivered[m] =
              <<"model_start">> \o [i \in 1..content[m] |-> "model_chunk"]
              \o <<IF results[m].error THEN "model_error" ELSE "model_done">>
=============================================================================
