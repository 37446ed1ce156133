---------------------------- MODULE WorkflowRuns ----------------------------
(***************************************************************************)
(* WorkflowExecutionService (application/workflows/execution_service.py)   *)
(* on the orchestration engine: the actors of the node types, the          *)
(* translation of engine events, the run history, and the project file an  *)
(* artifact node writes.  Executions of one run id follow each other: the  *)
(* first starts it, later ones resume it from a checkpoint after the       *)
(* process died or the consumer stopped reading.                           *)
(***************************************************************************)
EXTENDS Orchestration

CONSTANTS Workflows,     \* definitions the workflow may have or be edited to
          Requests,      \* [project, mode]: project context, write_mode of the request
          MaxExecutions, \* bound: executions of the run
          MaxEdits,      \* bound: edits of the definition
          HistoryLimit   \* max_runs_per_workflow

ASSUME WorkflowAssumption ==
    /\ \A w \in Workflows : ValidWorkflow(w) /\ None \notin DOMAIN w.nodes
    /\ None \notin TerminalEvents
    /\ MaxExecutions \in Nat /\ MaxEdits \in Nat /\ HistoryLimit \in Nat \ {0}

VARIABLES wf,         \* the stored definition
          request,    \* the request payload, the same for every execution
          ctx,        \* keys of run_state.ctx that nodes have set in this execution
          output,     \* progress.output_text: None, "full", or "blank" (a key was missing)
          file,       \* the artifact's file in the project: None, "full" or "blank"
          records,    \* WorkflowRunHistory.runs, newest first
          executions, edits  \* how many so far

serviceVars == <<wf, request, ctx, output, file, records, executions, edits>>
vars == <<ckpts, run, serviceVars>>

Init ==
    /\ ckpts = <<>> /\ run = Off
    /\ wf \in Workflows /\ request \in Requests
    /\ ctx = {} /\ output = None /\ file = None /\ records = <<>>
    /\ executions = 0 /\ edits = 0

Node == run.spec.nodes[run.node]

\* The retry policy _compile_workflow_run_spec gives a node.
Policy(node) == [retries |-> IF node.type = "llm" THEN MaxRetries ELSE 0,
                 quiet |-> node.type = "llm"]

-----------------------------------------------------------------------------
(* History *)

\* WorkflowRunHistoryService.append_run.
Inserted(record) == SubSeq(<<record>> \o records, 1,
                           IF Len(records) < HistoryLimit THEN Len(records) + 1 ELSE HistoryLimit)

\* progress.status: "success" once "completed" was translated; first a faulty one that is
\* optimistic.
OutcomeUnlessFailed(r) == IF r.pc = "over" /\ r.ending = "failed" THEN "error" ELSE "success"
Outcome(r) == IF r.pc = "over" /\ r.ending = "completed" THEN "success" ELSE "error"

\* The finally clause: after the last event, or when the consumer closes the generator.
Record ==
    /\ Vanish
    /\ records' = Inserted(Outcome(run))
    /\ ctx' = {} /\ output' = None
    /\ UNCHANGED <<wf, request, file, executions, edits>>

\* A crash leaves no record.
Crash ==
    /\ Vanish
    /\ ctx' = {} /\ output' = None
    /\ UNCHANGED <<wf, request, file, records, executions, edits>>

-----------------------------------------------------------------------------
(* Executions *)

Begin ==
    /\ executions < MaxExecutions
    /\ executions' = executions + 1
    /\ UNCHANGED <<wf, request, ctx, output, file, edits>>

\* execute_stream of a new run: "workflow_run_started".
Execute == Begin /\ ckpts = <<>> /\ StartRun(Compile(wf)) /\ UNCHANGED records

\* Invalid inputs: "stream_error", and a record, before the engine is reached.
RejectInputs ==
    /\ Begin /\ run.pc = "off"
    /\ records' = Inserted("error")
    /\ UNCHANGED <<ckpts, run>>

\* execute_stream from a checkpoint.  The context starts empty.
Resume ==
    /\ Begin /\ \E i \in DOMAIN ckpts : ResumeRun(Compile(wf), i)
    /\ UNCHANGED records

\* The workflow is edited between or during executions.
Edit ==
    /\ edits < MaxEdits /\ edits' = edits + 1
    /\ wf' \in Workflows \ {wf}
    /\ UNCHANGED <<ckpts, run, request, ctx, output, file, records, executions>>

\* Engine steps that concern no node's data.
EngineStep ==
    /\ RepeatTerminal \/ ExceedSteps \/ MissNode \/ EnterNode
    /\ UNCHANGED serviceVars

\* "completed" translated: the end node's output becomes the run's.
Completed == Conclude /\ UNCHANGED serviceVars

-----------------------------------------------------------------------------
(* Actors *)

\* _render_template: a key that is not in the context renders as nothing.
Rendered(node) == IF node.reads \subseteq ctx THEN "full" ELSE "blank"

Result(next, branch, status) == [next |-> next, branch |-> branch, status |-> status]

\* _run_start_node.
StartActs ==
    /\ run.pc = "node" /\ Node.type = "start"
    /\ FinishNode(Result(Node.next, None, None))
    /\ UNCHANGED serviceVars

\* _run_llm_node: any number of text deltas ...
LlmSpeaks ==
    /\ run.pc = "node" /\ Node.type = "llm"
    /\ Emit
    /\ UNCHANGED <<wf, request, ctx, output, file, records, executions, edits>>

\* ... and then an error or a timeout ...
LlmFails(retryable) ==
    /\ run.pc = "node" /\ Node.type = "llm"
    /\ RetryNode(Policy(Node), retryable) \/ FailNode(Policy(Node), retryable)
    /\ UNCHANGED serviceVars

\* ... or the result, which _workflow_node_finished_event puts into the context again.
LlmFinishes ==
    /\ run.pc = "node" /\ Node.type = "llm"
    /\ ctx' = ctx \cup {Node.out}
    /\ output' = Rendered(Node)
    /\ FinishNode(Result(Node.next, None, None))
    /\ UNCHANGED <<wf, request, file, records, executions, edits>>

\* _run_condition_node: an unknown variable raises.
ConditionFails ==
    /\ run.pc = "node" /\ Node.type = "condition" /\ ~run.spoke
    /\ ~(Node.reads \subseteq ctx)
    /\ FailNode(Policy(Node), FALSE)
    /\ UNCHANGED <<wf, request, ctx, output, file, records, executions, edits>>

ConditionEvaluates ==
    /\ run.pc = "node" /\ Node.type = "condition" /\ ~run.spoke
    /\ Node.reads \subseteq ctx
    /\ Emit /\ UNCHANGED serviceVars

ConditionFinishes ==
    /\ run.pc = "node" /\ Node.type = "condition" /\ run.spoke
    /\ \E branch \in {"true", "false"} : FinishNode(Result(None, branch, None))
    /\ UNCHANGED serviceVars

WriteMode == IF request.mode # None THEN request.mode ELSE Node.mode

\* _run_artifact_node raises: no project context, or the path is taken.
ArtifactFails ==
    /\ run.pc = "node" /\ Node.type = "artifact" /\ ~run.spoke
    /\ ~request.project \/ (WriteMode = "create" /\ file # None)
    /\ FailNode(Policy(Node), FALSE)
    /\ UNCHANGED serviceVars

\* It writes, and reports that it has written.
ArtifactWrites ==
    /\ run.pc = "node" /\ Node.type = "artifact" /\ ~run.spoke
    /\ request.project /\ ~(WriteMode = "create" /\ file # None)
    /\ file' = IF WriteMode = "none" THEN file ELSE Rendered(Node)
    /\ ctx' = ctx \cup {Node.out}
    /\ Emit
    /\ UNCHANGED <<wf, request, output, records, executions, edits>>

ArtifactFinishes ==
    /\ run.pc = "node" /\ Node.type = "artifact" /\ run.spoke
    /\ output' = Rendered(Node)
    /\ FinishNode(Result(Node.next, None, None))
    /\ UNCHANGED <<wf, request, ctx, file, records, executions, edits>>

\* _run_end_node.
EndReports ==
    /\ run.pc = "node" /\ Node.type = "end" /\ ~run.spoke
    /\ output' = Rendered(Node)
    /\ Emit
    /\ UNCHANGED <<wf, request, ctx, file, records, executions, edits>>

EndFinishes ==
    /\ run.pc = "node" /\ Node.type = "end" /\ run.spoke
    /\ FinishNode(Result(None, None, "completed"))
    /\ UNCHANGED serviceVars

-----------------------------------------------------------------------------
Acts ==
    \/ StartActs
    \/ LlmFails(TRUE)
    \/ ConditionFails \/ ConditionEvaluates \/ ConditionFinishes
    \/ ArtifactFails \/ ArtifactWrites \/ ArtifactFinishes
    \/ EndReports \/ EndFinishes

Next ==
    \/ Execute \/ RejectInputs \/ Resume \/ Edit
    \/ EngineStep \/ Completed
    \/ LlmSpeaks \/ LlmFinishes \/ LlmFails(FALSE) \/ Acts
    \/ Record \/ Crash

\* The event loop runs an execution to its end as long as its consumer reads.  An LLM may
\* never answer, but the engine waits for it no longer than the node's timeout, which is a
\* retryable error.
Progress == EngineStep \/ Completed \/ Acts \/ (run.pc = "over" /\ Record)

Spec == Init /\ [][Next]_vars
FairSpec == Spec /\ WF_vars(Progress)

-----------------------------------------------------------------------------
NodeIds == {None} \cup UNION {DOMAIN w.nodes : w \in Workflows}
Results == [next : NodeIds, branch : {None, "true", "false"}, status : {None, "completed"}]
Trails == Seq([node : NodeIds, next : NodeIds])
Events == TerminalEvents \cup {"started", "node_started", "node_finished"}

Checkpoints == [seq : Nat, step : 0..(MaxSteps + 1), event : Events, node : NodeIds,
                next : NodeIds, branch : {None, "true", "false"}, trail : Trails]

RunStates == [pc : {"off", "loop", "node", "after", "terminal", "over"},
              spec : {None} \cup {Compile(w) : w \in Workflows}, node : NodeIds,
              step : 0..(MaxSteps + 1), seq : Nat, attempt : 0..(MaxRetries + 1),
              spoke : BOOLEAN, result : {None} \cup Results, ending : {None} \cup Events,
              from : Nat, trail : Trails, voices : Nat]

\* Type invariant: what the engine, the store and the service hold.  No node is tried more
\* often than its policy says, and no execution enters more than max_steps nodes.
TypeOK ==
    /\ run \in RunStates /\ ckpts \in Seq(Checkpoints)
    /\ wf \in Workflows /\ request \in Requests
    /\ output \in {None, "full", "blank"} /\ file \in {None, "full", "blank"}
    /\ records \in Seq({"success", "error"})
    /\ executions \in 0..MaxExecutions /\ edits \in 0..MaxEdits

\* The node that a walk which names none is continued at in this execution: the entry, or
\* what _resolve_resume_node takes from the checkpoint and the definition in force now.
Entered == IF run.from = 0 THEN run.spec.entry ELSE ResumeNode(ckpts[run.from], run.spec)

\* The checkpoints implement the abstract durable run: an execution starts at a walk that
\* was saved and goes on at the node due after it (_resolve_resume_node), and no node
\* finishes without its walk being saved (_run_stream_internal).
Durable == INSTANCE DurableRun WITH
    walk <- run.trail,
    durable <- {<<>>} \cup {ckpts[i].trail : i \in DOMAIN ckpts},
    entry <- IF run.pc = "off" THEN None ELSE Entered,
    phase <- CASE run.pc = "off"                            -> "idle"
               [] run.pc \in {"over", "terminal"}           -> "closed"
               [] run.pc = "after" /\ run.result.status # None -> "ending"
               [] OTHER                                     -> "active"

ImplementsDurableRun == Durable!Spec

\* At most one attempt of an LLM node is ever heard: a retry after a text delta would
\* repeat what the client has shown (retry_only_if_no_runtime_events, _should_retry).
OneAttemptSpeaks == run.voices <= 1

\* The step counter that guards against loops counts finished nodes and, once per
\* execution, the node that was under way (resume_stream restores checkpoint.step).
StepsAccounted == run.step <= Len(run.trail) + executions

\* What the executions leave behind: no failed attempt speaks, and the budget of steps counts
\* what was really taken.
AttemptsAccounted == OneAttemptSpeaks /\ StepsAccounted

\* A history record says success only for a run whose end is durable: a client that
\* stops reading or a crash never makes a record of a completion that did not happen.
SuccessIsDurable ==
    (\E i \in DOMAIN records : records[i] = "success")
        => \E i \in DOMAIN ckpts : ckpts[i].event = "completed"

\* Every execution comes to an end: attempts and steps are limited (run_stream).
ExecutionEnds == run.pc # "off" ~> run.pc = "off"
=============================================================================
