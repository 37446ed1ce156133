---------------------------- MODULE Orchestration ----------------------------
(***************************************************************************)
(* OrchestrationEngine (src/application/orchestration/engine.py) over its  *)
(* checkpoint store (run_store.py), for one run id.                        *)
(*                                                                         *)
(* The engine is an async generator: each action below runs from one yield *)
(* to the next, saves at most one checkpoint and yields one event, named   *)
(* in its comment.  What an actor does is a parameter of the action; the   *)
(* module that extends this one supplies it.  No caller in the repository  *)
(* puts a cancel event into the run context, so is_cancelled never holds   *)
(* and its branches are left out; so is the one for a result that leads    *)
(* nowhere, since every actor names a node, a branch or an end.  Delays    *)
(* are left out, their order is not.                                       *)
(***************************************************************************)
EXTENDS WorkflowGraph

CONSTANTS MaxSteps,      \* RunContext.max_steps
          MaxRetries     \* RetryPolicy.max_retries of nodes that have a policy

ASSUME EngineAssumption == MaxSteps \in Nat \ {0} /\ MaxRetries \in Nat

VARIABLES ckpts,   \* the store: checkpoints of the run in the order they were saved
          run      \* the generator's state; pc "off" when there is none

(***************************************************************************)
(* result is the ActorResult of the node just finished, ending the event   *)
(* of the terminal checkpoint.                                             *)
(* trail (history) is what the nodes finished so far say: which node, and  *)
(* which node it named next.  It is kept in the run and in each checkpoint.*)
(* from is the checkpoint resumed from (0: a fresh run), voices (history)  *)
(* counts the attempts of the current node that have yielded an event.     *)
(***************************************************************************)
Off == [pc |-> "off", spec |-> None, node |-> None, step |-> 0, seq |-> 0, attempt |-> 0,
        spoke |-> FALSE, result |-> None, ending |-> None, from |-> 0, trail |-> <<>>,
        voices |-> 0]

Checkpoint(r, event, node) ==
    [seq |-> r.seq + 1, step |-> r.step, event |-> event, node |-> node,
     next |-> None, branch |-> None, trail |-> r.trail]

\* _advance_checkpoint_seq and _save_checkpoint; the new state of the run is r.
Save(r, ckpt) ==
    /\ ckpts' = Append(ckpts, ckpt)
    /\ run' = [r EXCEPT !.seq = r.seq + 1]

TerminalEvents == {"completed", "failed", "cancelled"}

\* run_stream: "started".
StartRun(spec) ==
    /\ run.pc = "off" /\ ValidRunSpec(spec)
    /\ LET r == [Off EXCEPT !.pc = "loop", !.spec = spec, !.node = spec.entry]
       IN  Save(r, Checkpoint(r, "started", None))

\* A faulty resume that repeats the node the checkpoint says is finished.
ResumeSameNode(c, spec) == IF c.node # None THEN c.node ELSE spec.entry

\* _resolve_resume_node.
ResumeNode(c, spec) ==
    CASE c.event = "node_started" -> c.node
      [] c.event = "node_finished" /\ c.next # None -> c.next
      [] c.event = "node_finished" /\ c.next = None ->
            LET edges == IF c.node \in DOMAIN spec.nodes THEN spec.edges[c.node] ELSE <<>>
            IN  IF ResolveNext(edges, c.branch) # None THEN ResolveNext(edges, c.branch)
                ELSE spec.entry
      [] OTHER -> spec.entry

\* The state a resume restores; first a faulty one that mixes up seq and step.
RestoredFromSeq(c) == [Off EXCEPT !.seq = c.seq, !.step = c.seq, !.trail = c.trail]
Restored(c) == [Off EXCEPT !.seq = c.seq, !.step = c.step, !.trail = c.trail]

\* resume_stream from checkpoint i: "resumed".
ResumeRun(spec, i) ==
    /\ run.pc = "off" /\ ValidRunSpec(spec) /\ i \in DOMAIN ckpts
    /\ run' = [Restored(ckpts[i]) EXCEPT
                 !.pc = IF ckpts[i].event \in TerminalEvents THEN "terminal" ELSE "loop",
                 !.spec = spec, !.from = i,
                 !.node = ResumeNode(ckpts[i], spec),
                 !.ending = ckpts[i].event]
    /\ UNCHANGED ckpts

\* The terminal event of the checkpoint once more.
RepeatTerminal ==
    /\ run.pc = "terminal"
    /\ run' = [run EXCEPT !.pc = "over"]
    /\ UNCHANGED ckpts

\* _build_terminal_event: the event is the run's last.
Stop(r, event, node) == Save([r EXCEPT !.pc = "over", !.ending = event], Checkpoint(r, event, node))

-----------------------------------------------------------------------------
(* The loop of _run_stream_internal *)

\* The loop goes round: at its start, or after a node that names another.
AtLoop == \/ run.pc = "loop"
          \/ run.pc = "after" /\ run.result.status = None /\ run.result.next # None

Current == IF run.pc = "after" THEN run.result.next ELSE run.node

NextStep == [run EXCEPT !.step = run.step + 1, !.node = Current]

\* "failed": possible loop detected.
ExceedSteps ==
    /\ AtLoop /\ NextStep.step > MaxSteps
    /\ Stop(NextStep, "failed", None)

\* "failed": the node is not in the graph.
MissNode ==
    /\ AtLoop /\ NextStep.step <= MaxSteps
    /\ Current \notin DOMAIN run.spec.nodes
    /\ Stop(NextStep, "failed", Current)

\* "node_started".
EnterNode ==
    /\ AtLoop /\ NextStep.step <= MaxSteps
    /\ Current \in DOMAIN run.spec.nodes
    /\ Save([NextStep EXCEPT !.pc = "node", !.attempt = 1, !.spoke = FALSE, !.voices = 0],
            Checkpoint(NextStep, "node_started", Current))

\* "node_event": the actor yields an ActorEmit.
Emit ==
    /\ run.pc = "node"
    /\ run' = [run EXCEPT !.spoke = TRUE, !.voices = IF run.spoke THEN @ ELSE @ + 1]
    /\ UNCHANGED ckpts

\* _should_retry under the policy [retries, quiet], quiet being retry_only_if_no_events;
\* first a faulty one that forgets the events.
RetryAnyway(r, policy, retryable) == retryable
ShouldRetry(r, policy, retryable) == (policy.quiet => ~r.spoke) /\ retryable

\* attempt < max_attempts, and the next round of the loop; first faulty ones that try once
\* too often, or do not count.
AttemptsLeftOver(r, policy) == r.attempt <= policy.retries + 1
AttemptsLeft(r, policy) == r.attempt < policy.retries + 1
SameAttempt(r) == [r EXCEPT !.spoke = FALSE]
NextAttempt(r) == [r EXCEPT !.attempt = @ + 1, !.spoke = FALSE]

\* An attempt raised: "node_retrying", or "failed".
RetryNode(policy, retryable) ==
    /\ run.pc = "node"
    /\ AttemptsLeft(run, policy) /\ ShouldRetry(run, policy, retryable)
    /\ run' = NextAttempt(run)
    /\ UNCHANGED ckpts

FailNode(policy, retryable) ==
    /\ run.pc = "node"
    /\ ~(AttemptsLeft(run, policy) /\ ShouldRetry(run, policy, retryable))
    /\ Stop(run, "failed", run.node)

\* The actor's result [next, branch, status]: "node_finished".
FinishNode(result) ==
    /\ run.pc = "node"
    /\ LET next == IF result.status = None /\ result.next = None
                   THEN ResolveNext(run.spec.edges[run.node], result.branch) ELSE result.next
           r == [run EXCEPT !.pc = "after", !.result = [result EXCEPT !.next = next],
                            !.trail = Append(@, [node |-> run.node, next |-> next])]
       IN  Save(r, [Checkpoint(r, "node_finished", run.node) EXCEPT
                        !.next = next, !.branch = result.branch])

\* The terminal event of a result with a terminal status.
Conclude ==
    /\ run.pc = "after" /\ run.result.status # None
    /\ Stop(run, run.result.status, run.node)

\* The process dies or the generator is closed.
Vanish == run.pc # "off" /\ run' = Off /\ UNCHANGED ckpts
=============================================================================
